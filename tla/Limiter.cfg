SPECIFICATION LimiterSpec
CONSTANTS
    Workers = {w1, w2}
    Partition = 3
    Permit = 4
    Limiters = 1
    Word = 5
    MaxUsed = 9
INVARIANTS
    ConsumedBounded
PROPERTIES
    NeverAllStuck
