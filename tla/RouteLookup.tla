----------------------------- MODULE RouteLookup -----------------------------
(***************************************************************************)
(* What ClientImpl::getRouteFor promises its callers: a call is answered   *)
(* through its callback, at most once, with a route or an error, and never *)
(* before it was made.                                                     *)
(***************************************************************************)
CONSTANTS
  Callers,  \* calls of getRouteFor
  Answers   \* routes and errors a callback may be given

VARIABLES
  calling,  \* calls made and not yet answered
  answer    \* what each callback was given, one entry per invocation

vars == <<calling, answer>>

Init ==
  /\ calling = {}
  /\ answer = [c \in Callers |-> <<>>]

Call(c) ==
  /\ c \notin calling
  /\ answer[c] = <<>>
  /\ calling' = calling \cup {c}
  /\ UNCHANGED answer

Answer(c, a) ==
  /\ c \in calling
  /\ calling' = calling \ {c}
  /\ answer' = [answer EXCEPT ![c] = <<a>>]

Next == \E c \in Callers : Call(c) \/ \E a \in Answers : Answer(c, a)

Spec == Init /\ [][Next]_vars

=============================================================================
