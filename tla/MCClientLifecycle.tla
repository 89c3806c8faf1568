------------------------- MODULE MCClientLifecycle -------------------------
(* Two clients that share a manager; the one started last may need another. *)
EXTENDS ClientLifecycle
=============================================================================
