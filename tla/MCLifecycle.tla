---------------------------- MODULE MCLifecycle ----------------------------
(* Instances of Lifecycle: each call has a session of its own. *)
EXTENDS Lifecycle

CONSTANTS s1, s2, c1

OneEach == [c \in Calls |-> IF c = c1 THEN s1 ELSE s2]
=============================================================================
