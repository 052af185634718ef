----------------------------- MODULE MCSessions -----------------------------
(* Sessions for TLC: a call and an object of one session, and a second     *)
(* session that owns nothing, for close_all to find as well.               *)
EXTENDS Sessions

CONSTANTS s1, s2

OneOwner == [r \in Resources |-> s1]
=============================================================================
