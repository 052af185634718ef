------------------------------- MODULE MCMpsc -------------------------------
(* Mpsc for TLC: operations that differ only in their name are symmetric.  *)
EXTENDS Mpsc

Symmetry == Permutations(Sends) \cup Permutations(Recvs)
=============================================================================
