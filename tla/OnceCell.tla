------------------------------ MODULE OnceCell ------------------------------
(***************************************************************************)
(* What an asynchronous operation promises to whoever waits for it: its    *)
(* result is written once and never changes, at most one party reads it,   *)
(* and that party reads it once.                                           *)
(***************************************************************************)
CONSTANTS Ops, Waits, Results, None

VARIABLES
  result,  \* the result of every operation, or None
  reader,  \* the wait that owns the receiving side of the operation, or None
  got      \* what every wait has resumed with, or None

vars == <<result, reader, got>>

Init ==
  /\ result = [o \in Ops |-> None]
  /\ reader = [o \in Ops |-> None]
  /\ got = [w \in Waits |-> None]

Write(o, r) ==
  /\ result[o] = None
  /\ result' = [result EXCEPT ![o] = r]
  /\ UNCHANGED <<reader, got>>

Claim(w, o) ==
  /\ reader[o] = None
  /\ \A p \in Ops : reader[p] # w
  /\ reader' = [reader EXCEPT ![o] = w]
  /\ UNCHANGED <<result, got>>

Read(w, o) ==
  /\ reader[o] = w
  /\ result[o] # None /\ got[w] = None
  /\ got' = [got EXCEPT ![w] = result[o]]
  /\ UNCHANGED <<result, reader>>

Next ==
  \/ \E o \in Ops, r \in Results : Write(o, r)
  \/ \E w \in Waits, o \in Ops : Claim(w, o) \/ Read(w, o)

Spec == Init /\ [][Next]_vars
=============================================================================
