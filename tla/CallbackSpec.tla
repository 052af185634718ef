---------------------------- MODULE CallbackSpec ----------------------------
(***************************************************************************)
(* What cbridge.h promises about dcb_invoke_dart_fn: a call is either      *)
(* refused (-1) and its callback never called, or taken and its callback   *)
(* called once; and a runtime does not become stopped while a call that    *)
(* has returned 0 still waits for its callback.                            *)
(***************************************************************************)
EXTENDS Naturals

CONSTANT Calls

VARIABLES
  up,           \* FALSE: the runtime is stopped
  outcome,      \* what the caller knows: "none", "taken", "zero", "refused"
  fired         \* how often the callback has been called

specVars == <<up, outcome, fired>>

Init ==
  /\ up = FALSE
  /\ outcome = [c \in Calls |-> "none"]
  /\ fired = [c \in Calls |-> 0]

Take(c, out) ==
  /\ up /\ outcome[c] = "none"
  /\ outcome' = [outcome EXCEPT ![c] = out]
  /\ UNCHANGED <<up, fired>>

Refuse(c) ==
  /\ outcome[c] = "none"
  /\ outcome' = [outcome EXCEPT ![c] = "refused"]
  /\ UNCHANGED <<up, fired>>

\* The call returns 0.
Return(c) ==
  /\ outcome[c] = "taken"
  /\ outcome' = [outcome EXCEPT ![c] = "zero"]
  /\ UNCHANGED <<up, fired>>

Fire(c) ==
  /\ outcome[c] \in {"taken", "zero"} /\ fired[c] = 0
  /\ fired' = [fired EXCEPT ![c] = 1]
  /\ UNCHANGED <<up, outcome>>

\* A caller that fires its own callback returns with it.
FireAndReturn(c) ==
  /\ outcome[c] = "taken" /\ fired[c] = 0
  /\ fired' = [fired EXCEPT ![c] = 1]
  /\ outcome' = [outcome EXCEPT ![c] = "zero"]
  /\ UNCHANGED up

Start == ~up /\ up' = TRUE /\ UNCHANGED <<outcome, fired>>

Stop ==
  /\ up /\ \A c \in Calls : outcome[c] = "zero" => fired[c] = 1
  /\ up' = FALSE
  /\ UNCHANGED <<outcome, fired>>

Next ==
  \/ Start \/ Stop
  \/ \E c \in Calls : \/ Take(c, "taken") \/ Take(c, "zero") \/ Refuse(c)
                      \/ Return(c) \/ Fire(c) \/ FireAndReturn(c)

Spec == Init /\ [][Next]_specVars
=============================================================================
