--------------------------- MODULE OwnedResources ---------------------------
(***************************************************************************)
(* What a bridge session promises about the resources it owns (pending     *)
(* DartFn replies, C++ objects behind handles): a resource is registered   *)
(* only before the session is sealed, is refused only once the session is  *)
(* being closed, is let go exactly once, and nothing is held any more when *)
(* the session is closed.                                                  *)
(***************************************************************************)
CONSTANTS
  Sessions,
  Resources,
  Owner         \* the session of every resource

VARIABLES
  session,      \* "new", "open", "closing", "sealed" or "closed"
  resource      \* "none", "refused", "held" or "released"

absVars == <<session, resource>>

Held(s) == {r \in Resources : Owner[r] = s /\ resource[r] = "held"}

LetGo(R) ==
  resource' = [r \in Resources |-> IF r \in R THEN "released" ELSE resource[r]]

Init ==
  /\ session = [s \in Sessions |-> "new"]
  /\ resource = [r \in Resources |-> "none"]

Open(s) ==
  /\ session[s] = "new"
  /\ session' = [session EXCEPT ![s] = "open"]
  /\ UNCHANGED resource

Register(r) ==
  /\ session[Owner[r]] \in {"open", "closing"} /\ resource[r] = "none"
  /\ resource' = [resource EXCEPT ![r] = "held"]
  /\ UNCHANGED session

Refuse(r) ==
  /\ session[Owner[r]] \notin {"new", "open"} /\ resource[r] = "none"
  /\ resource' = [resource EXCEPT ![r] = "refused"]
  /\ UNCHANGED session

\* Any number of held resources of one session is let go at once.
Release(s) ==
  /\ \E R \in SUBSET Held(s) : R # {} /\ LetGo(R)
  /\ UNCHANGED session

BeginClose(S) ==
  /\ S # {} /\ \A s \in S : session[s] = "open"
  /\ session' = [s \in Sessions |-> IF s \in S THEN "closing" ELSE session[s]]
  /\ UNCHANGED resource

\* No registration from here on; what is held may be let go with it.
Seal(s) ==
  /\ session[s] = "closing"
  /\ session' = [session EXCEPT ![s] = "sealed"]
  /\ \E R \in SUBSET Held(s) : LetGo(R)

EndClose(s) ==
  /\ session[s] = "sealed" /\ Held(s) = {}
  /\ session' = [session EXCEPT ![s] = "closed"]
  /\ UNCHANGED resource

Next ==
  \/ \E s \in Sessions : Open(s) \/ Release(s) \/ Seal(s) \/ EndClose(s)
  \/ \E r \in Resources : Register(r) \/ Refuse(r)
  \/ \E S \in SUBSET Sessions : BeginClose(S)

Spec == Init /\ [][Next]_absVars
=============================================================================
