--------------------------- MODULE LifecycleProofs ---------------------------
(***************************************************************************)
(* Proofs about Lifecycle: whoever wins the exchange of `completed' fires  *)
(* the callback of a call, a call nobody has won is still in the map the   *)
(* stopping thread empties, and only one thread stops the runtime.  So a   *)
(* callback fires once, and none that is owed survives stop().  And when   *)
(* nobody has anything left to do nobody is owed a callback, unless an     *)
(* open has overlapped a shutdown.                                         *)
(***************************************************************************)
EXTENDS Lifecycle, TLAPS

-----------------------------------------------------------------------------
(* The inductive invariant.                                                *)

Stopping == {"cancelling", "finishing", "firing", "joining"}

\* One thread at most is inside stop(); it has the calls it takes, and leaves
\* an empty map behind, into which nothing is accepted.
StopInv ==
  /\ \A t \in Shutters : shutPc[t] \in Stopping => lifecycle = "stopping"
  /\ \A t, u \in Shutters : shutPc[t] \in Stopping /\ shutPc[u] \in Stopping => t = u
  /\ \A t \in Shutters : shutCall[t] # NoCall <=> shutPc[t] \in {"finishing", "firing"}
  /\ \A t \in Shutters : shutPc[t] = "joining" => calls = {}

\* What has been registered or has a coroutine has not been refused.
OutcomeInv ==
  /\ \A c \in Calls : coro[c] # "none" => callPc[c] = "zero"
  /\ \A c \in calls : callPc[c] \in {"failing", "erasing", "firing", "zero"}
  /\ \A t \in Shutters : \A c \in Calls :
       shutCall[t] = c => callPc[c] \in {"failing", "erasing", "firing", "zero"}

\* Who has won the exchange and has not yet fired.
CoroHolds(c) == coro[c] \in {"erasing", "firing"}
CallHolds(c) == callPc[c] \in {"erasing", "firing"}
ShutHolds(t, c) == shutPc[t] = "firing" /\ shutCall[t] = c

HolderInv ==
  /\ \A c \in completed :
       \/ fires[c] = 1 \/ CoroHolds(c) \/ CallHolds(c)
       \/ \E t \in Shutters : ShutHolds(t, c)
  /\ \A c \in Calls : fires[c] = 1 => c \in completed
  /\ \A c \in Calls : CoroHolds(c) \/ CallHolds(c) => c \in completed /\ fires[c] = 0
  /\ \A c \in Calls : \A t \in Shutters :
       ShutHolds(t, c) => c \in completed /\ fires[c] = 0 /\ ~CoroHolds(c) /\ ~CallHolds(c)

\* A call that returned 0 and has not been called back is in the map, or in the
\* hands of its coroutine or of the thread in stop().
OwedInv ==
  \A c \in Calls : callPc[c] = "zero" /\ fires[c] = 0 =>
    \/ c \in calls \/ CoroHolds(c)
    \/ \E t \in Shutters : shutCall[t] = c

IInv ==
  /\ TypeOK
  /\ RunningMeansHooked
  /\ StopInv
  /\ OutcomeInv
  /\ HolderInv
  /\ OwedInv

\* The initial state satisfies the invariant.
LEMMA InitIInv == Init => IInv
<1> SUFFICES ASSUME Init PROVE IInv
  OBVIOUS
<1>1. TypeOK
  <2>1. /\ openPc \in [SessionIds -> {"idle", "started", "hooked", "open", "failed"}]
        /\ shutPc \in [Shutters -> {"idle", "closing", "unhooked", "cancelling", "finishing",
                                    "firing", "joining"}]
        /\ batch \in [Shutters -> SUBSET SessionIds]
        /\ shutCall \in [Shutters -> Calls \cup {NoCall}]
    BY DEF Init
  <2>2. /\ callPc \in [Calls -> {"idle", "looked", "refused", "failing", "erasing", "firing", "zero"}]
        /\ coro \in [Calls -> {"none", "queued", "awaiting", "done"} \cup InHandler]
        /\ fires \in [Calls -> 0..1]
    BY DEF Init
  <2> QED
    BY <2>1, <2>2 DEF Init, TypeOK
<1>2. RunningMeansHooked /\ OutcomeInv
  BY LifecycleAssumption DEF Init, RunningMeansHooked, Running, OutcomeInv
<1>3. StopInv /\ HolderInv /\ OwedInv
  BY LifecycleAssumption
     DEF Init, StopInv, Stopping, HolderInv, OwedInv, CoroHolds, CallHolds, ShutHolds
<1> QED
  BY <1>1, <1>2, <1>3 DEF IInv

-----------------------------------------------------------------------------
(* Every action keeps it.                                                  *)

\* Start keeps the invariant.
LEMMA StartKeeps ==
  ASSUME IInv, NEW s \in SessionIds, Start(s)
  PROVE  IInv'
<1>1. TypeOK'
  BY LifecycleAssumption DEF IInv, Start, shutVars, callVars, replyVars,
     Running, TypeOK, InHandler
<1>2. RunningMeansHooked'
  BY LifecycleAssumption DEF IInv, Start, shutVars, callVars, replyVars,
     Running, TypeOK, RunningMeansHooked
<1>3. StopInv'
  BY LifecycleAssumption DEF IInv, Start, shutVars, callVars, replyVars,
     Running, TypeOK, StopInv, Stopping
<1>4. OutcomeInv'
  BY LifecycleAssumption DEF IInv, Start, shutVars, callVars, replyVars,
     Running, TypeOK, StopInv, OutcomeInv
<1>5. HolderInv'
  BY LifecycleAssumption DEF IInv, Start, shutVars, callVars, replyVars,
     Running, TypeOK, InHandler, StopInv, OutcomeInv, HolderInv, CoroHolds,
     CallHolds, ShutHolds
<1>6. OwedInv'
  BY LifecycleAssumption DEF IInv, Start, shutVars, callVars, replyVars,
     Running, TypeOK, StopInv, OutcomeInv, HolderInv, OwedInv, CoroHolds,
     CallHolds, ShutHolds
<1> QED
  BY <1>1, <1>2, <1>3, <1>4, <1>5, <1>6 DEF IInv

\* Hook keeps the invariant.
LEMMA HookKeeps ==
  ASSUME IInv, NEW s \in SessionIds, Hook(s)
  PROVE  IInv'
<1>1. TypeOK'
  BY LifecycleAssumption DEF IInv, Hook, shutVars, callVars, replyVars,
     TypeOK, InHandler
<1>2. RunningMeansHooked'
  BY LifecycleAssumption DEF IInv, Hook, shutVars, callVars, replyVars,
     TypeOK, RunningMeansHooked, Running
<1>3. StopInv'
  BY LifecycleAssumption DEF IInv, Hook, shutVars, callVars, replyVars,
     TypeOK, StopInv, Stopping
<1>4. OutcomeInv'
  BY LifecycleAssumption DEF IInv, Hook, shutVars, callVars, replyVars,
     TypeOK, StopInv, OutcomeInv
<1>5. HolderInv'
  BY LifecycleAssumption DEF IInv, Hook, shutVars, callVars, replyVars,
     TypeOK, InHandler, StopInv, OutcomeInv, HolderInv, CoroHolds, CallHolds,
     ShutHolds
<1>6. OwedInv'
  BY LifecycleAssumption DEF IInv, Hook, shutVars, callVars, replyVars,
     TypeOK, StopInv, OutcomeInv, HolderInv, OwedInv, CoroHolds, CallHolds,
     ShutHolds
<1> QED
  BY <1>1, <1>2, <1>3, <1>4, <1>5, <1>6 DEF IInv

\* Open keeps the invariant.
LEMMA OpenKeeps ==
  ASSUME IInv, NEW s \in SessionIds, Open(s)
  PROVE  IInv'
<1>1. TypeOK'
  BY LifecycleAssumption DEF IInv, Open, runVars, shutVars, callVars,
     replyVars, TypeOK, InHandler
<1>2. RunningMeansHooked'
  BY LifecycleAssumption DEF IInv, Open, runVars, shutVars, callVars,
     replyVars, TypeOK, RunningMeansHooked, Running
<1>3. StopInv'
  BY LifecycleAssumption DEF IInv, Open, runVars, shutVars, callVars,
     replyVars, TypeOK, StopInv, Stopping
<1>4. OutcomeInv'
  BY LifecycleAssumption DEF IInv, Open, runVars, shutVars, callVars,
     replyVars, TypeOK, StopInv, OutcomeInv
<1>5. HolderInv'
  BY LifecycleAssumption DEF IInv, Open, runVars, shutVars, callVars,
     replyVars, TypeOK, InHandler, StopInv, OutcomeInv, HolderInv, CoroHolds,
     CallHolds, ShutHolds
<1>6. OwedInv'
  BY LifecycleAssumption DEF IInv, Open, runVars, shutVars, callVars,
     replyVars, TypeOK, StopInv, OutcomeInv, HolderInv, OwedInv, CoroHolds,
     CallHolds, ShutHolds
<1> QED
  BY <1>1, <1>2, <1>3, <1>4, <1>5, <1>6 DEF IInv

\* Close keeps the invariant.
LEMMA CloseKeeps ==
  ASSUME IInv, NEW s \in SessionIds, Close(s)
  PROVE  IInv'
<1>1. TypeOK'
  BY LifecycleAssumption DEF IInv, Close, runVars, shutVars, callVars,
     replyVars, TypeOK, InHandler
<1>2. RunningMeansHooked'
  BY LifecycleAssumption DEF IInv, Close, runVars, shutVars, callVars,
     replyVars, TypeOK, RunningMeansHooked, Running
<1>3. StopInv'
  BY LifecycleAssumption DEF IInv, Close, runVars, shutVars, callVars,
     replyVars, TypeOK, StopInv, Stopping
<1>4. OutcomeInv'
  BY LifecycleAssumption DEF IInv, Close, runVars, shutVars, callVars,
     replyVars, TypeOK, StopInv, OutcomeInv
<1>5. HolderInv'
  BY LifecycleAssumption DEF IInv, Close, runVars, shutVars, callVars,
     replyVars, TypeOK, InHandler, StopInv, OutcomeInv, HolderInv, CoroHolds,
     CallHolds, ShutHolds
<1>6. OwedInv'
  BY LifecycleAssumption DEF IInv, Close, runVars, shutVars, callVars,
     replyVars, TypeOK, StopInv, OutcomeInv, HolderInv, OwedInv, CoroHolds,
     CallHolds, ShutHolds
<1> QED
  BY <1>1, <1>2, <1>3, <1>4, <1>5, <1>6 DEF IInv

\* Dispose keeps the invariant.
LEMMA DisposeKeeps ==
  ASSUME IInv, NEW s \in SessionIds, Dispose(s)
  PROVE  IInv'
<1>1. TypeOK'
  BY LifecycleAssumption DEF IInv, Dispose, DisposeSession, runVars, shutVars,
     callVars, TypeOK, InHandler
<1>2. RunningMeansHooked'
  BY LifecycleAssumption DEF IInv, Dispose, DisposeSession, runVars, shutVars,
     callVars, TypeOK, RunningMeansHooked, Running
<1>3. StopInv'
  BY LifecycleAssumption DEF IInv, Dispose, DisposeSession, runVars, shutVars,
     callVars, TypeOK, StopInv, Stopping
<1>4. OutcomeInv'
  BY LifecycleAssumption DEF IInv, Dispose, DisposeSession, runVars, shutVars,
     callVars, TypeOK, StopInv, OutcomeInv
<1>5. HolderInv'
  BY LifecycleAssumption DEF IInv, Dispose, DisposeSession, runVars, shutVars,
     callVars, TypeOK, InHandler, StopInv, OutcomeInv, HolderInv, CoroHolds,
     CallHolds, ShutHolds
<1>6. OwedInv'
  BY LifecycleAssumption DEF IInv, Dispose, DisposeSession, runVars, shutVars,
     callVars, TypeOK, StopInv, OutcomeInv, HolderInv, OwedInv, CoroHolds,
     CallHolds, ShutHolds
<1> QED
  BY <1>1, <1>2, <1>3, <1>4, <1>5, <1>6 DEF IInv

\* CloseAll keeps the invariant.
LEMMA CloseAllKeeps ==
  ASSUME IInv, NEW t \in Shutters, CloseAll(t)
  PROVE  IInv'
<1>1. TypeOK'
  BY LifecycleAssumption DEF IInv, CloseAll, runVars, callVars, replyVars,
     TypeOK, InHandler
<1>2. RunningMeansHooked'
  BY LifecycleAssumption DEF IInv, CloseAll, runVars, callVars, replyVars,
     TypeOK, RunningMeansHooked, Running
<1>3. StopInv'
  BY LifecycleAssumption DEF IInv, CloseAll, runVars, callVars, replyVars,
     TypeOK, StopInv, Stopping
<1>4. OutcomeInv'
  BY LifecycleAssumption DEF IInv, CloseAll, runVars, callVars, replyVars,
     TypeOK, StopInv, OutcomeInv
<1>5. HolderInv'
  BY LifecycleAssumption DEF IInv, CloseAll, runVars, callVars, replyVars,
     TypeOK, InHandler, StopInv, OutcomeInv, HolderInv, CoroHolds, CallHolds,
     ShutHolds
<1>6. OwedInv'
  BY LifecycleAssumption DEF IInv, CloseAll, runVars, callVars, replyVars,
     TypeOK, StopInv, OutcomeInv, HolderInv, OwedInv, CoroHolds, CallHolds,
     ShutHolds
<1> QED
  BY <1>1, <1>2, <1>3, <1>4, <1>5, <1>6 DEF IInv

\* DisposeOne keeps the invariant.
LEMMA DisposeOneKeeps ==
  ASSUME IInv, NEW t \in Shutters, DisposeOne(t)
  PROVE  IInv'
<1>1. TypeOK'
  BY LifecycleAssumption DEF IInv, DisposeOne, DisposeSession, runVars,
     callVars, TypeOK, InHandler
<1>2. RunningMeansHooked'
  BY LifecycleAssumption DEF IInv, DisposeOne, DisposeSession, runVars,
     callVars, TypeOK, RunningMeansHooked, Running
<1>3. StopInv'
  BY LifecycleAssumption DEF IInv, DisposeOne, DisposeSession, runVars,
     callVars, TypeOK, StopInv, Stopping
<1>4. OutcomeInv'
  BY LifecycleAssumption DEF IInv, DisposeOne, DisposeSession, runVars,
     callVars, TypeOK, StopInv, OutcomeInv
<1>5. HolderInv'
  BY LifecycleAssumption DEF IInv, DisposeOne, DisposeSession, runVars,
     callVars, TypeOK, InHandler, StopInv, OutcomeInv, HolderInv, CoroHolds,
     CallHolds, ShutHolds
<1>6. OwedInv'
  BY LifecycleAssumption DEF IInv, DisposeOne, DisposeSession, runVars,
     callVars, TypeOK, StopInv, OutcomeInv, HolderInv, OwedInv, CoroHolds,
     CallHolds, ShutHolds
<1> QED
  BY <1>1, <1>2, <1>3, <1>4, <1>5, <1>6 DEF IInv

\* Unhook keeps the invariant.
LEMMA UnhookKeeps ==
  ASSUME IInv, NEW t \in Shutters, Unhook(t)
  PROVE  IInv'
<1>1. TypeOK'
  BY LifecycleAssumption DEF IInv, Unhook, sessVars, callVars, replyVars,
     TypeOK, InHandler
<1>2. RunningMeansHooked'
  BY LifecycleAssumption DEF IInv, Unhook, sessVars, callVars, replyVars,
     TypeOK, RunningMeansHooked, Running
<1>3. StopInv'
  BY LifecycleAssumption DEF IInv, Unhook, sessVars, callVars, replyVars,
     TypeOK, StopInv, Stopping
<1>4. OutcomeInv'
  BY LifecycleAssumption DEF IInv, Unhook, sessVars, callVars, replyVars,
     TypeOK, StopInv, OutcomeInv
<1>5. HolderInv'
  BY LifecycleAssumption DEF IInv, Unhook, sessVars, callVars, replyVars,
     TypeOK, InHandler, StopInv, OutcomeInv, HolderInv, CoroHolds, CallHolds,
     ShutHolds
<1>6. OwedInv'
  BY LifecycleAssumption DEF IInv, Unhook, sessVars, callVars, replyVars,
     TypeOK, StopInv, OutcomeInv, HolderInv, OwedInv, CoroHolds, CallHolds,
     ShutHolds
<1> QED
  BY <1>1, <1>2, <1>3, <1>4, <1>5, <1>6 DEF IInv

\* StopBegins keeps the invariant.
LEMMA StopBeginsKeeps ==
  ASSUME IInv, NEW t \in Shutters, StopBegins(t)
  PROVE  IInv'
<1>1. TypeOK'
  BY LifecycleAssumption DEF IInv, StopBegins, sessVars, callVars, replyVars,
     Running, TypeOK, InHandler
<1>2. RunningMeansHooked'
  BY LifecycleAssumption DEF IInv, StopBegins, sessVars, callVars, replyVars,
     Running, TypeOK, RunningMeansHooked
<1>3. StopInv'
  BY LifecycleAssumption DEF IInv, StopBegins, sessVars, callVars, replyVars,
     Running, TypeOK, StopInv, Stopping
<1>4. OutcomeInv'
  BY LifecycleAssumption DEF IInv, StopBegins, sessVars, callVars, replyVars,
     Running, TypeOK, StopInv, OutcomeInv
<1>5. HolderInv'
  BY LifecycleAssumption DEF IInv, StopBegins, sessVars, callVars, replyVars,
     Running, TypeOK, InHandler, StopInv, OutcomeInv, HolderInv, CoroHolds,
     CallHolds, ShutHolds
<1>6. OwedInv'
  BY LifecycleAssumption DEF IInv, StopBegins, sessVars, callVars, replyVars,
     Running, TypeOK, StopInv, OutcomeInv, HolderInv, OwedInv, CoroHolds,
     CallHolds, ShutHolds
<1> QED
  BY <1>1, <1>2, <1>3, <1>4, <1>5, <1>6 DEF IInv

\* CancelTakes keeps the invariant.
LEMMA CancelTakesKeeps ==
  ASSUME IInv, NEW t \in Shutters, CancelTakes(t)
  PROVE  IInv'
<1>1. TypeOK'
  BY LifecycleAssumption DEF IInv, CancelTakes, runVars, sessVars, replyVars,
     TypeOK, InHandler
<1>2. RunningMeansHooked'
  BY LifecycleAssumption DEF IInv, CancelTakes, runVars, sessVars, replyVars,
     TypeOK, RunningMeansHooked, Running
<1>3. StopInv'
  BY LifecycleAssumption DEF IInv, CancelTakes, runVars, sessVars, replyVars,
     TypeOK, StopInv, Stopping
<1>4. OutcomeInv'
  BY LifecycleAssumption DEF IInv, CancelTakes, runVars, sessVars, replyVars,
     TypeOK, StopInv, OutcomeInv
<1>5. HolderInv'
  BY LifecycleAssumption DEF IInv, CancelTakes, runVars, sessVars, replyVars,
     TypeOK, InHandler, StopInv, OutcomeInv, HolderInv, CoroHolds, CallHolds,
     ShutHolds
<1>6. OwedInv'
  BY LifecycleAssumption DEF IInv, CancelTakes, runVars, sessVars, replyVars,
     TypeOK, StopInv, OutcomeInv, HolderInv, OwedInv, CoroHolds, CallHolds,
     ShutHolds
<1> QED
  BY <1>1, <1>2, <1>3, <1>4, <1>5, <1>6 DEF IInv

\* CancelFinishes keeps the invariant.
LEMMA CancelFinishesKeeps ==
  ASSUME IInv, NEW t \in Shutters, CancelFinishes(t)
  PROVE  IInv'
<1>1. TypeOK'
  BY LifecycleAssumption DEF IInv, CancelFinishes, runVars, sessVars,
     replyVars, TypeOK, InHandler, StopInv
<1>2. RunningMeansHooked'
  BY LifecycleAssumption DEF IInv, CancelFinishes, runVars, sessVars,
     replyVars, TypeOK, RunningMeansHooked, Running
<1>3. StopInv'
  BY LifecycleAssumption DEF IInv, CancelFinishes, runVars, sessVars,
     replyVars, TypeOK, StopInv, Stopping
<1>4. OutcomeInv'
  BY LifecycleAssumption DEF IInv, CancelFinishes, runVars, sessVars,
     replyVars, TypeOK, StopInv, OutcomeInv
<1>5. HolderInv'
  BY LifecycleAssumption DEF IInv, CancelFinishes, runVars, sessVars,
     replyVars, TypeOK, InHandler, StopInv, OutcomeInv, HolderInv, CoroHolds,
     CallHolds, ShutHolds
<1>6. OwedInv'
  BY LifecycleAssumption DEF IInv, CancelFinishes, runVars, sessVars,
     replyVars, TypeOK, StopInv, OutcomeInv, HolderInv, OwedInv, CoroHolds,
     CallHolds, ShutHolds
<1> QED
  BY <1>1, <1>2, <1>3, <1>4, <1>5, <1>6 DEF IInv

\* CancelFires keeps the invariant.
LEMMA CancelFiresKeeps ==
  ASSUME IInv, NEW t \in Shutters, CancelFires(t)
  PROVE  IInv'
<1>1. TypeOK'
  BY LifecycleAssumption DEF IInv, CancelFires, runVars, sessVars, replyVars,
     TypeOK, InHandler, HolderInv, CoroHolds, CallHolds, ShutHolds, StopInv
<1>2. RunningMeansHooked'
  BY LifecycleAssumption DEF IInv, CancelFires, runVars, sessVars, replyVars,
     TypeOK, RunningMeansHooked, Running
<1>3. StopInv'
  BY LifecycleAssumption DEF IInv, CancelFires, runVars, sessVars, replyVars,
     TypeOK, StopInv, Stopping
<1>4. OutcomeInv'
  BY LifecycleAssumption DEF IInv, CancelFires, runVars, sessVars, replyVars,
     TypeOK, StopInv, OutcomeInv
<1>5. HolderInv'
  <2>1. PICK c \in Calls : c = shutCall[t] /\ ShutHolds(t, c)
    BY DEF IInv, CancelFires, TypeOK, StopInv, ShutHolds
  <2>2. fires'[c] = 1 /\ c \in completed /\ ~CoroHolds(c) /\ ~CallHolds(c)
    BY <2>1 DEF IInv, CancelFires, TypeOK, HolderInv
  <2>3. \A u \in Shutters : ~ShutHolds(u, c)'
    BY <2>1, LifecycleAssumption
       DEF IInv, CancelFires, TypeOK, StopInv, Stopping, ShutHolds
  <2>4. \A d \in Calls : d # c => fires'[d] = fires[d]
    BY <2>1 DEF CancelFires, IInv, TypeOK
  <2>5. \A u \in Shutters, d \in Calls : d # c => (ShutHolds(u, d)' <=> ShutHolds(u, d))
    BY <2>1, LifecycleAssumption DEF CancelFires, IInv, TypeOK, ShutHolds
  <2>6. \A d \in Calls : (CoroHolds(d)' <=> CoroHolds(d)) /\ (CallHolds(d)' <=> CallHolds(d))
    BY DEF CancelFires, CoroHolds, CallHolds
  <2>7. completed' = completed /\ completed \subseteq Calls
    BY DEF CancelFires, IInv, TypeOK
  <2>8. HolderInv
    BY DEF IInv
  <2> QED
    BY <2>2, <2>3, <2>4, <2>5, <2>6, <2>7, <2>8 DEF HolderInv
<1>6. OwedInv'
  BY LifecycleAssumption DEF IInv, CancelFires, runVars, sessVars, replyVars,
     TypeOK, StopInv, OutcomeInv, HolderInv, OwedInv, CoroHolds, CallHolds,
     ShutHolds
<1> QED
  BY <1>1, <1>2, <1>3, <1>4, <1>5, <1>6 DEF IInv

\* StopIo keeps the invariant.
LEMMA StopIoKeeps ==
  ASSUME IInv, NEW t \in Shutters, StopIo(t)
  PROVE  IInv'
<1>1. TypeOK'
  BY LifecycleAssumption DEF IInv, StopIo, sessVars, callVars, replyVars,
     TypeOK, InHandler
<1>2. RunningMeansHooked'
  BY LifecycleAssumption DEF IInv, StopIo, sessVars, callVars, replyVars,
     TypeOK, RunningMeansHooked, Running
<1>3. StopInv'
  BY LifecycleAssumption DEF IInv, StopIo, sessVars, callVars, replyVars,
     TypeOK, StopInv, Stopping
<1>4. OutcomeInv'
  BY LifecycleAssumption DEF IInv, StopIo, sessVars, callVars, replyVars,
     TypeOK, StopInv, OutcomeInv
<1>5. HolderInv'
  BY LifecycleAssumption DEF IInv, StopIo, sessVars, callVars, replyVars,
     TypeOK, InHandler, StopInv, OutcomeInv, HolderInv, CoroHolds, CallHolds,
     ShutHolds
<1>6. OwedInv'
  BY LifecycleAssumption DEF IInv, StopIo, sessVars, callVars, replyVars,
     TypeOK, StopInv, OutcomeInv, HolderInv, OwedInv, CoroHolds, CallHolds,
     ShutHolds
<1> QED
  BY <1>1, <1>2, <1>3, <1>4, <1>5, <1>6 DEF IInv

\* StopEnds keeps the invariant.
LEMMA StopEndsKeeps ==
  ASSUME IInv, NEW t \in Shutters, StopEnds(t)
  PROVE  IInv'
<1>1. TypeOK'
  BY LifecycleAssumption DEF IInv, StopEnds, sessVars, callVars, replyVars,
     TypeOK, InHandler
<1>2. RunningMeansHooked'
  BY LifecycleAssumption DEF IInv, StopEnds, sessVars, callVars, replyVars,
     TypeOK, RunningMeansHooked, Running
<1>3. StopInv'
  BY LifecycleAssumption DEF IInv, StopEnds, sessVars, callVars, replyVars,
     TypeOK, StopInv, Stopping
<1>4. OutcomeInv'
  BY LifecycleAssumption DEF IInv, StopEnds, sessVars, callVars, replyVars,
     TypeOK, StopInv, OutcomeInv
<1>5. HolderInv'
  BY LifecycleAssumption DEF IInv, StopEnds, sessVars, callVars, replyVars,
     TypeOK, InHandler, StopInv, OutcomeInv, HolderInv, CoroHolds, CallHolds,
     ShutHolds
<1>6. OwedInv'
  BY LifecycleAssumption DEF IInv, StopEnds, sessVars, callVars, replyVars,
     TypeOK, StopInv, OutcomeInv, HolderInv, OwedInv, CoroHolds, CallHolds,
     ShutHolds
<1> QED
  BY <1>1, <1>2, <1>3, <1>4, <1>5, <1>6 DEF IInv

\* CallLooks keeps the invariant.
LEMMA CallLooksKeeps ==
  ASSUME IInv, NEW c \in Calls, CallLooks(c)
  PROVE  IInv'
<1>1. TypeOK'
  BY LifecycleAssumption DEF IInv, CallLooks, runVars, sessVars, shutVars,
     replyVars, TypeOK, InHandler
<1>2. RunningMeansHooked'
  BY LifecycleAssumption DEF IInv, CallLooks, runVars, sessVars, shutVars,
     replyVars, TypeOK, RunningMeansHooked, Running
<1>3. StopInv'
  BY LifecycleAssumption DEF IInv, CallLooks, runVars, sessVars, shutVars,
     replyVars, TypeOK, StopInv, Stopping
<1>4. OutcomeInv'
  BY LifecycleAssumption DEF IInv, CallLooks, runVars, sessVars, shutVars,
     replyVars, TypeOK, StopInv, OutcomeInv
<1>5. HolderInv'
  BY LifecycleAssumption DEF IInv, CallLooks, runVars, sessVars, shutVars,
     replyVars, TypeOK, InHandler, StopInv, OutcomeInv, HolderInv, CoroHolds,
     CallHolds, ShutHolds
<1>6. OwedInv'
  BY LifecycleAssumption DEF IInv, CallLooks, runVars, sessVars, shutVars,
     replyVars, TypeOK, StopInv, OutcomeInv, HolderInv, OwedInv, CoroHolds,
     CallHolds, ShutHolds
<1> QED
  BY <1>1, <1>2, <1>3, <1>4, <1>5, <1>6 DEF IInv

\* CallRefused keeps the invariant.
LEMMA CallRefusedKeeps ==
  ASSUME IInv, NEW c \in Calls, CallRefused(c)
  PROVE  IInv'
<1>1. TypeOK'
  BY LifecycleAssumption DEF IInv, CallRefused, runVars, sessVars, shutVars,
     replyVars, TypeOK, InHandler
<1>2. RunningMeansHooked'
  BY LifecycleAssumption DEF IInv, CallRefused, runVars, sessVars, shutVars,
     replyVars, TypeOK, RunningMeansHooked, Running
<1>3. StopInv'
  BY LifecycleAssumption DEF IInv, CallRefused, runVars, sessVars, shutVars,
     replyVars, TypeOK, StopInv, Stopping
<1>4. OutcomeInv'
  BY LifecycleAssumption DEF IInv, CallRefused, runVars, sessVars, shutVars,
     replyVars, TypeOK, StopInv, OutcomeInv
<1>5. HolderInv'
  BY LifecycleAssumption DEF IInv, CallRefused, runVars, sessVars, shutVars,
     replyVars, TypeOK, InHandler, StopInv, OutcomeInv, HolderInv, CoroHolds,
     CallHolds, ShutHolds
<1>6. OwedInv'
  BY LifecycleAssumption DEF IInv, CallRefused, runVars, sessVars, shutVars,
     replyVars, TypeOK, StopInv, OutcomeInv, HolderInv, OwedInv, CoroHolds,
     CallHolds, ShutHolds
<1> QED
  BY <1>1, <1>2, <1>3, <1>4, <1>5, <1>6 DEF IInv

\* CallAccepted keeps the invariant.
LEMMA CallAcceptedKeeps ==
  ASSUME IInv, NEW c \in Calls, CallAccepted(c)
  PROVE  IInv'
<1>1. TypeOK'
  BY LifecycleAssumption DEF IInv, CallAccepted, runVars, sessVars, shutVars,
     replyVars, Running, TypeOK, InHandler
<1>2. RunningMeansHooked'
  BY LifecycleAssumption DEF IInv, CallAccepted, runVars, sessVars, shutVars,
     replyVars, Running, TypeOK, RunningMeansHooked
<1>3. StopInv'
  BY LifecycleAssumption DEF IInv, CallAccepted, runVars, sessVars, shutVars,
     replyVars, Running, TypeOK, StopInv, Stopping
<1>4. OutcomeInv'
  BY LifecycleAssumption DEF IInv, CallAccepted, runVars, sessVars, shutVars,
     replyVars, Running, TypeOK, StopInv, OutcomeInv
<1>5. HolderInv'
  BY LifecycleAssumption DEF IInv, CallAccepted, runVars, sessVars, shutVars,
     replyVars, Running, TypeOK, InHandler, StopInv, OutcomeInv, HolderInv,
     CoroHolds, CallHolds, ShutHolds
<1>6. OwedInv'
  BY LifecycleAssumption DEF IInv, CallAccepted, runVars, sessVars, shutVars,
     replyVars, Running, TypeOK, StopInv, OutcomeInv, HolderInv, OwedInv,
     CoroHolds, CallHolds, ShutHolds
<1> QED
  BY <1>1, <1>2, <1>3, <1>4, <1>5, <1>6 DEF IInv

\* CallStartFails keeps the invariant.
LEMMA CallStartFailsKeeps ==
  ASSUME IInv, NEW c \in Calls, CallStartFails(c)
  PROVE  IInv'
<1>1. TypeOK'
  BY LifecycleAssumption DEF IInv, CallStartFails, runVars, sessVars,
     shutVars, replyVars, Running, TypeOK, InHandler
<1>2. RunningMeansHooked'
  BY LifecycleAssumption DEF IInv, CallStartFails, runVars, sessVars,
     shutVars, replyVars, Running, TypeOK, RunningMeansHooked
<1>3. StopInv'
  BY LifecycleAssumption DEF IInv, CallStartFails, runVars, sessVars,
     shutVars, replyVars, Running, TypeOK, StopInv, Stopping
<1>4. OutcomeInv'
  BY LifecycleAssumption DEF IInv, CallStartFails, runVars, sessVars,
     shutVars, replyVars, Running, TypeOK, StopInv, OutcomeInv
<1>5. HolderInv'
  BY LifecycleAssumption DEF IInv, CallStartFails, runVars, sessVars,
     shutVars, replyVars, Running, TypeOK, InHandler, StopInv, OutcomeInv,
     HolderInv, CoroHolds, CallHolds, ShutHolds
<1>6. OwedInv'
  BY LifecycleAssumption DEF IInv, CallStartFails, runVars, sessVars,
     shutVars, replyVars, Running, TypeOK, StopInv, OutcomeInv, HolderInv,
     OwedInv, CoroHolds, CallHolds, ShutHolds
<1> QED
  BY <1>1, <1>2, <1>3, <1>4, <1>5, <1>6 DEF IInv

\* CallFinishes keeps the invariant.
LEMMA CallFinishesKeeps ==
  ASSUME IInv, NEW c \in Calls, CallFinishes(c)
  PROVE  IInv'
<1>1. TypeOK'
  BY LifecycleAssumption DEF IInv, CallFinishes, runVars, sessVars, shutVars,
     replyVars, TypeOK, InHandler
<1>2. RunningMeansHooked'
  BY LifecycleAssumption DEF IInv, CallFinishes, runVars, sessVars, shutVars,
     replyVars, TypeOK, RunningMeansHooked, Running
<1>3. StopInv'
  BY LifecycleAssumption DEF IInv, CallFinishes, runVars, sessVars, shutVars,
     replyVars, TypeOK, StopInv, Stopping
<1>4. OutcomeInv'
  BY LifecycleAssumption DEF IInv, CallFinishes, runVars, sessVars, shutVars,
     replyVars, TypeOK, StopInv, OutcomeInv
<1>5. HolderInv'
  BY LifecycleAssumption DEF IInv, CallFinishes, runVars, sessVars, shutVars,
     replyVars, TypeOK, InHandler, StopInv, OutcomeInv, HolderInv, CoroHolds,
     CallHolds, ShutHolds
<1>6. OwedInv'
  BY LifecycleAssumption DEF IInv, CallFinishes, runVars, sessVars, shutVars,
     replyVars, TypeOK, StopInv, OutcomeInv, HolderInv, OwedInv, CoroHolds,
     CallHolds, ShutHolds
<1> QED
  BY <1>1, <1>2, <1>3, <1>4, <1>5, <1>6 DEF IInv

\* CallErases keeps the invariant.
LEMMA CallErasesKeeps ==
  ASSUME IInv, NEW c \in Calls, CallErases(c)
  PROVE  IInv'
<1>1. TypeOK'
  BY LifecycleAssumption DEF IInv, CallErases, runVars, sessVars, shutVars,
     replyVars, TypeOK, InHandler
<1>2. RunningMeansHooked'
  BY LifecycleAssumption DEF IInv, CallErases, runVars, sessVars, shutVars,
     replyVars, TypeOK, RunningMeansHooked, Running
<1>3. StopInv'
  BY LifecycleAssumption DEF IInv, CallErases, runVars, sessVars, shutVars,
     replyVars, TypeOK, StopInv, Stopping
<1>4. OutcomeInv'
  BY LifecycleAssumption DEF IInv, CallErases, runVars, sessVars, shutVars,
     replyVars, TypeOK, StopInv, OutcomeInv
<1>5. HolderInv'
  BY LifecycleAssumption DEF IInv, CallErases, runVars, sessVars, shutVars,
     replyVars, TypeOK, InHandler, StopInv, OutcomeInv, HolderInv, CoroHolds,
     CallHolds, ShutHolds
<1>6. OwedInv'
  BY LifecycleAssumption DEF IInv, CallErases, runVars, sessVars, shutVars,
     replyVars, TypeOK, StopInv, OutcomeInv, HolderInv, OwedInv, CoroHolds,
     CallHolds, ShutHolds
<1> QED
  BY <1>1, <1>2, <1>3, <1>4, <1>5, <1>6 DEF IInv

\* CallFires keeps the invariant.
LEMMA CallFiresKeeps ==
  ASSUME IInv, NEW c \in Calls, CallFires(c)
  PROVE  IInv'
<1>1. TypeOK'
  BY LifecycleAssumption DEF IInv, CallFires, runVars, sessVars, shutVars,
     replyVars, TypeOK, InHandler, HolderInv, CoroHolds, CallHolds, ShutHolds,
     StopInv
<1>2. RunningMeansHooked'
  BY LifecycleAssumption DEF IInv, CallFires, runVars, sessVars, shutVars,
     replyVars, TypeOK, RunningMeansHooked, Running
<1>3. StopInv'
  BY LifecycleAssumption DEF IInv, CallFires, runVars, sessVars, shutVars,
     replyVars, TypeOK, StopInv, Stopping
<1>4. OutcomeInv'
  BY LifecycleAssumption DEF IInv, CallFires, runVars, sessVars, shutVars,
     replyVars, TypeOK, StopInv, OutcomeInv
<1>5. HolderInv'
  BY LifecycleAssumption DEF IInv, CallFires, runVars, sessVars, shutVars,
     replyVars, TypeOK, InHandler, StopInv, OutcomeInv, HolderInv, CoroHolds,
     CallHolds, ShutHolds
<1>6. OwedInv'
  BY LifecycleAssumption DEF IInv, CallFires, runVars, sessVars, shutVars,
     replyVars, TypeOK, StopInv, OutcomeInv, HolderInv, OwedInv, CoroHolds,
     CallHolds, ShutHolds
<1> QED
  BY <1>1, <1>2, <1>3, <1>4, <1>5, <1>6 DEF IInv

\* CoroBegins keeps the invariant.
LEMMA CoroBeginsKeeps ==
  ASSUME IInv, NEW c \in Calls, CoroBegins(c)
  PROVE  IInv'
<1>1. TypeOK'
  BY LifecycleAssumption DEF IInv, CoroBegins, runVars, sessVars, shutVars,
     replyVars, TypeOK, InHandler
<1>2. RunningMeansHooked'
  BY LifecycleAssumption DEF IInv, CoroBegins, runVars, sessVars, shutVars,
     replyVars, TypeOK, RunningMeansHooked, Running
<1>3. StopInv'
  BY LifecycleAssumption DEF IInv, CoroBegins, runVars, sessVars, shutVars,
     replyVars, TypeOK, StopInv, Stopping
<1>4. OutcomeInv'
  BY LifecycleAssumption DEF IInv, CoroBegins, runVars, sessVars, shutVars,
     replyVars, TypeOK, StopInv, OutcomeInv
<1>5. HolderInv'
  BY LifecycleAssumption DEF IInv, CoroBegins, runVars, sessVars, shutVars,
     replyVars, TypeOK, InHandler, StopInv, OutcomeInv, HolderInv, CoroHolds,
     CallHolds, ShutHolds
<1>6. OwedInv'
  BY LifecycleAssumption DEF IInv, CoroBegins, runVars, sessVars, shutVars,
     replyVars, TypeOK, StopInv, OutcomeInv, HolderInv, OwedInv, CoroHolds,
     CallHolds, ShutHolds
<1> QED
  BY <1>1, <1>2, <1>3, <1>4, <1>5, <1>6 DEF IInv

\* CoroCalls keeps the invariant.
LEMMA CoroCallsKeeps ==
  ASSUME IInv, NEW c \in Calls, CoroCalls(c)
  PROVE  IInv'
<1>1. TypeOK'
  BY LifecycleAssumption DEF IInv, CoroCalls, runVars, sessVars, shutVars,
     replyVars, TypeOK, InHandler
<1>2. RunningMeansHooked'
  BY LifecycleAssumption DEF IInv, CoroCalls, runVars, sessVars, shutVars,
     replyVars, TypeOK, RunningMeansHooked, Running
<1>3. StopInv'
  BY LifecycleAssumption DEF IInv, CoroCalls, runVars, sessVars, shutVars,
     replyVars, TypeOK, StopInv, Stopping
<1>4. OutcomeInv'
  BY LifecycleAssumption DEF IInv, CoroCalls, runVars, sessVars, shutVars,
     replyVars, TypeOK, StopInv, OutcomeInv
<1>5. HolderInv'
  BY LifecycleAssumption DEF IInv, CoroCalls, runVars, sessVars, shutVars,
     replyVars, TypeOK, InHandler, StopInv, OutcomeInv, HolderInv, CoroHolds,
     CallHolds, ShutHolds
<1>6. OwedInv'
  BY LifecycleAssumption DEF IInv, CoroCalls, runVars, sessVars, shutVars,
     replyVars, TypeOK, StopInv, OutcomeInv, HolderInv, OwedInv, CoroHolds,
     CallHolds, ShutHolds
<1> QED
  BY <1>1, <1>2, <1>3, <1>4, <1>5, <1>6 DEF IInv

\* CoroPosts keeps the invariant.
LEMMA CoroPostsKeeps ==
  ASSUME IInv, NEW c \in Calls, CoroPosts(c)
  PROVE  IInv'
<1>1. TypeOK'
  BY LifecycleAssumption DEF IInv, CoroPosts, runVars, sessVars, shutVars,
     replyVars, Running, TypeOK, InHandler
<1>2. RunningMeansHooked'
  BY LifecycleAssumption DEF IInv, CoroPosts, runVars, sessVars, shutVars,
     replyVars, Running, TypeOK, RunningMeansHooked
<1>3. StopInv'
  BY LifecycleAssumption DEF IInv, CoroPosts, runVars, sessVars, shutVars,
     replyVars, Running, TypeOK, StopInv, Stopping
<1>4. OutcomeInv'
  BY LifecycleAssumption DEF IInv, CoroPosts, runVars, sessVars, shutVars,
     replyVars, Running, TypeOK, StopInv, OutcomeInv
<1>5. HolderInv'
  BY LifecycleAssumption DEF IInv, CoroPosts, runVars, sessVars, shutVars,
     replyVars, Running, TypeOK, InHandler, StopInv, OutcomeInv, HolderInv,
     CoroHolds, CallHolds, ShutHolds
<1>6. OwedInv'
  BY LifecycleAssumption DEF IInv, CoroPosts, runVars, sessVars, shutVars,
     replyVars, Running, TypeOK, StopInv, OutcomeInv, HolderInv, OwedInv,
     CoroHolds, CallHolds, ShutHolds
<1> QED
  BY <1>1, <1>2, <1>3, <1>4, <1>5, <1>6 DEF IInv

\* CoroResumes keeps the invariant.
LEMMA CoroResumesKeeps ==
  ASSUME IInv, NEW c \in Calls, CoroResumes(c)
  PROVE  IInv'
<1>1. TypeOK'
  BY LifecycleAssumption DEF IInv, CoroResumes, runVars, sessVars, shutVars,
     replyVars, TypeOK, InHandler
<1>2. RunningMeansHooked'
  BY LifecycleAssumption DEF IInv, CoroResumes, runVars, sessVars, shutVars,
     replyVars, TypeOK, RunningMeansHooked, Running
<1>3. StopInv'
  BY LifecycleAssumption DEF IInv, CoroResumes, runVars, sessVars, shutVars,
     replyVars, TypeOK, StopInv, Stopping
<1>4. OutcomeInv'
  BY LifecycleAssumption DEF IInv, CoroResumes, runVars, sessVars, shutVars,
     replyVars, TypeOK, StopInv, OutcomeInv
<1>5. HolderInv'
  BY LifecycleAssumption DEF IInv, CoroResumes, runVars, sessVars, shutVars,
     replyVars, TypeOK, InHandler, StopInv, OutcomeInv, HolderInv, CoroHolds,
     CallHolds, ShutHolds
<1>6. OwedInv'
  BY LifecycleAssumption DEF IInv, CoroResumes, runVars, sessVars, shutVars,
     replyVars, TypeOK, StopInv, OutcomeInv, HolderInv, OwedInv, CoroHolds,
     CallHolds, ShutHolds
<1> QED
  BY <1>1, <1>2, <1>3, <1>4, <1>5, <1>6 DEF IInv

\* CoroFinishes keeps the invariant.
LEMMA CoroFinishesKeeps ==
  ASSUME IInv, NEW c \in Calls, CoroFinishes(c)
  PROVE  IInv'
<1>1. TypeOK'
  BY LifecycleAssumption DEF IInv, CoroFinishes, runVars, sessVars, shutVars,
     replyVars, TypeOK, InHandler
<1>2. RunningMeansHooked'
  BY LifecycleAssumption DEF IInv, CoroFinishes, runVars, sessVars, shutVars,
     replyVars, TypeOK, RunningMeansHooked, Running
<1>3. StopInv'
  BY LifecycleAssumption DEF IInv, CoroFinishes, runVars, sessVars, shutVars,
     replyVars, TypeOK, StopInv, Stopping
<1>4. OutcomeInv'
  BY LifecycleAssumption DEF IInv, CoroFinishes, runVars, sessVars, shutVars,
     replyVars, TypeOK, StopInv, OutcomeInv
<1>5. HolderInv'
  BY LifecycleAssumption DEF IInv, CoroFinishes, runVars, sessVars, shutVars,
     replyVars, TypeOK, InHandler, StopInv, OutcomeInv, HolderInv, CoroHolds,
     CallHolds, ShutHolds
<1>6. OwedInv'
  BY LifecycleAssumption DEF IInv, CoroFinishes, runVars, sessVars, shutVars,
     replyVars, TypeOK, StopInv, OutcomeInv, HolderInv, OwedInv, CoroHolds,
     CallHolds, ShutHolds
<1> QED
  BY <1>1, <1>2, <1>3, <1>4, <1>5, <1>6 DEF IInv

\* CoroErases keeps the invariant.
LEMMA CoroErasesKeeps ==
  ASSUME IInv, NEW c \in Calls, CoroErases(c)
  PROVE  IInv'
<1>1. TypeOK'
  BY LifecycleAssumption DEF IInv, CoroErases, runVars, sessVars, shutVars,
     replyVars, TypeOK, InHandler
<1>2. RunningMeansHooked'
  BY LifecycleAssumption DEF IInv, CoroErases, runVars, sessVars, shutVars,
     replyVars, TypeOK, RunningMeansHooked, Running
<1>3. StopInv'
  BY LifecycleAssumption DEF IInv, CoroErases, runVars, sessVars, shutVars,
     replyVars, TypeOK, StopInv, Stopping
<1>4. OutcomeInv'
  BY LifecycleAssumption DEF IInv, CoroErases, runVars, sessVars, shutVars,
     replyVars, TypeOK, StopInv, OutcomeInv
<1>5. HolderInv'
  BY LifecycleAssumption DEF IInv, CoroErases, runVars, sessVars, shutVars,
     replyVars, TypeOK, InHandler, StopInv, OutcomeInv, HolderInv, CoroHolds,
     CallHolds, ShutHolds
<1>6. OwedInv'
  BY LifecycleAssumption DEF IInv, CoroErases, runVars, sessVars, shutVars,
     replyVars, TypeOK, StopInv, OutcomeInv, HolderInv, OwedInv, CoroHolds,
     CallHolds, ShutHolds
<1> QED
  BY <1>1, <1>2, <1>3, <1>4, <1>5, <1>6 DEF IInv

\* CoroFires keeps the invariant.
LEMMA CoroFiresKeeps ==
  ASSUME IInv, NEW c \in Calls, CoroFires(c)
  PROVE  IInv'
<1>1. TypeOK'
  BY LifecycleAssumption DEF IInv, CoroFires, runVars, sessVars, shutVars,
     replyVars, TypeOK, InHandler, HolderInv, CoroHolds, CallHolds, ShutHolds,
     StopInv
<1>2. RunningMeansHooked'
  BY LifecycleAssumption DEF IInv, CoroFires, runVars, sessVars, shutVars,
     replyVars, TypeOK, RunningMeansHooked, Running
<1>3. StopInv'
  BY LifecycleAssumption DEF IInv, CoroFires, runVars, sessVars, shutVars,
     replyVars, TypeOK, StopInv, Stopping
<1>4. OutcomeInv'
  BY LifecycleAssumption DEF IInv, CoroFires, runVars, sessVars, shutVars,
     replyVars, TypeOK, StopInv, OutcomeInv
<1>5. HolderInv'
  BY LifecycleAssumption DEF IInv, CoroFires, runVars, sessVars, shutVars,
     replyVars, TypeOK, InHandler, StopInv, OutcomeInv, HolderInv, CoroHolds,
     CallHolds, ShutHolds
<1>6. OwedInv'
  BY LifecycleAssumption DEF IInv, CoroFires, runVars, sessVars, shutVars,
     replyVars, TypeOK, StopInv, OutcomeInv, HolderInv, OwedInv, CoroHolds,
     CallHolds, ShutHolds
<1> QED
  BY <1>1, <1>2, <1>3, <1>4, <1>5, <1>6 DEF IInv

\* DartReplies keeps the invariant.
LEMMA DartRepliesKeeps ==
  ASSUME IInv, NEW c \in Calls, DartReplies(c)
  PROVE  IInv'
<1>1. TypeOK'
  BY LifecycleAssumption DEF IInv, DartReplies, runVars, sessVars, shutVars,
     callVars, TypeOK, InHandler
<1>2. RunningMeansHooked'
  BY LifecycleAssumption DEF IInv, DartReplies, runVars, sessVars, shutVars,
     callVars, TypeOK, RunningMeansHooked, Running
<1>3. StopInv'
  BY LifecycleAssumption DEF IInv, DartReplies, runVars, sessVars, shutVars,
     callVars, TypeOK, StopInv, Stopping
<1>4. OutcomeInv'
  BY LifecycleAssumption DEF IInv, DartReplies, runVars, sessVars, shutVars,
     callVars, TypeOK, StopInv, OutcomeInv
<1>5. HolderInv'
  BY LifecycleAssumption DEF IInv, DartReplies, runVars, sessVars, shutVars,
     callVars, TypeOK, InHandler, StopInv, OutcomeInv, HolderInv, CoroHolds,
     CallHolds, ShutHolds
<1>6. OwedInv'
  BY LifecycleAssumption DEF IInv, DartReplies, runVars, sessVars, shutVars,
     callVars, TypeOK, StopInv, OutcomeInv, HolderInv, OwedInv, CoroHolds,
     CallHolds, ShutHolds
<1> QED
  BY <1>1, <1>2, <1>3, <1>4, <1>5, <1>6 DEF IInv

\* Every step, stuttering included, keeps the invariant.
LEMMA StepIInv == IInv /\ [Next]_vars => IInv'
<1> SUFFICES ASSUME IInv, [Next]_vars PROVE IInv'
  OBVIOUS
<1>1. CASE \E s \in SessionIds : Start(s) \/ Close(s) \/ OpenStep(s)
  BY <1>1, StartKeeps, CloseKeeps, HookKeeps, OpenKeeps, DisposeKeeps DEF OpenStep
<1>2. CASE \E t \in Shutters : CloseAll(t) \/ ShutStep(t)
  BY <1>2, CloseAllKeeps, DisposeOneKeeps, UnhookKeeps, StopBeginsKeeps, CancelTakesKeeps,
     CancelFinishesKeeps, CancelFiresKeeps, StopIoKeeps, StopEndsKeeps DEF ShutStep
<1>3. CASE \E c \in Calls : CallLooks(c) \/ CallRefused(c) \/ CallAccepted(c) \/ CallStartFails(c)
                             \/ CallStep(c)
  BY <1>3, CallLooksKeeps, CallRefusedKeeps, CallAcceptedKeeps, CallStartFailsKeeps,
     CallFinishesKeeps, CallErasesKeeps, CallFiresKeeps DEF CallStep
<1>4. CASE \E c \in Calls : CoroStep(c) \/ DartReplies(c)
  BY <1>4, CoroBeginsKeeps, CoroCallsKeeps, CoroPostsKeeps, CoroResumesKeeps,
     CoroFinishesKeeps, CoroErasesKeeps, CoroFiresKeeps, DartRepliesKeeps DEF CoroStep
<1>5. CASE UNCHANGED vars
  BY <1>5 DEF vars, IInv, TypeOK, RunningMeansHooked, Running, StopInv, OutcomeInv, HolderInv,
     OwedInv, CoroHolds, CallHolds, ShutHolds
<1> QED
  BY <1>1, <1>2, <1>3, <1>4, <1>5 DEF Next

\* The inductive invariant of Lifecycle.
THEOREM LifecycleInvariant == Spec => []IInv
<1> QED
  BY InitIInv, StepIInv, PTL DEF Spec

-----------------------------------------------------------------------------
(* What follows from it.                                                   *)

\* Types; no callback is called twice.
THEOREM LifecycleTypes == Spec => []TypeOK
<1>1. IInv => TypeOK
  BY DEF IInv
<1> QED
  BY <1>1, LifecycleInvariant, PTL

\* While the runtime runs without a post function, a thread is about to set it
\* or to stop the runtime, for any number of opening and stopping threads.
THEOREM RunningRuntimeReachesDart == Spec => []RunningMeansHooked
<1>1. IInv => RunningMeansHooked
  BY DEF IInv
<1> QED
  BY <1>1, LifecycleInvariant, PTL

-----------------------------------------------------------------------------
(* The callbacks of dcb_invoke_dart_fn.                                    *)

Up == lifecycle # "stopped"

\* Steps that a caller of dcb_invoke_dart_fn cannot see.
LEMMA Hidden ==
  ASSUME UNCHANGED <<callPc, fires>>, Up' = Up
  PROVE  UNCHANGED Callback!specVars
BY DEF Callback!specVars, outcome, Up

\* The session side of a step: only start() is visible.
LEMMA SessionStepRefines ==
  ASSUME IInv, NEW s \in SessionIds, Start(s) \/ Close(s) \/ OpenStep(s)
  PROVE  [Callback!Next]_(Callback!specVars)
<1>1. CASE Start(s) /\ lifecycle = "stopped" /\ lifecycle' = "running"
  BY <1>1 DEF Start, callVars, outcome, Callback!Next, Callback!Start
<1>2. CASE Start(s) /\ ~(lifecycle = "stopped" /\ lifecycle' = "running")
  BY <1>2, Hidden DEF Start, callVars, Up
<1>3. CASE Close(s) \/ OpenStep(s)
  BY <1>3, Hidden DEF Close, OpenStep, Hook, Open, Dispose, runVars, callVars, Up
<1> QED
  BY <1>1, <1>2, <1>3

\* dcb_shutdown: it calls back what it takes, and leaves the runtime stopped only
\* when nothing is owed.
LEMMA ShutStepRefines ==
  ASSUME IInv, NEW t \in Shutters, CloseAll(t) \/ ShutStep(t)
  PROVE  [Callback!Next]_(Callback!specVars)
<1>1. CASE CancelFires(t)
  <2>1. PICK c \in Calls : c = shutCall[t] /\ ShutHolds(t, c)
    BY <1>1 DEF IInv, CancelFires, TypeOK, StopInv, ShutHolds
  <2>2. fires[c] = 0 /\ ~CallHolds(c) /\ callPc[c] \in {"failing", "erasing", "firing", "zero"}
    BY <2>1 DEF IInv, HolderInv, OutcomeInv
  <2>3. outcome[c] \in {"taken", "zero"} /\ outcome' = outcome
    BY <1>1, <2>2 DEF outcome, CancelFires
  <2>4. fires' = [fires EXCEPT ![c] = 1] /\ lifecycle' = lifecycle
    BY <1>1, <2>1, <2>2 DEF CancelFires, runVars, IInv, TypeOK
  <2> QED
    BY <2>2, <2>3, <2>4 DEF Callback!Next, Callback!Fire
<1>2. CASE StopEnds(t)
  <2>1. lifecycle = "stopping" /\ lifecycle' = "stopped" /\ calls = {}
    BY <1>2 DEF StopEnds, IInv, StopInv, Stopping
  <2>2. \A u \in Shutters : shutCall[u] = NoCall
    BY <1>2 DEF StopEnds, IInv, StopInv, Stopping
  <2>3. \A c \in Calls : ~CoroHolds(c)
    BY <1>2 DEF StopEnds, CoroHolds, InHandler
  <2>4. \A c \in Calls : callPc[c] = "zero" => fires[c] = 1
    BY <2>1, <2>2, <2>3, LifecycleAssumption DEF IInv, TypeOK, OwedInv
  <2>5. \A c \in Calls : outcome[c] = "zero" => callPc[c] = "zero"
    BY DEF outcome
  <2> QED
    BY <1>2, <2>1, <2>4, <2>5 DEF StopEnds, callVars, outcome, Callback!Next, Callback!Stop
<1>3. CASE CloseAll(t) \/ DisposeOne(t) \/ Unhook(t) \/ StopIo(t)
  BY <1>3, Hidden DEF CloseAll, DisposeOne, Unhook, StopIo, runVars, callVars, Up
<1>4. CASE StopBegins(t) \/ CancelTakes(t) \/ CancelFinishes(t)
  BY <1>4, Hidden DEF StopBegins, CancelTakes, CancelFinishes, Running, runVars, callVars, Up
<1> QED
  BY <1>1, <1>2, <1>3, <1>4 DEF ShutStep

\* dcb_invoke_dart_fn: refused, taken, or taken and finished by its own caller.
LEMMA CallStepRefines ==
  ASSUME IInv, NEW c \in Calls,
         \/ CallLooks(c) \/ CallRefused(c) \/ CallAccepted(c) \/ CallStartFails(c)
         \/ CallStep(c)
  PROVE  [Callback!Next]_(Callback!specVars)
<1> USE DEF IInv, TypeOK
<1>1. CASE CallLooks(c) /\ callPc'[c] = "looked"
  <2>1. outcome' = outcome
    BY <1>1 DEF CallLooks, outcome
  <2> QED
    BY <1>1, <2>1 DEF CallLooks, runVars, Callback!specVars
<1>2. CASE (CallLooks(c) /\ callPc'[c] = "refused") \/ CallRefused(c)
  <2>1. outcome[c] = "none" /\ outcome' = [outcome EXCEPT ![c] = "refused"]
    BY <1>2 DEF CallLooks, CallRefused, outcome
  <2> QED
    BY <1>2, <2>1 DEF CallLooks, CallRefused, runVars, Callback!Next, Callback!Refuse
<1>3. CASE CallAccepted(c)
  <2>1. outcome[c] = "none" /\ outcome' = [outcome EXCEPT ![c] = "zero"]
    BY <1>3 DEF CallAccepted, outcome
  <2> QED
    BY <1>3, <2>1 DEF CallAccepted, Running, runVars, Callback!Next, Callback!Take
<1>4. CASE CallStartFails(c)
  <2>1. outcome[c] = "none" /\ outcome' = [outcome EXCEPT ![c] = "taken"]
    BY <1>4 DEF CallStartFails, outcome
  <2> QED
    BY <1>4, <2>1 DEF CallStartFails, Running, runVars, Callback!Next, Callback!Take
<1>5. CASE CallFinishes(c) /\ c \in completed
  <2>1. outcome[c] = "taken" /\ outcome' = [outcome EXCEPT ![c] = "zero"]
    BY <1>5 DEF CallFinishes, outcome
  <2> QED
    BY <1>5, <2>1 DEF CallFinishes, runVars, Callback!Next, Callback!Return
<1>6. CASE (CallFinishes(c) /\ c \notin completed) \/ CallErases(c)
  <2>1. outcome' = outcome
    BY <1>6 DEF CallFinishes, CallErases, outcome
  <2> QED
    BY <1>6, <2>1 DEF CallFinishes, CallErases, runVars, Callback!specVars
<1>7. CASE CallFires(c)
  <2>1. outcome[c] = "taken" /\ outcome' = [outcome EXCEPT ![c] = "zero"]
    BY <1>7 DEF CallFires, outcome
  <2>2. fires[c] = 0
    BY <1>7 DEF CallFires, HolderInv, CallHolds
  <2>3. fires' = [fires EXCEPT ![c] = 1] /\ lifecycle' = lifecycle
    BY <1>7, <2>2 DEF CallFires, runVars
  <2> QED
    BY <2>1, <2>2, <2>3 DEF Callback!Next, Callback!FireAndReturn
<1>8. CASE CallLooks(c)
  BY <1>1, <1>2, <1>8 DEF CallLooks
<1> QED
  BY <1>2, <1>3, <1>4, <1>5, <1>6, <1>7, <1>8 DEF CallStep

\* The coroutine and Dart: only the callback itself is visible.
LEMMA CoroStepRefines ==
  ASSUME IInv, NEW c \in Calls, CoroStep(c) \/ DartReplies(c)
  PROVE  [Callback!Next]_(Callback!specVars)
<1>1. CASE CoroFires(c)
  <2>1. fires[c] = 0 /\ outcome[c] = "zero"
    BY <1>1 DEF CoroFires, IInv, TypeOK, HolderInv, OutcomeInv, CoroHolds, outcome
  <2>2. outcome' = outcome
    BY <1>1 DEF CoroFires, outcome
  <2>3. fires' = [fires EXCEPT ![c] = 1] /\ lifecycle' = lifecycle
    BY <1>1, <2>1 DEF CoroFires, runVars, IInv, TypeOK
  <2> QED
    BY <2>1, <2>2, <2>3 DEF Callback!Next, Callback!Fire
<1>2. CASE CoroBegins(c) \/ CoroCalls(c) \/ CoroPosts(c) \/ CoroResumes(c)
  BY <1>2, Hidden DEF CoroBegins, CoroCalls, CoroPosts, CoroResumes, runVars, Up
<1>3. CASE CoroFinishes(c) \/ CoroErases(c) \/ DartReplies(c)
  BY <1>3, Hidden DEF CoroFinishes, CoroErases, DartReplies, runVars, callVars, Up
<1> QED
  BY <1>1, <1>2, <1>3 DEF CoroStep

\* dcb_invoke_dart_fn keeps the promise of cbridge.h for any number of calls,
\* sessions and threads: a refused callback is never called, one that is taken
\* at most once, and none that is owed is left when the runtime is stopped.
THEOREM LifecycleKeepsCallbacks == Spec => CallbacksAreKept
<1>1. Init => Callback!Init
  <2> SUFFICES ASSUME Init PROVE Callback!Init
    OBVIOUS
  <2>1. outcome = [c \in Calls |-> "none"]
    BY DEF Init, outcome
  <2> QED
    BY <2>1 DEF Init, Callback!Init
<1>2. IInv /\ [Next]_vars => [Callback!Next]_(Callback!specVars)
  <2> SUFFICES ASSUME IInv, [Next]_vars PROVE [Callback!Next]_(Callback!specVars)
    OBVIOUS
  <2>1. CASE UNCHANGED vars
    BY <2>1, Hidden DEF vars, Up
  <2> QED
    BY <2>1, SessionStepRefines, ShutStepRefines, CallStepRefines, CoroStepRefines DEF Next
<1> QED
  BY <1>1, <1>2, LifecycleInvariant, PTL DEF Spec, CallbacksAreKept, Callback!Spec
-----------------------------------------------------------------------------
(* At rest.                                                                *)

\* What becomes of a session: it is opened once, and on its way out of the
\* registry somebody has it in hand until it is disposed.
SessionInv ==
  /\ \A s \in SessionIds :
       s \in registry \/ s \in leaving \/ s \in disposed => openPc[s] = "open"
  /\ \A t \in Shutters : \A s \in batch[t] : openPc[s] = "open"
  /\ \A s \in SessionIds : openPc[s] = "open" =>
       s \in registry \/ s \in leaving \/ s \in disposed \/ \E t \in Shutters : s \in batch[t]
  /\ \A s \in registry : s \notin leaving /\ s \notin disposed
  /\ \A t \in Shutters : \A s \in batch[t] : s \notin registry
  /\ \A t \in Shutters : shutPc[t] # "closing" => batch[t] = {}

\* What becomes of a call and of its reply, and when nothing runs it.
RestInv ==
  /\ \A c \in Calls : callPc[c] \notin {"idle", "refused"} => openPc[Target[c]] = "open"
  /\ \A c \in Calls : callPc[c] = "zero" => coro[c] # "none" \/ c \in completed
  /\ \A c \in Calls : coro[c] \in {"erasing", "firing", "done"} => c \in completed
  /\ \A c \in Calls : coro[c] \in {"posting", "awaiting"} => c \in waiting \/ c \in answered
  /\ \A c \in waiting : Target[c] \notin disposed /\ coro[c] # "none"
  /\ lifecycle = "stopping" => \E t \in Shutters : shutPc[t] \in Stopping
  /\ lifecycle = "stopped" => calls = {}
  /\ ioOn \/ lifecycle = "stopped" \/ \E t \in Shutters : shutPc[t] = "joining"

\* As long as no open has overlapped a shutdown an open session is one of a
\* running runtime whose hook is set and that nobody is shutting down; so that
\* a frame reaches Dart unless its session has left the registry.
CalmInv ==
  /\ registry # {} => hook /\ Running /\ \A t \in Shutters : shutPc[t] = "idle"
  /\ \A s \in SessionIds : openPc[s] \in {"started", "hooked"} => Running
  /\ \A s \in SessionIds : openPc[s] = "hooked" => hook
  /\ \A c \in waiting : coro[c] # "posting" /\ c \notin asked => Target[c] \notin registry

\* No thread is inside the library, the io threads have nothing they can run
\* and Dart has answered every frame it got.
AtRest ==
  /\ \A s \in SessionIds : openPc[s] \notin {"started", "hooked"}
  /\ leaving = {}
  /\ \A t \in Shutters : shutPc[t] = "idle"
  /\ \A c \in Calls : callPc[c] \notin {"failing", "erasing", "firing"}
  /\ \A c \in Calls : coro[c] \notin InHandler
  /\ \A c \in Calls : coro[c] = "queued" => ~ioOn
  /\ \A c \in Calls : coro[c] = "awaiting" /\ c \in answered => ~ioOn
  /\ asked = {}

\* Then every call that returned 0 has been called back.
NoCallbackIsOwed == AtRest => \A c \in Calls : callPc[c] = "zero" => fires[c] = 1

\* The steps that touch nothing but the program counter of a shutdown, with the
\* call it holds, are those of stop().
StopStep(t) ==
  StopBegins(t) \/ CancelTakes(t) \/ CancelFinishes(t) \/ CancelFires(t) \/ StopIo(t) \/ StopEnds(t)

CallActs(c) ==
  \/ CallLooks(c) \/ CallRefused(c) \/ CallAccepted(c) \/ CallStartFails(c)
  \/ CallStep(c) \/ CoroStep(c) \/ DartReplies(c)

\* Calls and their coroutines leave runtime, sessions and shutdowns alone.
LEMMA CallActsApart ==
  ASSUME NEW c \in Calls, CallActs(c)
  PROVE  UNCHANGED <<runVars, sessVars, shutVars>>
<1>1. CASE CallLooks(c) \/ CallRefused(c) \/ CallAccepted(c) \/ CallStartFails(c) \/ CallStep(c)
  BY <1>1 DEF CallLooks, CallRefused, CallAccepted, CallStartFails, CallStep, CallFinishes,
     CallErases, CallFires
<1>2. CASE CoroStep(c) \/ DartReplies(c)
  BY <1>2 DEF CoroStep, CoroBegins, CoroCalls, CoroPosts, CoroResumes, CoroFinishes, CoroErases,
     CoroFires, DartReplies
<1> QED
  BY <1>1, <1>2 DEF CallActs

\* What stop() does to sessions: nothing.
LEMMA StopStepApart ==
  ASSUME IInv, NEW t \in Shutters, StopStep(t)
  PROVE  /\ UNCHANGED <<hook, sessVars, batch, callPc, coro, replyVars>>
         /\ shutPc[t] \in {"unhooked"} \cup Stopping /\ shutPc'[t] \in {"idle"} \cup Stopping
         /\ \A u \in Shutters : u # t => shutPc'[u] = shutPc[u]
<1> USE DEF Stopping
<1>1. CASE StopBegins(t) \/ StopIo(t) \/ StopEnds(t)
  BY <1>1 DEF StopBegins, StopIo, StopEnds, callVars, IInv, TypeOK
<1>2. CASE CancelTakes(t)
  BY <1>2 DEF CancelTakes, runVars, IInv, TypeOK
<1>3. CASE CancelFinishes(t)
  BY <1>3 DEF CancelFinishes, runVars, IInv, TypeOK
<1>4. CASE CancelFires(t)
  BY <1>4 DEF CancelFires, runVars, IInv, TypeOK
<1> QED
  BY <1>1, <1>2, <1>3, <1>4 DEF StopStep

LEMMA SessionInvStep ==
  ASSUME IInv, SessionInv, [Next]_vars
  PROVE  SessionInv'
<1> USE DEF sessVars, shutVars
<1>1. ASSUME NEW s \in SessionIds, Start(s) PROVE SessionInv'
  <2>1. /\ openPc[s] = "idle" /\ openPc'[s] # "open"
        /\ \A r \in SessionIds : r # s => openPc'[r] = openPc[r]
        /\ UNCHANGED <<registry, leaving, disposed, shutPc, batch>>
    BY <1>1 DEF Start, IInv, TypeOK
  <2>2. registry \subseteq SessionIds /\ \A t \in Shutters : batch[t] \subseteq SessionIds
    BY DEF IInv, TypeOK
  <2> QED
    BY <2>1, <2>2 DEF SessionInv
<1>2. ASSUME NEW s \in SessionIds, Hook(s) PROVE SessionInv'
  <2>1. /\ openPc[s] = "started" /\ openPc'[s] # "open"
        /\ \A r \in SessionIds : r # s => openPc'[r] = openPc[r]
        /\ UNCHANGED <<registry, leaving, disposed, shutPc, batch>>
    BY <1>2 DEF Hook, IInv, TypeOK
  <2>2. registry \subseteq SessionIds /\ \A t \in Shutters : batch[t] \subseteq SessionIds
    BY DEF IInv, TypeOK
  <2> QED
    BY <2>1, <2>2 DEF SessionInv
<1>3. ASSUME NEW s \in SessionIds, Open(s) PROVE SessionInv'
  <2>1. /\ openPc[s] = "hooked" /\ openPc'[s] = "open" /\ registry' = registry \cup {s}
        /\ \A r \in SessionIds : r # s => openPc'[r] = openPc[r]
        /\ UNCHANGED <<leaving, disposed, shutPc, batch>>
    BY <1>3 DEF Open, IInv, TypeOK
  <2>2. registry \subseteq SessionIds /\ \A t \in Shutters : batch[t] \subseteq SessionIds
    BY DEF IInv, TypeOK
  <2>3. \A t \in Shutters : \A r \in batch'[t] : r \notin registry'
    BY <2>1, <2>2 DEF SessionInv
  <2> QED
    BY <2>1, <2>2, <2>3 DEF SessionInv
<1>4. ASSUME NEW s \in SessionIds, Close(s) PROVE SessionInv'
  BY <1>4 DEF Close, SessionInv
<1>5. ASSUME NEW s \in SessionIds, Dispose(s) PROVE SessionInv'
  BY <1>5 DEF Dispose, DisposeSession, SessionInv
<1>6. ASSUME NEW t \in Shutters, CloseAll(t) PROVE SessionInv'
  <2>1. /\ batch[t] = {} /\ shutPc'[t] = "closing" /\ batch'[t] = registry /\ registry' = {}
        /\ \A u \in Shutters : u # t => shutPc'[u] = shutPc[u] /\ batch'[u] = batch[u]
        /\ UNCHANGED <<leaving, disposed, openPc>>
    BY <1>6 DEF CloseAll, SessionInv, IInv, TypeOK
  <2>2. registry \subseteq SessionIds
    BY DEF IInv, TypeOK
  <2>3. \A s \in SessionIds : openPc[s] = "open" =>
          s \in registry' \/ s \in leaving \/ s \in disposed \/ \E u \in Shutters : s \in batch'[u]
    <3>1. SUFFICES ASSUME NEW s \in SessionIds, openPc[s] = "open", s \notin leaving,
                          s \notin disposed
                   PROVE  \E u \in Shutters : s \in batch'[u]
      OBVIOUS
    <3>2. CASE s \in registry
      BY <2>1, <3>2
    <3>3. CASE s \notin registry
      <4>1. PICK u \in Shutters : s \in batch[u]
        BY <3>1, <3>3 DEF SessionInv
      <4> QED
        BY <2>1, <4>1
    <3> QED
      BY <3>2, <3>3
  <2> QED
    BY <2>1, <2>2, <2>3 DEF SessionInv
<1>7. ASSUME NEW t \in Shutters, DisposeOne(t) PROVE SessionInv'
  <2>1. PICK s \in batch[t] : DisposeSession(s) /\ batch' = [batch EXCEPT ![t] = @ \ {s}]
    BY <1>7 DEF DisposeOne
  <2>2. /\ disposed' = disposed \cup {s} /\ batch'[t] = batch[t] \ {s}
        /\ \A u \in Shutters : u # t => batch'[u] = batch[u]
        /\ UNCHANGED <<registry, leaving, openPc, shutPc>>
    BY <1>7, <2>1 DEF DisposeOne, DisposeSession, IInv, TypeOK
  <2>3. openPc[s] = "open" /\ s \notin registry
    BY <2>1 DEF SessionInv
  <2>4. \A r \in SessionIds : openPc[r] = "open" =>
          r \in registry \/ r \in leaving \/ r \in disposed' \/ \E u \in Shutters : r \in batch'[u]
    <3>1. \A u \in Shutters : \A r \in batch[u] : r # s => r \in batch'[u]
      BY <2>2
    <3> QED
      BY <2>2, <3>1 DEF SessionInv
  <2> QED
    BY <2>2, <2>3, <2>4 DEF SessionInv
<1>8. ASSUME NEW t \in Shutters, Unhook(t) PROVE SessionInv'
  BY <1>8 DEF Unhook, SessionInv, IInv, TypeOK
<1>9. ASSUME NEW t \in Shutters, StopStep(t) PROVE SessionInv'
  <2>1. /\ UNCHANGED <<sessVars, batch>>
        /\ \A u \in Shutters : shutPc[u] = "closing" => shutPc'[u] = "closing"
    BY <1>9, StopStepApart DEF Stopping
  <2> QED
    BY <2>1 DEF SessionInv
<1>10. ASSUME NEW c \in Calls, CallActs(c) PROVE SessionInv'
  BY <1>10, CallActsApart DEF SessionInv
<1>11. CASE UNCHANGED vars
  BY <1>11 DEF vars, SessionInv
<1> QED
  BY <1>1, <1>2, <1>3, <1>4, <1>5, <1>6, <1>7, <1>8, <1>9, <1>10, <1>11
     DEF Next, OpenStep, ShutStep, StopStep, CallActs

\* Calls, coroutines and replies as opening and closing sessions leave them.
LEMMA RestInvSessions ==
  ASSUME IInv, SessionInv, RestInv,
         \/ \E s \in SessionIds : Start(s) \/ Close(s) \/ OpenStep(s)
         \/ \E t \in Shutters : CloseAll(t) \/ DisposeOne(t) \/ Unhook(t)
  PROVE  RestInv'
<1>1. UNCHANGED <<callVars, asked>>
  BY DEF Start, Close, OpenStep, Hook, Open, Dispose, CloseAll, DisposeOne, Unhook, replyVars
<1>2. \A s \in SessionIds : openPc[s] = "open" => openPc'[s] = "open"
  BY DEF Start, Close, OpenStep, Hook, Open, Dispose, CloseAll, DisposeOne, Unhook, sessVars,
     IInv, TypeOK
<1>3. \A t \in Shutters : shutPc[t] \in Stopping => shutPc'[t] = shutPc[t]
  BY DEF Start, Close, OpenStep, Hook, Open, Dispose, CloseAll, DisposeOne, Unhook, shutVars,
     Stopping, IInv, TypeOK
<1>4. \/ UNCHANGED <<disposed, waiting, answered>>
      \/ \E s : DisposeSession(s)
  BY DEF Start, Close, OpenStep, Hook, Open, Dispose, CloseAll, DisposeOne, Unhook, sessVars,
     replyVars
<1>5. \/ UNCHANGED <<lifecycle, ioOn>>
      \/ lifecycle' = "running" /\ ioOn'
  BY DEF Start, Close, OpenStep, Hook, Open, Dispose, CloseAll, DisposeOne, Unhook, runVars
<1>6. (\A c \in Calls : callPc[c] \notin {"idle", "refused"} => openPc[Target[c]] = "open")'
  BY <1>1, <1>2, LifecycleAssumption DEF RestInv, callVars
<1>7. /\ (\A c \in Calls : callPc[c] = "zero" => coro[c] # "none" \/ c \in completed)'
      /\ (\A c \in Calls : coro[c] \in {"erasing", "firing", "done"} => c \in completed)'
  BY <1>1 DEF RestInv, callVars
<1>8. /\ (\A c \in Calls : coro[c] \in {"posting", "awaiting"} => c \in waiting \/ c \in answered)'
      /\ (\A c \in waiting : Target[c] \notin disposed /\ coro[c] # "none")'
  <2>1. CASE UNCHANGED <<disposed, waiting, answered>>
    BY <1>1, <2>1 DEF RestInv, callVars
  <2>2. CASE \E s : DisposeSession(s)
    BY <1>1, <2>2 DEF RestInv, callVars, DisposeSession
  <2> QED
    BY <1>4, <2>1, <2>2
<1>9. /\ (lifecycle = "stopping" => \E t \in Shutters : shutPc[t] \in Stopping)'
      /\ (lifecycle = "stopped" => calls = {})'
  BY <1>1, <1>3, <1>5 DEF RestInv, callVars, Stopping
<1>10. (ioOn \/ lifecycle = "stopped" \/ \E t \in Shutters : shutPc[t] = "joining")'
  BY <1>3, <1>5 DEF RestInv, Stopping
<1> QED
  BY <1>6, <1>7, <1>8, <1>9, <1>10 DEF RestInv

\* The same for stop().
LEMMA RestInvStop ==
  ASSUME IInv, RestInv, NEW t \in Shutters, StopStep(t)
  PROVE  RestInv'
<1> USE DEF StopStep, StopBegins, CancelTakes, CancelFinishes, CancelFires, StopIo, StopEnds
<1>1. /\ UNCHANGED <<hook, sessVars, batch, callPc, coro, replyVars>>
      /\ \A u \in Shutters : u # t => shutPc'[u] = shutPc[u]
  BY StopStepApart
<1>2. completed \subseteq completed'
  BY DEF callVars
<1>3. /\ (\A c \in Calls : callPc[c] \notin {"idle", "refused"} => openPc[Target[c]] = "open")'
      /\ (\A c \in Calls : callPc[c] = "zero" => coro[c] # "none" \/ c \in completed)'
      /\ (\A c \in Calls : coro[c] \in {"erasing", "firing", "done"} => c \in completed)'
  BY <1>1, <1>2 DEF RestInv, sessVars
<1>4. /\ (\A c \in Calls : coro[c] \in {"posting", "awaiting"} => c \in waiting \/ c \in answered)'
      /\ (\A c \in waiting : Target[c] \notin disposed /\ coro[c] # "none")'
  BY <1>1 DEF RestInv, sessVars, replyVars
<1>5. (lifecycle = "stopping" => \E u \in Shutters : shutPc[u] \in Stopping)'
  <2>1. CASE StopEnds(t)
    BY <2>1
  <2>2. CASE StopBegins(t)
    BY <1>1, <2>2 DEF RestInv, Stopping, IInv, TypeOK
  <2>3. CASE CancelTakes(t) \/ CancelFinishes(t) \/ CancelFires(t) \/ StopIo(t)
    <3>1. shutPc'[t] \in Stopping
      BY <2>3 DEF Stopping, IInv, TypeOK
    <3> QED
      BY <3>1
  <2> QED
    BY <2>1, <2>2, <2>3
<1>6. (lifecycle = "stopped" => calls = {})'
  <2>1. CASE StopEnds(t)
    BY <2>1 DEF callVars, IInv, StopInv
  <2>2. CASE StopBegins(t) \/ StopIo(t) \/ CancelFinishes(t) \/ CancelFires(t)
    BY <2>2 DEF RestInv, callVars, runVars
  <2>3. CASE CancelTakes(t)
    BY <2>3 DEF RestInv, runVars
  <2> QED
    BY <2>1, <2>2, <2>3
<1>7. (ioOn \/ lifecycle = "stopped" \/ \E u \in Shutters : shutPc[u] = "joining")'
  <2>1. CASE StopEnds(t)
    BY <2>1
  <2>2. CASE StopIo(t)
    BY <2>2 DEF IInv, TypeOK
  <2>3. CASE StopBegins(t) \/ CancelTakes(t) \/ CancelFinishes(t) \/ CancelFires(t)
    <3>1. /\ shutPc[t] # "joining" /\ ioOn' = ioOn
          /\ lifecycle = "stopped" => lifecycle' = "stopped"
      BY <2>3 DEF Running, runVars
    <3>2. \A u \in Shutters : shutPc[u] = "joining" => shutPc'[u] = "joining"
      BY <1>1, <3>1
    <3> QED
      BY <3>1, <3>2 DEF RestInv
  <2> QED
    BY <2>1, <2>2, <2>3
<1> QED
  BY <1>3, <1>4, <1>5, <1>6, <1>7 DEF RestInv

\* The same for calls and coroutines.
LEMMA RestInvCalls ==
  ASSUME IInv, SessionInv, RestInv, NEW c \in Calls, CallActs(c)
  PROVE  RestInv'
<1>1. UNCHANGED <<lifecycle, ioOn, hook, registry, leaving, disposed, openPc, shutPc, batch, shutCall>>
  BY CallActsApart DEF runVars, sessVars, shutVars
<1>2. ASSUME CallLooks(c) \/ CallRefused(c) PROVE RestInv'
  <2>1. /\ UNCHANGED <<coro, calls, completed, waiting, asked, answered>>
        /\ \A e \in Calls : e # c => callPc'[e] = callPc[e]
        /\ callPc'[c] \in {"looked", "refused"}
        /\ callPc'[c] = "looked" => Target[c] \in registry
    BY <1>2 DEF CallLooks, CallRefused, replyVars, IInv, TypeOK
  <2>2. Target[c] \in registry => openPc[Target[c]] = "open"
    BY LifecycleAssumption DEF SessionInv
  <2> QED
    BY <1>1, <2>1, <2>2 DEF RestInv
<1>3. ASSUME CallAccepted(c) \/ CallStartFails(c) PROVE RestInv'
  <2>1. /\ UNCHANGED <<completed, waiting, asked, answered>>
        /\ \A e \in Calls : e # c => callPc'[e] = callPc[e] /\ coro'[e] = coro[e]
        /\ callPc[c] = "looked" /\ lifecycle = "running"
        /\ \/ callPc'[c] = "failing" /\ coro'[c] = coro[c]
           \/ callPc'[c] = "zero" /\ coro'[c] = "queued"
    BY <1>3 DEF CallAccepted, CallStartFails, replyVars, Running, IInv, TypeOK
  <2>2. waiting \subseteq Calls
    BY DEF IInv, TypeOK
  <2>3. /\ (\A d \in Calls : callPc[d] = "zero" => coro[d] # "none" \/ d \in completed)'
        /\ (\A d \in Calls : coro[d] \in {"erasing", "firing", "done"} => d \in completed)'
    BY <2>1 DEF RestInv
  <2>4. /\ (\A d \in Calls : coro[d] \in {"posting", "awaiting"} => d \in waiting \/ d \in answered)'
        /\ (\A d \in waiting : Target[d] \notin disposed /\ coro[d] # "none")'
    BY <1>1, <2>1, <2>2 DEF RestInv
  <2>5. (\A d \in Calls : callPc[d] \notin {"idle", "refused"} => openPc[Target[d]] = "open")'
    BY <1>1, <2>1 DEF RestInv
  <2> QED
    BY <1>1, <2>1, <2>3, <2>4, <2>5 DEF RestInv
<1>4. ASSUME CallStep(c) PROVE RestInv'
  <2>1. /\ UNCHANGED <<coro, waiting, asked, answered>> /\ completed \subseteq completed'
        /\ calls' \subseteq calls
        /\ \A e \in Calls : e # c => callPc'[e] = callPc[e]
        /\ callPc[c] \in {"failing", "erasing", "firing"}
        /\ callPc'[c] = "zero" => c \in completed'
    BY <1>4 DEF CallStep, CallFinishes, CallErases, CallFires, replyVars, IInv, TypeOK,
       HolderInv, CallHolds
  <2>2. (\A d \in Calls : callPc[d] \notin {"idle", "refused"} => openPc[Target[d]] = "open")'
    BY <1>1, <2>1 DEF RestInv
  <2>3. (\A d \in Calls : callPc[d] = "zero" => coro[d] # "none" \/ d \in completed)'
    BY <2>1 DEF RestInv
  <2>4. (\A d \in Calls : coro[d] \in {"erasing", "firing", "done"} => d \in completed)'
    BY <2>1 DEF RestInv
  <2>5. (\A d \in Calls : coro[d] \in {"posting", "awaiting"} => d \in waiting \/ d \in answered)'
    BY <2>1 DEF RestInv
  <2>6. (\A d \in waiting : Target[d] \notin disposed /\ coro[d] # "none")'
    BY <1>1, <2>1 DEF RestInv, IInv, TypeOK
  <2>7. (lifecycle = "stopped" => calls = {})'
    BY <1>1, <2>1 DEF RestInv
  <2> QED
    BY <1>1, <2>2, <2>3, <2>4, <2>5, <2>6, <2>7 DEF RestInv
<1>5. ASSUME CoroStep(c), ~CoroCalls(c) PROVE RestInv'
  <2>1. /\ UNCHANGED <<callPc, waiting, answered>> /\ completed \subseteq completed'
        /\ calls' \subseteq calls
        /\ \A e \in Calls : e # c => coro'[e] = coro[e]
        /\ coro'[c] # "none"
        /\ coro'[c] \in {"erasing", "firing", "done"} => c \in completed'
        /\ coro'[c] \in {"posting", "awaiting"} => coro[c] = "posting"
    BY <1>5 DEF CoroStep, CoroBegins, CoroPosts, CoroResumes, CoroFinishes, CoroErases,
       CoroFires, replyVars, IInv, TypeOK, HolderInv, CoroHolds
  <2>2. (\A d \in Calls : callPc[d] \notin {"idle", "refused"} => openPc[Target[d]] = "open")'
    BY <1>1, <2>1 DEF RestInv
  <2>3. (\A d \in Calls : callPc[d] = "zero" => coro[d] # "none" \/ d \in completed)'
    BY <2>1 DEF RestInv
  <2>4. (\A d \in Calls : coro[d] \in {"erasing", "firing", "done"} => d \in completed)'
    BY <2>1 DEF RestInv
  <2>5. (\A d \in Calls : coro[d] \in {"posting", "awaiting"} => d \in waiting \/ d \in answered)'
    BY <2>1 DEF RestInv
  <2>6. (\A d \in waiting : Target[d] \notin disposed /\ coro[d] # "none")'
    BY <1>1, <2>1 DEF RestInv, IInv, TypeOK
  <2>7. (lifecycle = "stopped" => calls = {})'
    BY <1>1, <2>1 DEF RestInv
  <2> QED
    BY <1>1, <2>2, <2>3, <2>4, <2>5, <2>6, <2>7 DEF RestInv
<1>6. ASSUME CoroCalls(c) PROVE RestInv'
  <2>1. /\ UNCHANGED <<callPc, calls, completed, answered>>
        /\ \A e \in Calls : e # c => coro'[e] = coro[e]
        /\ \/ coro'[c] = "finishing" /\ waiting' = waiting
           \/ coro'[c] = "posting" /\ waiting' = waiting \cup {c} /\ Target[c] \notin disposed
    BY <1>6 DEF CoroCalls, IInv, TypeOK
  <2>2. (\A d \in Calls : callPc[d] \notin {"idle", "refused"} => openPc[Target[d]] = "open")'
    BY <1>1, <2>1 DEF RestInv
  <2>3. (\A d \in Calls : callPc[d] = "zero" => coro[d] # "none" \/ d \in completed)'
    BY <2>1 DEF RestInv
  <2>4. (\A d \in Calls : coro[d] \in {"erasing", "firing", "done"} => d \in completed)'
    BY <2>1 DEF RestInv
  <2>5. (\A d \in Calls : coro[d] \in {"posting", "awaiting"} => d \in waiting \/ d \in answered)'
    BY <2>1 DEF RestInv
  <2>6. (\A d \in waiting : Target[d] \notin disposed /\ coro[d] # "none")'
    BY <1>1, <2>1 DEF RestInv, IInv, TypeOK
  <2>7. (lifecycle = "stopped" => calls = {})'
    BY <1>1, <2>1 DEF RestInv
  <2> QED
    BY <1>1, <2>2, <2>3, <2>4, <2>5, <2>6, <2>7 DEF RestInv
<1>7. ASSUME DartReplies(c) PROVE RestInv'
  BY <1>1, <1>7 DEF DartReplies, callVars, RestInv
<1> QED
  BY <1>2, <1>3, <1>4, <1>5, <1>6, <1>7 DEF CallActs

LEMMA RestInvStep ==
  ASSUME IInv, SessionInv, RestInv, [Next]_vars
  PROVE  RestInv'
<1>1. CASE UNCHANGED vars
  BY <1>1 DEF vars, RestInv
<1> QED
  BY <1>1, RestInvSessions, RestInvStop, RestInvCalls
     DEF Next, ShutStep, StopStep, CallActs

-----------------------------------------------------------------------------
(* Without an overlap.                                                     *)

\* A call that waits for its reply is one of a session that has been opened.
LEMMA WaitersAreOpen ==
  ASSUME IInv, RestInv, NEW c \in waiting
  PROVE  openPc[Target[c]] = "open"
BY DEF IInv, TypeOK, OutcomeInv, RestInv

\* Runtime, hook and frames: what a step does to CalmInv.
LEMMA CalmInvStep ==
  ASSUME IInv, SessionInv, RestInv, CalmInv, ~Overlap, ~Overlap', [Next]_vars
  PROVE  CalmInv'
<1> USE DEF runVars, sessVars, shutVars
\* A step that leaves sessions, shutdowns, runtime and replies alone.
<1>1. ASSUME UNCHANGED <<lifecycle, hook, registry, openPc, shutPc, waiting, asked, coro>>
      PROVE  CalmInv'
  BY <1>1 DEF CalmInv, Running
<1>2. ASSUME NEW s \in SessionIds, Start(s) PROVE CalmInv'
  <2>1. /\ lifecycle = "running" => lifecycle' = "running"
        /\ (openPc'[s] = "started" /\ lifecycle' = "running") \/ openPc'[s] = "failed"
        /\ \A r \in SessionIds : r # s => openPc'[r] = openPc[r]
        /\ UNCHANGED <<hook, registry, shutPc, waiting, asked, coro>>
    BY <1>2 DEF Start, Running, callVars, replyVars, IInv, TypeOK
  <2> QED
    BY <2>1 DEF CalmInv, Running
<1>3. ASSUME NEW s \in SessionIds, Hook(s) PROVE CalmInv'
  <2>1. /\ hook' /\ openPc[s] = "started" /\ openPc'[s] = "hooked"
        /\ \A r \in SessionIds : r # s => openPc'[r] = openPc[r]
        /\ UNCHANGED <<lifecycle, registry, shutPc, waiting, asked, coro>>
    BY <1>3 DEF Hook, callVars, replyVars, IInv, TypeOK
  <2> QED
    BY <2>1 DEF CalmInv, Running
<1>4. ASSUME NEW s \in SessionIds, Open(s) PROVE CalmInv'
  <2>1. /\ registry' = registry \cup {s} /\ openPc[s] = "hooked" /\ openPc'[s] = "open"
        /\ \A r \in SessionIds : r # s => openPc'[r] = openPc[r]
        /\ UNCHANGED <<lifecycle, hook, shutPc, waiting, asked, coro>>
    BY <1>4 DEF Open, callVars, replyVars, IInv, TypeOK
  <2>2. hook /\ Running /\ \A t \in Shutters : shutPc[t] = "idle"
    BY <2>1 DEF CalmInv, Overlap
  <2>3. \A c \in waiting : coro[c] # "posting" /\ c \notin asked => Target[c] # s
    <3>1. SUFFICES ASSUME NEW c \in waiting, Target[c] = s, coro[c] # "posting", c \notin asked
                   PROVE  FALSE
      OBVIOUS
    <3> QED
      BY <2>1, <3>1, WaitersAreOpen
  <2> QED
    BY <2>1, <2>2, <2>3 DEF CalmInv, Running
\* A session or a shutdown that closes, disposes, unhooks or stops.
<1>5. ASSUME /\ registry' \subseteq registry /\ waiting' \subseteq waiting
             /\ UNCHANGED <<openPc, asked, coro>>,
             registry' = {} \/ UNCHANGED <<lifecycle, hook, shutPc>>,
             UNCHANGED <<lifecycle, hook>> \/ \A s \in SessionIds : openPc[s] \notin {"started", "hooked"}
      PROVE  CalmInv'
  BY <1>5 DEF CalmInv, Running
<1>6. ASSUME NEW s \in SessionIds, Close(s) \/ Dispose(s) PROVE CalmInv'
  BY <1>5, <1>6 DEF Close, Dispose, DisposeSession, callVars, replyVars
<1>7. ASSUME NEW t \in Shutters, CloseAll(t) \/ DisposeOne(t) PROVE CalmInv'
  BY <1>5, <1>7 DEF CloseAll, DisposeOne, DisposeSession, callVars, replyVars
<1>8. ASSUME NEW t \in Shutters, Unhook(t) \/ StopStep(t) PROVE CalmInv'
  <2>1. shutPc[t] # "idle"
    BY <1>8, StopStepApart DEF Unhook, Stopping
  <2>2. registry = {} /\ \A s \in SessionIds : openPc[s] \notin {"started", "hooked"}
    BY <2>1 DEF CalmInv, Overlap
  <2>3. UNCHANGED <<registry, openPc, coro, waiting, asked>>
    BY <1>8, StopStepApart DEF Unhook, callVars, replyVars
  <2> QED
    BY <1>5, <2>2, <2>3
\* A call.
<1>9. ASSUME NEW c \in Calls, CallActs(c) PROVE CalmInv'
  <2>1. UNCHANGED <<lifecycle, hook, registry, disposed, openPc, shutPc>>
    BY <1>9, CallActsApart
  <2>2. SUFFICES (\A d \in waiting : coro[d] # "posting" /\ d \notin asked => Target[d] \notin registry)'
    BY <2>1 DEF CalmInv, Running
  <2>3. CASE \/ CallLooks(c) \/ CallRefused(c) \/ CallStartFails(c) \/ CallStep(c)
    <3>1. UNCHANGED <<coro, waiting, asked>>
      BY <2>3 DEF CallLooks, CallRefused, CallStartFails, CallStep, CallFinishes, CallErases,
         CallFires, replyVars
    <3> QED
      BY <2>1, <3>1 DEF CalmInv
  <2>4. CASE CallAccepted(c)
    <3>1. /\ callPc[c] = "looked" /\ UNCHANGED <<waiting, asked>>
          /\ \A d \in Calls : d # c => coro'[d] = coro[d]
      BY <2>4 DEF CallAccepted, replyVars, IInv, TypeOK
    <3>2. c \notin waiting
      BY <3>1 DEF IInv, OutcomeInv, RestInv
    <3>3. waiting \subseteq Calls
      BY DEF IInv, TypeOK
    <3> QED
      BY <2>1, <3>1, <3>2, <3>3 DEF CalmInv
  <2>5. CASE CoroStep(c) /\ ~CoroCalls(c) /\ ~CoroPosts(c)
    <3>1. /\ UNCHANGED <<waiting, asked>> /\ coro[c] # "posting"
          /\ \A d \in Calls : d # c => coro'[d] = coro[d]
      BY <2>5 DEF CoroStep, CoroBegins, CoroResumes, CoroFinishes, CoroErases, CoroFires,
         replyVars, IInv, TypeOK
    <3>2. waiting \subseteq Calls
      BY DEF IInv, TypeOK
    <3> QED
      BY <2>1, <3>1, <3>2 DEF CalmInv
  <2>6. CASE CoroCalls(c)
    <3>1. /\ UNCHANGED asked /\ coro[c] = "calling"
          /\ \A d \in Calls : d # c => coro'[d] = coro[d]
          /\ waiting' = waiting \/ (waiting' = waiting \cup {c} /\ coro'[c] = "posting")
      BY <2>6 DEF CoroCalls, IInv, TypeOK
    <3>2. waiting \subseteq Calls
      BY DEF IInv, TypeOK
    <3> QED
      BY <2>1, <3>1, <3>2 DEF CalmInv
  <2>7. CASE CoroPosts(c)
    <3>1. /\ UNCHANGED waiting
          /\ \A d \in Calls : d # c => coro'[d] = coro[d]
          /\ asked' = asked \cup {c} \/ (asked' = asked /\ (Target[c] \in disposed \/ ~Running \/ ~hook))
      BY <2>7 DEF CoroPosts, IInv, TypeOK
    <3>2. waiting \subseteq Calls
      BY DEF IInv, TypeOK
    <3>3. Target[c] \in registry => hook /\ Running /\ Target[c] \notin disposed
      BY DEF CalmInv, SessionInv
    <3> QED
      BY <2>1, <3>1, <3>2, <3>3 DEF CalmInv
  <2>8. CASE DartReplies(c)
    <3>1. UNCHANGED coro /\ waiting' \subseteq waiting /\ asked' = asked \ {c}
      BY <2>8 DEF DartReplies, callVars
    <3>2. c \in waiting' => Target[c] \notin registry
      BY <2>8 DEF DartReplies
    <3> QED
      BY <2>1, <3>1, <3>2 DEF CalmInv
  <2> QED
    BY <1>9, <2>3, <2>4, <2>5, <2>6, <2>7, <2>8 DEF CallActs
<1>10. CASE UNCHANGED vars
  BY <1>1, <1>10 DEF vars
<1> QED
  BY <1>2, <1>3, <1>4, <1>6, <1>7, <1>8, <1>9, <1>10
     DEF Next, OpenStep, ShutStep, StopStep, CallActs

\* At rest a call that is owed its callback would be in the map of a running
\* runtime, its coroutine would wait for a reply in a session that is still in
\* the registry, and so Dart would have its frame.
LEMMA RestMeansCalledBack ==
  ASSUME IInv, SessionInv, RestInv, CalmInv
  PROVE  NoCallbackIsOwed
<1> SUFFICES ASSUME AtRest, NEW c \in Calls, callPc[c] = "zero", fires[c] # 1
             PROVE  FALSE
  BY DEF NoCallbackIsOwed
<1>1. \A t \in Shutters : shutPc[t] = "idle" /\ shutCall[t] = NoCall
  BY DEF AtRest, IInv, StopInv, TypeOK
<1>2. ~CoroHolds(c) /\ ~CallHolds(c)
  BY DEF AtRest, CoroHolds, CallHolds, InHandler
<1>3. c \in calls
  <2>1. fires[c] = 0
    BY DEF IInv, TypeOK
  <2>2. \A t \in Shutters : shutCall[t] # c
    BY <1>1, LifecycleAssumption
  <2> QED
    BY <1>2, <2>1, <2>2 DEF IInv, OwedInv
<1>4. lifecycle = "running" /\ ioOn
  <2>1. lifecycle # "stopped" /\ lifecycle # "stopping"
    BY <1>1, <1>3 DEF RestInv, Stopping
  <2> QED
    BY <1>1, <2>1 DEF RestInv, IInv, TypeOK
<1>5. c \notin completed
  BY <1>1, <1>2 DEF IInv, HolderInv, ShutHolds
<1>6. coro[c] = "awaiting" /\ c \notin answered
  <2>1. coro[c] \in {"none", "queued", "awaiting", "done"} \cup InHandler
    BY DEF IInv, TypeOK
  <2>2. coro[c] # "none" /\ coro[c] # "done"
    BY <1>5 DEF RestInv
  <2> QED
    BY <1>4, <2>1, <2>2 DEF AtRest
<1>7. c \in waiting /\ Target[c] \notin disposed
  BY <1>6 DEF RestInv
<1>8. openPc[Target[c]] = "open" /\ Target[c] \in SessionIds
  BY <1>7, WaitersAreOpen, LifecycleAssumption
<1>9. Target[c] \in registry
  BY <1>1, <1>7, <1>8 DEF SessionInv, AtRest
<1> QED
  BY <1>6, <1>7, <1>9 DEF CalmInv, AtRest

\* When no open has overlapped a shutdown and nothing is left to do, every call
\* of dcb_invoke_dart_fn that returned 0 has been called back: its coroutine
\* has run, Dart has replied, its session has been disposed or stop() has
\* cancelled it.  No call is forgotten in the map, in the session's table or in
\* a stopped io_context.
THEOREM AcceptedCallsAreCalledBack == Spec /\ [](~Overlap) => []NoCallbackIsOwed
<1>1. Init => SessionInv /\ RestInv /\ CalmInv
  <2> SUFFICES ASSUME Init PROVE SessionInv /\ RestInv /\ CalmInv
    OBVIOUS
  <2>1. SessionInv
    BY DEF Init, SessionInv
  <2>2. RestInv
    BY DEF Init, RestInv
  <2>3. CalmInv
    BY DEF Init, CalmInv
  <2> QED
    BY <2>1, <2>2, <2>3
<1>2. IInv /\ SessionInv /\ [Next]_vars => SessionInv'
  BY SessionInvStep
<1>3. IInv /\ SessionInv /\ RestInv /\ [Next]_vars => RestInv'
  BY RestInvStep
<1>4. IInv /\ SessionInv /\ RestInv /\ CalmInv /\ ~Overlap /\ ~Overlap' /\ [Next]_vars => CalmInv'
  BY CalmInvStep
<1>5. IInv /\ SessionInv /\ RestInv /\ CalmInv => NoCallbackIsOwed
  BY RestMeansCalledBack
<1> QED
  BY <1>1, <1>2, <1>3, <1>4, <1>5, LifecycleInvariant, PTL DEF Spec
=============================================================================
