--------------------------- MODULE AsyncOpsProofs ---------------------------
(***************************************************************************)
(* Proofs about AsyncOps, for any number of operations, calls and waits.   *)
(*                                                                         *)
(* FirstCallWins and ResumedWhileWaiting are not inductive: which call     *)
(* brought a settled value and which coroutine it is going to wake has to  *)
(* be carried from Begin to Deliver, across the two mutexes.  CallInv,     *)
(* ChanInv, WaitInv and EntryInv say so, from the side of the calls, of    *)
(* the channels, of the coroutines and of the registry.                    *)
(***************************************************************************)
EXTENDS AsyncOps, TLAPS

CallInv ==
  /\ \A c \in Calls : pc[c] # "idle" => target[c] \in Ops
  /\ \A c \in Calls, o \in Ops : Wins(c, o) => completed[o] /\ brings[c] \in Kinds
  /\ \A o \in Ops : \A c, d \in Calls : Wins(c, o) /\ Wins(d, o) => c = d
  /\ \A c \in Calls : pc[c] = "begun" => status[target[c]] = None
  /\ \A c \in Calls : pc[c] \in {"idle", "begun"} => wakes[c] = None
  /\ \A c \in Calls : pc[c] = "settled" /\ wakes[c] # None =>
       /\ at[wakes[c]] = "parked"
       /\ awaits[wakes[c]] = target[c]
       /\ status[target[c]] = brings[c]

ChanInv ==
  /\ \A o \in Ops : status[o] # None =>
       \E c \in Calls : Wins(c, o) /\ brings[c] = status[o]
  /\ \A o \in Ops : waiter[o] # None =>
       at[waiter[o]] = "parked" /\ awaits[waiter[o]] = o /\ status[o] = None

WaitInv ==
  /\ \A w \in Waits : at[w] # "idle" => awaits[w] \in Ops
  /\ \A w \in Waits, o \in Ops : Owns(w, o) => taken[o]
  /\ \A o \in Ops : \A v, w \in Waits : Owns(v, o) /\ Owns(w, o) => v = w
  /\ NobodySleepsOnASettledOp
  /\ \A w \in Waits : got[w] # None =>
       \E c \in Calls : Wins(c, awaits[w]) /\ brings[c] = got[w]
  /\ ResumedWhileWaiting

\* Stronger than EntryOutlivesBothSides: the code makes no exception for a
\* cancelled operation.
ErasedLast == \A o \in created \ entry : taken[o] /\ completed[o]

EntryInv ==
  /\ ErasedLast
  /\ NothingLeaks
  /\ \A o \in Ops : taken[o] \/ completed[o] => o \in created

IInv == TypeOK /\ CallInv /\ ChanInv /\ WaitInv /\ EntryInv

-----------------------------------------------------------------------------
(* The initial state and one lemma per action. *)

\* Create keeps the invariant.
LEMMA CreatePreserves ==
  ASSUME IInv, NEW o \in Ops, Create(o)
  PROVE  IInv'
<1>1. TypeOK'
  BY AsyncAssumption DEF IInv, Create, chanVars, callVars, waitVars, TypeOK,
     CallPcs, WaitPcs, Kinds
<1>2. CallInv'
  BY AsyncAssumption DEF IInv, Create, chanVars, callVars, waitVars, TypeOK,
     CallInv, ChanInv, Wins
<1>3. ChanInv'
  BY AsyncAssumption DEF IInv, Create, chanVars, callVars, waitVars, TypeOK,
     ChanInv, CallInv, WaitInv, Wins, Owns
<1>4. WaitInv'
  BY AsyncAssumption DEF IInv, Create, chanVars, callVars, waitVars, TypeOK,
     WaitInv, ChanInv, CallInv, EntryInv, Wins, Owns,
     NobodySleepsOnASettledOp, ResumedWhileWaiting
<1>5. EntryInv'
  BY AsyncAssumption DEF IInv, Create, chanVars, callVars, waitVars, TypeOK,
     EntryInv, ErasedLast, NothingLeaks, WaitInv, CallInv, Wins
<1> QED
  BY <1>1, <1>2, <1>3, <1>4, <1>5 DEF IInv

\* Begin keeps the invariant.
LEMMA BeginPreserves ==
  ASSUME IInv, NEW c \in Calls, NEW o \in Ops, NEW r \in Kinds, Begin(c, o, r)
  PROVE  IInv'
<1>1. TypeOK'
  BY AsyncAssumption DEF IInv, Begin, chanVars, waitVars, TypeOK, CallPcs,
     WaitPcs, Kinds
<1>2. CallInv'
  BY AsyncAssumption DEF IInv, Begin, chanVars, waitVars, TypeOK, CallInv,
     ChanInv, Wins
<1>3. ChanInv'
  BY AsyncAssumption DEF IInv, Begin, chanVars, waitVars, TypeOK, ChanInv,
     CallInv, WaitInv, Wins, Owns
<1>4. WaitInv'
  BY AsyncAssumption DEF IInv, Begin, chanVars, waitVars, TypeOK, WaitInv,
     ChanInv, CallInv, EntryInv, Wins, Owns, NobodySleepsOnASettledOp,
     ResumedWhileWaiting
<1>5. EntryInv'
  BY AsyncAssumption DEF IInv, Begin, chanVars, waitVars, TypeOK, EntryInv,
     ErasedLast, NothingLeaks, WaitInv, CallInv, Wins
<1> QED
  BY <1>1, <1>2, <1>3, <1>4, <1>5 DEF IInv

\* BeginIgnored keeps the invariant.
LEMMA BeginIgnoredPreserves ==
  ASSUME IInv, NEW c \in Calls, NEW o \in Ops, BeginIgnored(c, o)
  PROVE  IInv'
<1>1. TypeOK'
  BY AsyncAssumption DEF IInv, BeginIgnored, opVars, chanVars, waitVars,
     TypeOK, CallPcs, WaitPcs, Kinds
<1>2. CallInv'
  BY AsyncAssumption DEF IInv, BeginIgnored, opVars, chanVars, waitVars,
     TypeOK, CallInv, ChanInv, Wins
<1>3. ChanInv'
  BY AsyncAssumption DEF IInv, BeginIgnored, opVars, chanVars, waitVars,
     TypeOK, ChanInv, CallInv, WaitInv, Wins, Owns
<1>4. WaitInv'
  BY AsyncAssumption DEF IInv, BeginIgnored, opVars, chanVars, waitVars,
     TypeOK, WaitInv, ChanInv, CallInv, EntryInv, Wins, Owns,
     NobodySleepsOnASettledOp, ResumedWhileWaiting
<1>5. EntryInv'
  BY AsyncAssumption DEF IInv, BeginIgnored, opVars, chanVars, waitVars,
     TypeOK, EntryInv, ErasedLast, NothingLeaks, WaitInv, CallInv, Wins
<1> QED
  BY <1>1, <1>2, <1>3, <1>4, <1>5 DEF IInv

\* Settle keeps the invariant: the waiter it takes from the channel becomes
\* the one it is going to wake.
LEMMA SettlePreserves ==
  ASSUME IInv, NEW c \in Calls, Settle(c)
  PROVE  IInv'
<1> DEFINE o == target[c]
<1>1. /\ o \in Ops /\ pc[c] = "begun" /\ wakes[c] = None
      /\ brings[c] \in Kinds
      /\ \A d \in Calls : Wins(d, o) => d = c
  BY DEF IInv, Settle, CallInv, Wins
<1>2. /\ status' = [status EXCEPT ![o] = brings[c]]
      /\ waiter' = [waiter EXCEPT ![o] = None]
      /\ pc' = [pc EXCEPT ![c] = "settled"]
      /\ wakes' = [wakes EXCEPT ![c] = waiter[o]]
      /\ UNCHANGED <<target, brings, detached, created, entry, taken, completed>>
      /\ UNCHANGED <<at, awaits, got, resumed>>
  BY DEF Settle, opVars, waitVars
<1> HIDE DEF o
<1>3. TypeOK'
  BY <1>1, <1>2 DEF IInv, TypeOK, CallPcs
<1>4. CallInv'
  <2>1. waiter[o] # None => at[waiter[o]] = "parked" /\ awaits[waiter[o]] = o
    BY <1>1 DEF IInv, ChanInv
  <2>2. \A d \in Calls, q \in Ops : Wins(d, q)' <=> Wins(d, q)
    BY <1>1, <1>2 DEF IInv, TypeOK, Wins
  <2>3. \A d \in Calls : pc'[d] = "settled" /\ wakes'[d] # None =>
          /\ at[wakes'[d]] = "parked" /\ awaits[wakes'[d]] = target[d]
          /\ status'[target[d]] = brings[d]
    <3> TAKE d \in Calls
    <3>1. CASE d = c
      BY <1>1, <1>2, <2>1, <3>1 DEF IInv, TypeOK, o
    <3>2. CASE d # c
      <4>1. pc'[d] = pc[d] /\ wakes'[d] = wakes[d]
        BY <1>2, <3>2 DEF IInv, TypeOK
      <4>2. pc[d] = "settled" => target[d] # o
        BY <1>1, <3>2 DEF Wins
      <4> QED
        BY <1>2, <4>1, <4>2 DEF IInv, TypeOK, CallInv
    <3> QED
      BY <3>1, <3>2
  <2>4. \A d \in Calls : pc'[d] = "begun" => status'[target[d]] = None
    BY <1>1, <1>2 DEF IInv, TypeOK, CallInv, Wins
  <2>5. \A d \in Calls : pc'[d] \in {"idle", "begun"} => wakes'[d] = None
    BY <1>1, <1>2 DEF IInv, TypeOK, CallInv
  <2>6. \A d \in Calls : pc'[d] # "idle" => target[d] \in Ops
    BY <1>1, <1>2 DEF IInv, TypeOK, CallInv, o
  <2> QED
    BY <1>2, <2>2, <2>3, <2>4, <2>5, <2>6 DEF IInv, CallInv
<1>5. ChanInv'
  BY <1>1, <1>2, AsyncAssumption DEF IInv, TypeOK, ChanInv, Wins, o
<1>6. WaitInv'
  BY <1>1, <1>2 DEF IInv, TypeOK, WaitInv, ChanInv, CallInv, Wins, Owns,
     NobodySleepsOnASettledOp, ResumedWhileWaiting, o
<1>7. EntryInv'
  BY <1>1, <1>2 DEF IInv, TypeOK, EntryInv, ErasedLast, NothingLeaks
<1> QED
  BY <1>3, <1>4, <1>5, <1>6, <1>7 DEF IInv

\* SettleRefused keeps the invariant.
LEMMA SettleRefusedPreserves ==
  ASSUME IInv, NEW c \in Calls, SettleRefused(c)
  PROVE  IInv'
<1>1. TypeOK'
  BY AsyncAssumption DEF IInv, SettleRefused, opVars, chanVars, waitVars,
     TypeOK, CallPcs, WaitPcs, Kinds
<1>2. CallInv'
  BY AsyncAssumption DEF IInv, SettleRefused, opVars, chanVars, waitVars,
     TypeOK, CallInv, ChanInv, Wins
<1>3. ChanInv'
  BY AsyncAssumption DEF IInv, SettleRefused, opVars, chanVars, waitVars,
     TypeOK, ChanInv, CallInv, WaitInv, Wins, Owns
<1>4. WaitInv'
  BY AsyncAssumption DEF IInv, SettleRefused, opVars, chanVars, waitVars,
     TypeOK, WaitInv, ChanInv, CallInv, EntryInv, Wins, Owns,
     NobodySleepsOnASettledOp, ResumedWhileWaiting
<1>5. EntryInv'
  BY AsyncAssumption DEF IInv, SettleRefused, opVars, chanVars, waitVars,
     TypeOK, EntryInv, ErasedLast, NothingLeaks, WaitInv, CallInv, Wins
<1> QED
  BY <1>1, <1>2, <1>3, <1>4, <1>5 DEF IInv

\* Deliver keeps the invariant: the coroutine it resumes is parked, on the
\* operation of the call, and in no other hands.
LEMMA DeliverPreserves ==
  ASSUME IInv, NEW c \in Calls, Deliver(c)
  PROVE  IInv'
<1>1. /\ pc[c] = "settled" /\ target[c] \in Ops /\ brings[c] \in Kinds
      /\ Wins(c, target[c])
  BY DEF IInv, Deliver, CallInv, Wins
<1>2. /\ pc' = [pc EXCEPT ![c] = "delivered"]
      /\ UNCHANGED <<target, brings, wakes>>
      /\ UNCHANGED <<created, entry, taken, completed, status, waiter, detached>>
  BY DEF Deliver, opVars, chanVars
<1>3. \A d \in Calls, q \in Ops : Wins(d, q)' <=> Wins(d, q)
  BY <1>1, <1>2 DEF IInv, TypeOK, Wins
<1>4. CASE wakes[c] = None
  <2>1. UNCHANGED <<at, awaits, got, resumed>>
    BY <1>4 DEF Deliver, waitVars
  <2>2. TypeOK'
    BY <1>1, <1>2, <2>1 DEF IInv, TypeOK, CallPcs
  <2>3. CallInv'
    BY <1>1, <1>2, <1>3, <2>1 DEF IInv, TypeOK, CallInv
  <2>4. ChanInv'
    BY <1>2, <1>3, <2>1 DEF IInv, ChanInv
  <2>5. WaitInv'
    BY <1>1, <1>2, <1>3, <1>4, <2>1, AsyncAssumption DEF IInv, TypeOK, WaitInv,
       CallInv, Wins, Owns, NobodySleepsOnASettledOp, ResumedWhileWaiting
  <2>6. EntryInv'
    BY <1>1, <1>2 DEF IInv, TypeOK, EntryInv, ErasedLast, NothingLeaks
  <2> QED
    BY <2>2, <2>3, <2>4, <2>5, <2>6 DEF IInv
<1>5. CASE wakes[c] # None
  <2> DEFINE w == wakes[c]
  <2>1. /\ w \in Waits /\ at[w] = "parked" /\ awaits[w] = target[c]
        /\ status[target[c]] = brings[c] /\ resumed[w] = 0
    BY <1>1, <1>5 DEF IInv, TypeOK, CallInv, WaitInv, ResumedWhileWaiting
  <2>2. /\ at' = [at EXCEPT ![w] = "done"]
        /\ got' = [got EXCEPT ![w] = brings[c]]
        /\ resumed' = [resumed EXCEPT ![w] = @ + 1]
        /\ awaits' = awaits
    BY <1>5 DEF Deliver, Resume
  <2>3. \A d \in Calls : d # c /\ pc[d] = "settled" => wakes[d] # w
    BY <1>1, <1>5, <2>1 DEF IInv, CallInv, Wins
  <2>4. \A q \in Ops : waiter[q] # w
    BY <1>1, <1>5, <2>1, AsyncAssumption DEF IInv, ChanInv
  <2>5. \A v \in Waits, q \in Ops : Owns(v, q)' <=> Owns(v, q)
    BY <2>1, <2>2 DEF IInv, TypeOK, Owns
  <2>6. brings[c] # None
    BY <1>1, AsyncAssumption
  <2> HIDE DEF w
  <2>7. TypeOK'
    BY <1>1, <1>2, <2>1, <2>2 DEF IInv, TypeOK, CallPcs, WaitPcs
  <2>8. CallInv'
    BY <1>1, <1>2, <1>3, <2>1, <2>2, <2>3 DEF IInv, TypeOK, CallInv
  <2>9. ChanInv'
    BY <1>2, <1>3, <2>1, <2>2, <2>4 DEF IInv, TypeOK, ChanInv
  <2>10. WaitInv'
    <3>1. NobodySleepsOnASettledOp'
      BY <1>1, <1>2, <2>1, <2>2, <2>3
         DEF IInv, TypeOK, WaitInv, NobodySleepsOnASettledOp, w
    <3>2. \A v \in Waits : got'[v] # None =>
            \E d \in Calls : /\ pc[d] \notin {"idle", "ignored"}
                             /\ target[d] = awaits[v] /\ brings[d] = got'[v]
      BY <1>1, <2>1, <2>2 DEF IInv, TypeOK, WaitInv, Wins
    <3>3. ResumedWhileWaiting'
      BY <2>1, <2>2, <2>6 DEF IInv, TypeOK, WaitInv, ResumedWhileWaiting
    <3>4. \A v \in Waits : at'[v] # "idle" => awaits[v] \in Ops
      BY <2>1, <2>2 DEF IInv, TypeOK, WaitInv
    <3>5. \A v \in Waits : got'[v] # None =>
            \E d \in Calls : Wins(d, awaits[v])' /\ brings[d] = got'[v]
      BY <3>2, <1>1, <1>2, <2>2 DEF Wins, IInv, TypeOK
    <3> QED
      BY <1>2, <2>2, <2>5, <3>1, <3>3, <3>4, <3>5 DEF IInv, WaitInv
  <2>11. EntryInv'
    BY <1>1, <1>2 DEF IInv, TypeOK, EntryInv, ErasedLast, NothingLeaks
  <2> QED
    BY <2>7, <2>8, <2>9, <2>10, <2>11 DEF IInv
<1> QED
  BY <1>4, <1>5

\* Finish keeps the invariant.
LEMMA FinishPreserves ==
  ASSUME IInv, NEW c \in Calls, Finish(c)
  PROVE  IInv'
<1>1. TypeOK'
  BY AsyncAssumption DEF IInv, Finish, chanVars, waitVars, TypeOK, CallPcs,
     WaitPcs, Kinds
<1>2. CallInv'
  BY AsyncAssumption DEF IInv, Finish, chanVars, waitVars, TypeOK, CallInv,
     ChanInv, Wins
<1>3. ChanInv'
  BY AsyncAssumption DEF IInv, Finish, chanVars, waitVars, TypeOK, ChanInv,
     CallInv, WaitInv, Wins, Owns
<1>4. WaitInv'
  BY AsyncAssumption DEF IInv, Finish, chanVars, waitVars, TypeOK, WaitInv,
     ChanInv, CallInv, EntryInv, Wins, Owns, NobodySleepsOnASettledOp,
     ResumedWhileWaiting
<1>5. EntryInv'
  <2>1. target[c] \in Ops /\ completed[target[c]]
    BY DEF IInv, Finish, CallInv, Wins
  <2>2. /\ entry' = IF taken[target[c]] THEN entry \ {target[c]} ELSE entry
        /\ pc' = [pc EXCEPT ![c] = "done"]
        /\ UNCHANGED <<created, taken, completed, target>>
    BY DEF Finish
  <2>3. ErasedLast'
    BY <2>1, <2>2 DEF IInv, EntryInv, ErasedLast
  <2>4. NothingLeaks'
    BY <2>1, <2>2 DEF IInv, TypeOK, EntryInv, NothingLeaks
  <2> QED
    BY <2>2, <2>3, <2>4 DEF IInv, EntryInv
<1> QED
  BY <1>1, <1>2, <1>3, <1>4, <1>5 DEF IInv

\* Take keeps the invariant.
LEMMA TakePreserves ==
  ASSUME IInv, NEW w \in Waits, NEW o \in Ops, Take(w, o)
  PROVE  IInv'
<1>1. TypeOK'
  BY AsyncAssumption DEF IInv, Take, chanVars, callVars, TypeOK, CallPcs,
     WaitPcs, Kinds
<1>2. CallInv'
  BY AsyncAssumption DEF IInv, Take, chanVars, callVars, TypeOK, CallInv,
     ChanInv, Wins
<1>3. ChanInv'
  BY AsyncAssumption DEF IInv, Take, chanVars, callVars, TypeOK, ChanInv,
     CallInv, WaitInv, Wins, Owns
<1>4. WaitInv'
  BY AsyncAssumption DEF IInv, Take, chanVars, callVars, TypeOK, WaitInv,
     ChanInv, CallInv, EntryInv, Wins, Owns, NobodySleepsOnASettledOp,
     ResumedWhileWaiting
<1>5. EntryInv'
  BY AsyncAssumption DEF IInv, Take, chanVars, callVars, TypeOK, EntryInv,
     ErasedLast, NothingLeaks, WaitInv, CallInv, Wins
<1> QED
  BY <1>1, <1>2, <1>3, <1>4, <1>5 DEF IInv

\* TakeInvalid keeps the invariant.
LEMMA TakeInvalidPreserves ==
  ASSUME IInv, NEW w \in Waits, NEW o \in Ops, TakeInvalid(w, o)
  PROVE  IInv'
<1>1. TypeOK'
  BY AsyncAssumption DEF IInv, TakeInvalid, chanVars, callVars, TypeOK,
     CallPcs, WaitPcs, Kinds
<1>2. CallInv'
  BY AsyncAssumption DEF IInv, TakeInvalid, chanVars, callVars, TypeOK,
     CallInv, ChanInv, Wins
<1>3. ChanInv'
  BY AsyncAssumption DEF IInv, TakeInvalid, chanVars, callVars, TypeOK,
     ChanInv, CallInv, WaitInv, Wins, Owns
<1>4. WaitInv'
  BY AsyncAssumption DEF IInv, TakeInvalid, chanVars, callVars, TypeOK,
     WaitInv, ChanInv, CallInv, EntryInv, Wins, Owns,
     NobodySleepsOnASettledOp, ResumedWhileWaiting
<1>5. EntryInv'
  BY AsyncAssumption DEF IInv, TakeInvalid, chanVars, callVars, TypeOK,
     EntryInv, ErasedLast, NothingLeaks, WaitInv, CallInv, Wins
<1> QED
  BY <1>1, <1>2, <1>3, <1>4, <1>5 DEF IInv

\* StartReady keeps the invariant.
LEMMA StartReadyPreserves ==
  ASSUME IInv, NEW w \in Waits, StartReady(w)
  PROVE  IInv'
<1>1. TypeOK'
  BY AsyncAssumption DEF IInv, StartReady, opVars, chanVars, callVars, Resume,
     TypeOK, CallPcs, WaitPcs, Kinds, ResumedWhileWaiting, WaitInv, CallInv
<1>2. CallInv'
  BY AsyncAssumption DEF IInv, StartReady, opVars, chanVars, callVars, Resume,
     TypeOK, CallInv, ChanInv, Wins
<1>3. ChanInv'
  BY AsyncAssumption DEF IInv, StartReady, opVars, chanVars, callVars, Resume,
     TypeOK, ChanInv, CallInv, WaitInv, Wins, Owns
<1>4. WaitInv'
  BY AsyncAssumption DEF IInv, StartReady, opVars, chanVars, callVars, Resume,
     TypeOK, WaitInv, ChanInv, CallInv, EntryInv, Wins, Owns,
     NobodySleepsOnASettledOp, ResumedWhileWaiting
<1>5. EntryInv'
  BY AsyncAssumption DEF IInv, StartReady, opVars, chanVars, callVars, Resume,
     TypeOK, EntryInv, ErasedLast, NothingLeaks, WaitInv, CallInv, Wins
<1> QED
  BY <1>1, <1>2, <1>3, <1>4, <1>5 DEF IInv

\* StartParked keeps the invariant.
LEMMA StartParkedPreserves ==
  ASSUME IInv, NEW w \in Waits, StartParked(w)
  PROVE  IInv'
<1>1. TypeOK'
  BY AsyncAssumption DEF IInv, StartParked, opVars, callVars, TypeOK, CallPcs,
     WaitPcs, Kinds
<1>2. CallInv'
  BY AsyncAssumption DEF IInv, StartParked, opVars, callVars, TypeOK, CallInv,
     ChanInv, Wins
<1>3. ChanInv'
  BY AsyncAssumption DEF IInv, StartParked, opVars, callVars, TypeOK, ChanInv,
     CallInv, WaitInv, Wins, Owns
<1>4. WaitInv'
  BY AsyncAssumption DEF IInv, StartParked, opVars, callVars, TypeOK, WaitInv,
     ChanInv, CallInv, EntryInv, Wins, Owns, NobodySleepsOnASettledOp,
     ResumedWhileWaiting
<1>5. EntryInv'
  BY AsyncAssumption DEF IInv, StartParked, opVars, callVars, TypeOK,
     EntryInv, ErasedLast, NothingLeaks, WaitInv, CallInv, Wins
<1> QED
  BY <1>1, <1>2, <1>3, <1>4, <1>5 DEF IInv

\* Abandon keeps the invariant.
LEMMA AbandonPreserves ==
  ASSUME IInv, NEW w \in Waits, Abandon(w)
  PROVE  IInv'
<1>1. TypeOK'
  BY AsyncAssumption DEF IInv, Abandon, opVars, callVars, TypeOK, CallPcs,
     WaitPcs, Kinds
<1>2. CallInv'
  BY AsyncAssumption DEF IInv, Abandon, opVars, callVars, TypeOK, CallInv,
     ChanInv, Wins
<1>3. ChanInv'
  BY AsyncAssumption DEF IInv, Abandon, opVars, callVars, TypeOK, ChanInv,
     CallInv, WaitInv, Wins, Owns
<1>4. WaitInv'
  BY AsyncAssumption DEF IInv, Abandon, opVars, callVars, TypeOK, WaitInv,
     ChanInv, CallInv, EntryInv, Wins, Owns, NobodySleepsOnASettledOp,
     ResumedWhileWaiting
<1>5. EntryInv'
  BY AsyncAssumption DEF IInv, Abandon, opVars, callVars, TypeOK, EntryInv,
     ErasedLast, NothingLeaks, WaitInv, CallInv, Wins
<1> QED
  BY <1>1, <1>2, <1>3, <1>4, <1>5 DEF IInv

-----------------------------------------------------------------------------
(* The theorems. *)

\* The initial state satisfies the invariant.
LEMMA InitIInv == Init => IInv
  BY AsyncAssumption DEF Init, IInv, TypeOK, CallPcs, WaitPcs, Kinds, CallInv,
     ChanInv, WaitInv, EntryInv, Wins, Owns, NobodySleepsOnASettledOp,
     ResumedWhileWaiting, ErasedLast, NothingLeaks

\* Every step, stuttering included, keeps the invariant: one step per action.
LEMMA StepIInv == IInv /\ [Next]_vars => IInv'
<1> SUFFICES ASSUME IInv, [Next]_vars PROVE IInv'
  OBVIOUS
<1>1. ASSUME NEW o \in Ops, Create(o) PROVE IInv'
  BY <1>1, CreatePreserves
<1>2. ASSUME NEW c \in Calls, NEW o \in Ops, NEW r \in Kinds, Begin(c, o, r) PROVE IInv'
  BY <1>2, BeginPreserves
<1>3. ASSUME NEW c \in Calls, NEW o \in Ops, BeginIgnored(c, o) PROVE IInv'
  BY <1>3, BeginIgnoredPreserves
<1>4. ASSUME NEW c \in Calls, CallStep(c) PROVE IInv'
  BY <1>4, SettlePreserves, SettleRefusedPreserves, DeliverPreserves, FinishPreserves
     DEF CallStep
<1>5. ASSUME NEW w \in Waits, NEW o \in Ops, Take(w, o) \/ TakeInvalid(w, o) PROVE IInv'
  BY <1>5, TakePreserves, TakeInvalidPreserves
<1>6. ASSUME NEW w \in Waits, WaitStep(w) \/ Abandon(w) PROVE IInv'
  BY <1>6, StartReadyPreserves, StartParkedPreserves, AbandonPreserves DEF WaitStep
<1>7. CASE UNCHANGED vars
  BY <1>7 DEF IInv, vars, TypeOK, CallInv, ChanInv, WaitInv, EntryInv, Wins,
     Owns, NobodySleepsOnASettledOp, ResumedWhileWaiting, ErasedLast, NothingLeaks
<1> QED
  BY <1>1, <1>2, <1>3, <1>4, <1>5, <1>6, <1>7 DEF Next

\* The inductive invariant holds throughout.
THEOREM AsyncInvariant == Spec => []IInv
  BY InitIInv, StepIInv, PTL DEF Spec

\* Types; in particular no coroutine is ever resumed twice.
THEOREM AsyncTypes == Spec => []TypeOK
<1>1. IInv => TypeOK
  BY DEF IInv
<1> QED
  BY <1>1, AsyncInvariant, PTL

\* Whatever number of complete, fail and cancel calls race, one of them counts
\* and a coroutine resumes with what that one brought.
THEOREM OneCompletionCounts == Spec => []FirstCallWins
<1>1. IInv => FirstCallWins
  BY DEF IInv, CallInv, WaitInv, FirstCallWins
<1> QED
  BY <1>1, AsyncInvariant, PTL

\* A coroutine is resumed while it waits, and then exactly once.
THEOREM ResumedExactlyOnce == Spec => []ResumedWhileWaiting
<1>1. IInv => ResumedWhileWaiting
  BY DEF IInv, WaitInv
<1> QED
  BY <1>1, AsyncInvariant, PTL

\* No wake-up is lost between settling and parking.
THEOREM NoLostWakeUp == Spec => []NobodySleepsOnASettledOp
<1>1. IInv => NobodySleepsOnASettledOp
  BY DEF IInv, WaitInv
<1> QED
  BY <1>1, AsyncInvariant, PTL

\* The registry keeps a completed or failed operation until a coroutine has
\* come for it: no wait that is late misses its result.
THEOREM RegistryKeepsLiveOps == Spec => []EntryOutlivesBothSides
<1>1. IInv => EntryOutlivesBothSides
  BY DEF IInv, EntryInv, ErasedLast, EntryOutlivesBothSides
<1> QED
  BY <1>1, AsyncInvariant, PTL

\* Once both sides have come and gone the registry holds nothing of them.
THEOREM RegistryForgetsFinishedOps == Spec => []NothingLeaks
<1>1. IInv => NothingLeaks
  BY DEF IInv, EntryInv
<1> QED
  BY <1>1, AsyncInvariant, PTL

-----------------------------------------------------------------------------
(* Both sides come for an operation.                                       *)

\* What each side leaves behind: a completed operation has the call that
\* counts, a taken one its owner; a call that has settled left a result or
\* found the owner gone; and a channel is detached by its owner only.
MeetingInv ==
  /\ \A o \in Ops : completed[o] => \E c \in Calls : Wins(c, o)
  /\ \A o \in Ops : taken[o] => \E w \in Waits : Owns(w, o)
  /\ \A c \in Calls : pc[c] \in {"settled", "delivered", "done"} =>
       status[target[c]] # None \/ detached[target[c]]
  /\ \A o \in Ops : detached[o] => \E w \in Waits : Owns(w, o) /\ at[w] = "gone"

\* No call is under way, and no coroutine is between taking and parking.
AtRest ==
  /\ \A c \in Calls : pc[c] \in {"idle", "ignored", "done"}
  /\ \A w \in Waits : at[w] # "took"

\* What WaitEndsAfterCompletion asks for, at rest: an operation that was both
\* completed and awaited has left the registry, and its coroutine has resumed
\* with what the call that counts brought, or was destroyed.
MeetingsEnd ==
  AtRest => \A o \in Ops : taken[o] /\ completed[o] =>
    /\ o \notin entry
    /\ \E w \in Waits :
         /\ Owns(w, o)
         /\ \/ at[w] = "gone"
            \/ at[w] = "done" /\ \E c \in Calls : Wins(c, o) /\ got[w] = brings[c]

\* A step of a call keeps MeetingInv.
LEMMA CallMeeting ==
  ASSUME IInv, MeetingInv, NEW c \in Calls, NEW o \in Ops, NEW r \in Kinds,
         Begin(c, o, r) \/ BeginIgnored(c, o) \/ CallStep(c)
  PROVE  MeetingInv'
<1>0. TypeOK /\ CallInv /\ WaitInv
  BY DEF IInv
<1>1. CASE Begin(c, o, r)
  <2>1. UNCHANGED <<taken, status, detached, at, awaits>>
    BY <1>1 DEF Begin, chanVars, waitVars
  <2>2. /\ completed' = [completed EXCEPT ![o] = TRUE] /\ pc' = [pc EXCEPT ![c] = "begun"]
        /\ target' = [target EXCEPT ![c] = o] /\ pc[c] = "idle"
    BY <1>1 DEF Begin
  <2>3. Wins(c, o)' /\ \A d \in Calls, p \in Ops : Wins(d, p) => Wins(d, p)'
    BY <1>0, <2>2 DEF TypeOK, Wins
  <2>4. \A p \in Ops : completed'[p] => \E d \in Calls : Wins(d, p)'
    BY <1>0, <2>2, <2>3 DEF TypeOK, MeetingInv
  <2>5. \A d \in Calls : pc'[d] \in {"settled", "delivered", "done"} =>
           status'[target'[d]] # None \/ detached'[target'[d]]
    BY <1>0, <2>1, <2>2 DEF TypeOK, MeetingInv
  <2> QED
    BY <2>1, <2>4, <2>5 DEF MeetingInv, Owns, Wins
<1>2. CASE BeginIgnored(c, o)
  <2>1. UNCHANGED <<taken, completed, status, detached, at, awaits>>
    BY <1>2 DEF BeginIgnored, opVars, chanVars, waitVars
  <2>2. /\ pc' = [pc EXCEPT ![c] = "ignored"] /\ target' = [target EXCEPT ![c] = o]
        /\ pc[c] = "idle"
    BY <1>2 DEF BeginIgnored
  <2>3. \A d \in Calls, p \in Ops : Wins(d, p) => Wins(d, p)'
    BY <1>0, <2>2 DEF TypeOK, Wins
  <2>5. \A d \in Calls : pc'[d] \in {"settled", "delivered", "done"} =>
           status'[target'[d]] # None \/ detached'[target'[d]]
    BY <1>0, <2>1, <2>2 DEF TypeOK, MeetingInv
  <2> QED
    BY <2>1, <2>3, <2>5 DEF MeetingInv, Owns, Wins
<1>3. CASE Settle(c) \/ SettleRefused(c)
  <2>1. UNCHANGED <<taken, completed, target, detached, at, awaits>>
    BY <1>3 DEF Settle, SettleRefused, opVars, chanVars, waitVars
  <2>2. pc' = [pc EXCEPT ![c] = "settled"] /\ pc[c] = "begun"
    BY <1>3 DEF Settle, SettleRefused
  <2>3. \A d \in Calls, p \in Ops : Wins(d, p) => Wins(d, p)'
    BY <1>0, <2>1, <2>2 DEF TypeOK, Wins
  <2>4. /\ \A p \in Ops : status[p] # None => status'[p] # None
        /\ status'[target[c]] # None \/ detached[target[c]]
    <3>1. CASE Settle(c)
      <4>1. target[c] \in Ops /\ brings[c] \in Kinds /\ status' = [status EXCEPT ![target[c]] = brings[c]]
        BY <1>0, <2>2, <3>1 DEF Settle, CallInv, Wins
      <4> QED
        BY <1>0, <4>1, AsyncAssumption DEF TypeOK
    <3>2. CASE SettleRefused(c)
      BY <3>2 DEF SettleRefused, chanVars
    <3> QED
      BY <1>3, <3>1, <3>2
  <2>5. \A d \in Calls : pc'[d] \in {"settled", "delivered", "done"} =>
           status'[target'[d]] # None \/ detached'[target'[d]]
    BY <1>0, <2>1, <2>2, <2>4 DEF TypeOK, MeetingInv, CallInv
  <2> QED
    BY <2>1, <2>3, <2>5 DEF MeetingInv, Owns, Wins
<1>4. CASE Deliver(c)
  <2>1. UNCHANGED <<taken, completed, target, detached, status, awaits>>
    BY <1>4 DEF Deliver, Resume, opVars, chanVars, waitVars
  <2>2. pc' = [pc EXCEPT ![c] = "delivered"] /\ pc[c] = "settled"
    BY <1>4 DEF Deliver
  <2>3. \A w \in Waits : at'[w] = at[w] \/ (at[w] = "parked" /\ at'[w] = "done")
    <3>1. CASE wakes[c] = None
      BY <1>4, <3>1 DEF Deliver, waitVars
    <3>2. CASE wakes[c] # None
      <4>1. at' = [at EXCEPT ![wakes[c]] = "done"] /\ at[wakes[c]] = "parked"
        BY <1>0, <1>4, <2>2, <3>2 DEF Deliver, Resume, CallInv
      <4> QED
        BY <1>0, <4>1 DEF TypeOK
    <3> QED
      BY <3>1, <3>2
  <2>4. \A d \in Calls, p \in Ops : Wins(d, p) => Wins(d, p)'
    BY <1>0, <2>1, <2>2 DEF TypeOK, Wins
  <2>5. /\ \A w \in Waits, p \in Ops : Owns(w, p) => Owns(w, p)'
        /\ \A w \in Waits : at[w] = "gone" => at'[w] = "gone"
    BY <2>1, <2>3 DEF Owns
  <2>6. \A d \in Calls : pc'[d] \in {"settled", "delivered", "done"} =>
           status'[target'[d]] # None \/ detached'[target'[d]]
    BY <1>0, <2>1, <2>2 DEF TypeOK, MeetingInv
  <2> QED
    BY <2>1, <2>4, <2>5, <2>6 DEF MeetingInv
<1>5. CASE Finish(c)
  <2>1. UNCHANGED <<taken, completed, target, detached, status, at, awaits>>
    BY <1>5 DEF Finish, chanVars, waitVars
  <2>2. pc' = [pc EXCEPT ![c] = "done"] /\ pc[c] = "delivered"
    BY <1>5 DEF Finish
  <2>3. \A d \in Calls, p \in Ops : Wins(d, p) => Wins(d, p)'
    BY <1>0, <2>1, <2>2 DEF TypeOK, Wins
  <2>4. \A d \in Calls : pc'[d] \in {"settled", "delivered", "done"} =>
           status'[target'[d]] # None \/ detached'[target'[d]]
    BY <1>0, <2>1, <2>2 DEF TypeOK, MeetingInv
  <2> QED
    BY <2>1, <2>3, <2>4 DEF MeetingInv, Owns
<1> QED
  BY <1>1, <1>2, <1>3, <1>4, <1>5 DEF CallStep

\* A step of a coroutine keeps MeetingInv.
LEMMA WaitMeeting ==
  ASSUME IInv, MeetingInv, NEW w \in Waits, NEW o \in Ops,
         Take(w, o) \/ TakeInvalid(w, o) \/ WaitStep(w) \/ Abandon(w)
  PROVE  MeetingInv'
<1>0. TypeOK /\ ChanInv /\ WaitInv
  BY DEF IInv
<1>1. UNCHANGED <<completed, pc, target, status>>
  BY DEF Take, TakeInvalid, WaitStep, StartReady, StartParked, Abandon,
     opVars, chanVars, callVars
<1>2. \A d, p : Wins(d, p)' <=> Wins(d, p)
  BY <1>1 DEF Wins
<1>3. CASE Take(w, o)
  <2>1. /\ taken' = [taken EXCEPT ![o] = TRUE] /\ at' = [at EXCEPT ![w] = "took"]
        /\ awaits' = [awaits EXCEPT ![w] = o] /\ at[w] = "idle" /\ detached' = detached
    BY <1>3 DEF Take, chanVars
  <2>2. /\ Owns(w, o)' /\ ~\E p \in Ops : Owns(w, p)
        /\ \A v \in Waits, p \in Ops : Owns(v, p) => Owns(v, p)'
        /\ \A v \in Waits : at[v] = "gone" => at'[v] = "gone"
    BY <1>0, <2>1 DEF TypeOK, Owns
  <2>3. \A p \in Ops : taken'[p] => \E v \in Waits : Owns(v, p)'
    BY <1>0, <2>1, <2>2 DEF TypeOK, MeetingInv
  <2> QED
    BY <1>1, <1>2, <2>1, <2>2, <2>3 DEF MeetingInv
<1>4. CASE TakeInvalid(w, o)
  <2>1. /\ taken' = taken /\ at' = [at EXCEPT ![w] = "invalid"]
        /\ awaits' = [awaits EXCEPT ![w] = o] /\ at[w] = "idle" /\ detached' = detached
    BY <1>4 DEF TakeInvalid, chanVars
  <2>2. /\ \A v \in Waits, p \in Ops : Owns(v, p) => Owns(v, p)'
        /\ \A v \in Waits : at[v] = "gone" => at'[v] = "gone"
    BY <1>0, <2>1 DEF TypeOK, Owns
  <2> QED
    BY <1>1, <1>2, <2>1, <2>2 DEF MeetingInv
<1>5. CASE WaitStep(w)
  <2>1. /\ taken' = taken /\ awaits' = awaits /\ detached' = detached /\ at[w] = "took"
        /\ at' = [at EXCEPT ![w] = "done"] \/ at' = [at EXCEPT ![w] = "parked"]
    BY <1>5 DEF WaitStep, StartReady, StartParked, Resume, opVars, chanVars
  <2>2. /\ \A v \in Waits, p \in Ops : Owns(v, p) => Owns(v, p)'
        /\ \A v \in Waits : at[v] = "gone" => at'[v] = "gone"
    BY <1>0, <2>1 DEF TypeOK, Owns
  <2> QED
    BY <1>1, <1>2, <2>1, <2>2 DEF MeetingInv
<1>6. CASE Abandon(w)
  <2>1. /\ taken' = taken /\ awaits' = awaits /\ at[w] = "parked"
        /\ detached' = [detached EXCEPT ![awaits[w]] = TRUE]
        /\ at' = [at EXCEPT ![w] = "gone"] /\ awaits[w] \in Ops
    BY <1>0, <1>6 DEF Abandon, opVars, WaitInv
  <2>2. /\ \A v \in Waits, p \in Ops : Owns(v, p) => Owns(v, p)'
        /\ \A v \in Waits : at[v] = "gone" => at'[v] = "gone"
        /\ Owns(w, awaits[w])' /\ at'[w] = "gone"
    BY <1>0, <2>1 DEF TypeOK, Owns
  <2>3. \A p \in Ops : detached'[p] => \E v \in Waits : Owns(v, p)' /\ at'[v] = "gone"
    <3>1. \A p \in Ops : detached'[p] => detached[p] \/ p = awaits[w]
      BY <1>0, <2>1 DEF TypeOK
    <3>2. Owns(w, awaits[w])' => \A p \in Ops : p = awaits[w] => Owns(w, p)'
      BY <2>1 DEF Owns
    <3> QED
      BY <2>2, <3>1, <3>2 DEF MeetingInv
  <2>4. /\ \A p \in Ops : detached[p] => detached'[p]
        /\ \A c \in Calls : pc[c] \in {"settled", "delivered", "done"} => target[c] \in Ops
    BY <1>0, <2>1 DEF TypeOK, IInv, CallInv
  <2> QED
    BY <1>1, <1>2, <2>1, <2>2, <2>3, <2>4 DEF MeetingInv
<1> QED
  BY <1>3, <1>4, <1>5, <1>6

\* MeetingInv holds throughout.
LEMMA MeetingInvariant == Spec => []MeetingInv
<1>1. Init => MeetingInv
  BY DEF Init, MeetingInv, Wins, Owns
<1>2. ASSUME IInv, MeetingInv, [Next]_vars PROVE MeetingInv'
  <2>1. ASSUME NEW o \in Ops, Create(o) PROVE MeetingInv'
    BY <1>2, <2>1 DEF Create, chanVars, callVars, waitVars, MeetingInv, Wins, Owns
  <2>2. ASSUME NEW c \in Calls, CallStep(c) PROVE MeetingInv'
    <3>1. target[c] \in Ops
      BY <1>2, <2>2 DEF CallStep, Settle, SettleRefused, Deliver, Finish, IInv, CallInv
    <3>2. "ok" \in Kinds
      BY DEF Kinds
    <3> QED
      BY <1>2, <2>2, <3>1, <3>2, CallMeeting
  <2>3. ASSUME NEW w \in Waits, WaitStep(w) \/ Abandon(w) PROVE MeetingInv'
    <3>1. awaits[w] \in Ops
      BY <1>2, <2>3 DEF WaitStep, StartReady, StartParked, Abandon, IInv, WaitInv
    <3> QED
      BY <1>2, <2>3, <3>1, WaitMeeting
  <2>4. ASSUME NEW c \in Calls, NEW o \in Ops, NEW r \in Kinds, Begin(c, o, r) PROVE MeetingInv'
    BY <1>2, <2>4, CallMeeting
  <2>5. ASSUME NEW c \in Calls, NEW o \in Ops, BeginIgnored(c, o) PROVE MeetingInv'
    <3>1. "ok" \in Kinds
      BY DEF Kinds
    <3> QED
      BY <1>2, <2>5, <3>1, CallMeeting
  <2>6. ASSUME NEW w \in Waits, NEW o \in Ops, Take(w, o) \/ TakeInvalid(w, o) PROVE MeetingInv'
    BY <1>2, <2>6, WaitMeeting
  <2>7. CASE UNCHANGED vars
    BY <1>2, <2>7 DEF vars, MeetingInv, Wins, Owns
  <2> QED
    BY <1>2, <2>1, <2>2, <2>3, <2>4, <2>5, <2>6, <2>7 DEF Next
<1>3. IInv /\ MeetingInv /\ [Next]_vars => MeetingInv'
  BY <1>2
<1> QED
  BY <1>1, <1>3, AsyncInvariant, PTL DEF Spec

\* Wherever the completing thread and the coroutine met, once both have run on
\* neither waits for the other, and the registry has forgotten the operation.
THEOREM BothSidesMeet == Spec => []MeetingsEnd
<1>1. ASSUME IInv, MeetingInv PROVE MeetingsEnd
  <2> SUFFICES ASSUME AtRest, NEW o \in Ops, taken[o], completed[o]
               PROVE  /\ o \notin entry
                      /\ \E w \in Waits :
                           /\ Owns(w, o)
                           /\ \/ at[w] = "gone"
                              \/ at[w] = "done" /\ \E c \in Calls : Wins(c, o) /\ got[w] = brings[c]
    BY DEF MeetingsEnd
  <2>1. PICK c \in Calls : Wins(c, o)
    BY <1>1 DEF MeetingInv
  <2>2. PICK w \in Waits : Owns(w, o)
    BY <1>1 DEF MeetingInv
  <2>3. pc[c] = "done" /\ target[c] = o
    BY <2>1 DEF AtRest, Wins
  <2>4. o \notin entry
    BY <1>1, <2>3 DEF IInv, EntryInv, NothingLeaks
  <2>5. awaits[w] = o /\ at[w] \in {"parked", "done", "gone"}
    BY <2>2 DEF Owns, AtRest
  <2>6. CASE at[w] = "parked"
    <3>1. status[o] = None
      BY <1>1, <2>5, <2>6 DEF IInv, WaitInv, NobodySleepsOnASettledOp, AtRest
    <3>2. detached[o]
      BY <1>1, <2>3, <3>1 DEF MeetingInv
    <3>3. PICK v \in Waits : Owns(v, o) /\ at[v] = "gone"
      BY <1>1, <3>2 DEF MeetingInv
    <3> QED
      BY <2>4, <3>3
  <2>7. CASE at[w] = "done"
    <3>1. got[w] # None
      BY <1>1, <2>7 DEF IInv, WaitInv, ResumedWhileWaiting
    <3>2. \E d \in Calls : Wins(d, o) /\ brings[d] = got[w]
      BY <1>1, <2>5, <3>1 DEF IInv, WaitInv
    <3> QED
      BY <2>2, <2>4, <2>7, <3>2
  <2> QED
    BY <2>2, <2>4, <2>5, <2>6, <2>7
<1> QED
  BY <1>1, AsyncInvariant, MeetingInvariant, PTL

-----------------------------------------------------------------------------
(* The refinement. *)

\* The owner of an operation is the one wait that owns it.
LEMMA OwnerIsOwner ==
  ASSUME IInv, NEW o \in Ops
  PROVE  /\ \A w \in Waits : Owns(w, o) <=> Owner(o) = w
         /\ Owner(o) = None <=> \A w \in Waits : ~Owns(w, o)
<1>1. \A v, w \in Waits : Owns(v, o) /\ Owns(w, o) => v = w
  BY DEF IInv, WaitInv
<1>2. CASE \E w \in Waits : Owns(w, o)
  <2>1. Owner(o) \in Waits /\ Owns(Owner(o), o)
    BY <1>2 DEF Owner
  <2> QED
    BY <1>1, <2>1, AsyncAssumption
<1>3. CASE \A w \in Waits : ~Owns(w, o)
  BY <1>3, AsyncAssumption DEF Owner
<1> QED
  BY <1>2, <1>3

\* An action that leaves the ownership of o alone leaves its owner alone.
LEMMA OwnerUnchanged ==
  ASSUME NEW o \in Ops, \A w \in Waits : Owns(w, o)' <=> Owns(w, o)
  PROVE  Owner(o)' = Owner(o)
  BY DEF Owner

\* Nothing is settled at the start, in the cells as in AsyncOps.
LEMMA InitRefines == Init => Cell!Init
<1> SUFFICES ASSUME Init PROVE Cell!Init
  OBVIOUS
<1>1. \A o \in Ops : Owner(o) = None
  BY DEF Init, Owner, Owns
<1> QED
  BY <1>1 DEF Init, Cell!Init

\* Every step of the implementation writes a cell, claims one, reads one or
\* leaves all cells alone.
LEMMA StepRefines == IInv /\ IInv' /\ [Next]_vars => [Cell!Next]_(Cell!vars)
<1> SUFFICES ASSUME IInv, IInv', [Next]_vars PROVE Cell!Next \/ UNCHANGED Cell!vars
  OBVIOUS
<1>1. ASSUME UNCHANGED <<at, awaits>>
      PROVE  \A o \in Ops : Owner(o)' = Owner(o)
  BY <1>1, OwnerUnchanged DEF Owns
<1>2. ASSUME UNCHANGED <<status, got>>,
             \A w \in Waits, o \in Ops : Owns(w, o)' <=> Owns(w, o)
      PROVE  UNCHANGED Cell!vars
  <2>1. \A o \in Ops : Owner(o)' = Owner(o)
    BY <1>2, OwnerUnchanged
  <2> QED
    BY <1>2, <2>1 DEF Cell!vars
<1>3. ASSUME UNCHANGED <<at, awaits, status, got>>
      PROVE  UNCHANGED Cell!vars
  BY <1>2, <1>3 DEF Owns
<1>4. ASSUME NEW c \in Calls, Settle(c) PROVE Cell!Next
  <2>1. target[c] \in Ops /\ brings[c] \in Kinds /\ status[target[c]] = None
    BY <1>4 DEF IInv, CallInv, Settle, Wins
  <2>2. Cell!Write(target[c], brings[c])
    BY <1>1, <1>4, <2>1 DEF Cell!Write, Settle, waitVars
  <2> QED
    BY <2>1, <2>2 DEF Cell!Next
<1>5. ASSUME NEW w \in Waits, NEW o \in Ops, Owns(w, o), at' = [at EXCEPT ![w] = "done"],
             UNCHANGED <<awaits, status>>, got' = [got EXCEPT ![w] = status[o]],
             status[o] # None, got[w] = None
      PROVE  Cell!Next
  <2>1. \A v \in Waits, q \in Ops : Owns(v, q)' <=> Owns(v, q)
    BY <1>5 DEF IInv, TypeOK, Owns
  <2>2. \A q \in Ops : Owner(q)' = Owner(q)
    BY <2>1, OwnerUnchanged
  <2>3. Owner(o) = w
    BY <1>5, OwnerIsOwner
  <2>4. Cell!Read(w, o)
    BY <1>5, <2>2, <2>3 DEF Cell!Read
  <2> QED
    BY <2>4 DEF Cell!Next
<1>6. ASSUME NEW c \in Calls, Deliver(c) PROVE Cell!Next \/ UNCHANGED Cell!vars
  <2>1. CASE wakes[c] = None
    BY <1>3, <1>6, <2>1 DEF Deliver, waitVars, chanVars
  <2>2. CASE wakes[c] # None
    <3> DEFINE w == wakes[c]
               o == target[c]
    <3>1. w \in Waits /\ o \in Ops /\ Owns(w, o) /\ status[o] = brings[c]
      BY <1>6, <2>2 DEF IInv, TypeOK, CallInv, Deliver, Owns
    <3>2. status[o] # None
      <4>1. Wins(c, o)
        BY <1>6 DEF Deliver, Wins
      <4> QED
        BY <3>1, <4>1, AsyncAssumption DEF IInv, CallInv
    <3>3. got[w] = None
      BY <1>6, <2>2 DEF IInv, TypeOK, CallInv, WaitInv, Deliver, ResumedWhileWaiting
    <3>4. /\ at' = [at EXCEPT ![w] = "done"] /\ got' = [got EXCEPT ![w] = status[o]]
          /\ UNCHANGED <<awaits, status>>
      BY <1>6, <2>2, <3>1 DEF Deliver, Resume, chanVars
    <3> QED
      BY <1>5, <3>1, <3>2, <3>3, <3>4
  <2> QED
    BY <2>1, <2>2
<1>7. ASSUME NEW w \in Waits, StartReady(w) PROVE Cell!Next
  <2>1. awaits[w] \in Ops /\ Owns(w, awaits[w])
    BY <1>7 DEF IInv, WaitInv, StartReady, Owns
  <2>2. status[awaits[w]] # None /\ got[w] = None
    BY <1>7 DEF IInv, WaitInv, StartReady, ResumedWhileWaiting
  <2>3. /\ at' = [at EXCEPT ![w] = "done"] /\ got' = [got EXCEPT ![w] = status[awaits[w]]]
        /\ UNCHANGED <<awaits, status>>
    BY <1>7 DEF StartReady, Resume, chanVars
  <2> QED
    BY <1>5, <2>1, <2>2, <2>3
<1>8. ASSUME NEW w \in Waits, NEW o \in Ops, Take(w, o) PROVE Cell!Next
  <2>1. /\ at[w] = "idle" /\ ~taken[o] /\ UNCHANGED <<status, got>>
        /\ at' = [at EXCEPT ![w] = "took"] /\ awaits' = [awaits EXCEPT ![w] = o]
    BY <1>8 DEF Take, chanVars
  <2>2. \A v \in Waits : ~Owns(v, o)
    BY <2>1 DEF IInv, WaitInv
  <2>3. Owner(o) = None /\ \A q \in Ops : Owner(q) # w
    BY <2>1, <2>2, OwnerIsOwner DEF Owns
  <2>4. Owns(w, o)' /\ \A v \in Waits, q \in Ops : q # o => (Owns(v, q)' <=> Owns(v, q))
    BY <2>1 DEF IInv, TypeOK, Owns
  <2>5. \A q \in Ops : q # o => Owner(q)' = Owner(q)
    BY <2>4, OwnerUnchanged
  <2>6. Owner(o)' = w
    <3>1. \A v \in Waits : Owns(v, o)' => v = w
      BY <2>4 DEF IInv, WaitInv
    <3> QED
      BY <2>4, <3>1 DEF Owner
  <2>7. Cell!Claim(w, o)
    BY <2>1, <2>3, <2>5, <2>6 DEF Cell!Claim
  <2> QED
    BY <2>7 DEF Cell!Next
<1>9. ASSUME NEW w \in Waits, NEW o \in Ops, TakeInvalid(w, o) PROVE UNCHANGED Cell!vars
  BY <1>2, <1>9 DEF TakeInvalid, chanVars, IInv, TypeOK, Owns
<1>10. ASSUME NEW w \in Waits, StartParked(w) \/ Abandon(w) PROVE UNCHANGED Cell!vars
  BY <1>2, <1>10 DEF StartParked, Abandon, IInv, TypeOK, Owns
<1>11. CASE \E o \in Ops : Create(o)
  BY <1>3, <1>11 DEF Create, chanVars, waitVars
<1>12. CASE \E c \in Calls, o \in Ops : (\E r \in Kinds : Begin(c, o, r)) \/ BeginIgnored(c, o)
  BY <1>3, <1>12 DEF Begin, BeginIgnored, chanVars, waitVars
<1>13. CASE \E c \in Calls : SettleRefused(c) \/ Finish(c)
  BY <1>3, <1>13 DEF SettleRefused, Finish, chanVars, waitVars
<1>14. CASE UNCHANGED vars
  BY <1>3, <1>14 DEF vars
<1> QED
  BY <1>4, <1>6, <1>7, <1>8, <1>9, <1>10, <1>11, <1>12, <1>13, <1>14
     DEF Next, CallStep, WaitStep

\* The registry and the channel together implement a write-once cell per
\* operation: this is what async_wait relies on.
THEOREM AsyncOpsImplementOnceCell == Spec => IsOnceCell
<1>1. Init => Cell!Init
  BY InitRefines
<1>2. IInv /\ IInv' /\ [Next]_vars => [Cell!Next]_(Cell!vars)
  BY StepRefines
<1> QED
  BY <1>1, <1>2, AsyncInvariant, PTL DEF Spec, IsOnceCell, Cell!Spec
=============================================================================
