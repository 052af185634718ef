------------------------------ MODULE AsyncOps ------------------------------
(***************************************************************************)
(* The asynchronous operations of the C bridge (dcb_async_* and            *)
(* dcb::async_wait, dart/native/src/cbridge.cpp and cbridge_wait.hpp) on   *)
(* top of the oneshot channel (co::oneshot in channel.hpp).                *)
(*                                                                         *)
(* Any thread may complete, fail or cancel an operation, several may race, *)
(* and a coroutine may take the receiving side before, between or after    *)
(* their steps.  Two mutexes are involved, PendingOps::mu and the State::mu*)
(* of the operation's channel; they are never held together, so every      *)
(* critical section is one step and everything may happen between two of   *)
(* them.  The waiter is resumed with neither mutex held.                   *)
(***************************************************************************)
EXTENDS Naturals, FiniteSets

CONSTANTS
  Ops,    \* operation ids; next_id never repeats one
  Calls,  \* calls of dcb_async_complete / _fail / _cancel
  Waits,  \* coroutines in async_wait
  None

Kinds == {"ok", "fail", "cancelled"}

ASSUME AsyncAssumption == None \notin Ops \cup Waits \cup Kinds

VARIABLES
  created,    \* ids handed out by dcb_async_create
  entry,      \* the keys of PendingOps::ops
  taken,      \* PendingOp::receiver_taken
  completed,  \* PendingOp::completed
  status,     \* State::status and payload: None or what was settled
  waiter,     \* State::waiter: the parked wait, or None
  detached,   \* State::detached
  pc,         \* where every call is
  target,     \* the operation of every call, None before it begins
  brings,     \* the result it brings
  wakes,      \* the waiter it has taken from the channel, to be resumed
  at,         \* where every wait is
  awaits,     \* the operation of every wait, None before it begins
  got,        \* what every wait resumed with, or None
  resumed     \* how often every wait was resumed

opVars == <<created, entry, taken, completed>>
chanVars == <<status, waiter, detached>>
callVars == <<pc, target, brings, wakes>>
waitVars == <<at, awaits, got, resumed>>
vars == <<created, entry, taken, completed, status, waiter, detached,
          pc, target, brings, wakes, at, awaits, got, resumed>>

Init ==
  /\ created = {}
  /\ entry = {}
  /\ taken = [o \in Ops |-> FALSE]
  /\ completed = [o \in Ops |-> FALSE]
  /\ status = [o \in Ops |-> None]
  /\ waiter = [o \in Ops |-> None]
  /\ detached = [o \in Ops |-> FALSE]
  /\ pc = [c \in Calls |-> "idle"]
  /\ target = [c \in Calls |-> None]
  /\ brings = [c \in Calls |-> None]
  /\ wakes = [c \in Calls |-> None]
  /\ at = [w \in Waits |-> "idle"]
  /\ awaits = [w \in Waits |-> None]
  /\ got = [w \in Waits |-> None]
  /\ resumed = [w \in Waits |-> 0]

\* dcb_async_create.
Create(o) ==
  /\ o \notin created
  /\ created' = created \cup {o}
  /\ entry' = entry \cup {o}
  /\ UNCHANGED <<taken, completed, chanVars, callVars, waitVars>>

-----------------------------------------------------------------------------
(* Completing.  All three entry points run begin_async_completion, settle  *)
(* the channel through a Sender, deliver, and finish_async_completion.     *)

\* A dcb_async_complete that cannot copy its data brings "fail".
Begin(c, o, r) ==
  /\ pc[c] = "idle"
  /\ o \in entry /\ ~completed[o]
  /\ completed' = [completed EXCEPT ![o] = TRUE]
  /\ pc' = [pc EXCEPT ![c] = "begun"]
  /\ target' = [target EXCEPT ![c] = o]
  /\ brings' = [brings EXCEPT ![c] = r]
  /\ UNCHANGED <<wakes, created, entry, taken, chanVars, waitVars>>

\* An unknown id, or one that another call has completed: a no-op.
BeginIgnored(c, o) ==
  /\ pc[c] = "idle"
  /\ o \notin entry \/ completed[o]
  /\ pc' = [pc EXCEPT ![c] = "ignored"]
  /\ target' = [target EXCEPT ![c] = o]
  /\ UNCHANGED <<brings, wakes, opVars, chanVars, waitVars>>

\* Mutation of Settle: the payload is published but a parked waiter is kept.
SettleKeepsWaiter(c) ==
  LET o == target[c] IN
  /\ pc[c] = "begun"
  /\ status[o] = None /\ ~detached[o]
  /\ status' = [status EXCEPT ![o] = brings[c]]
  /\ pc' = [pc EXCEPT ![c] = "settled"]
  /\ UNCHANGED <<target, brings, wakes, opVars, waiter, detached, waitVars>>

\* Sender::settle: payload, status and the waiter in one critical section.
Settle(c) ==
  LET o == target[c] IN
  /\ pc[c] = "begun"
  /\ status[o] = None /\ ~detached[o]
  /\ status' = [status EXCEPT ![o] = brings[c]]
  /\ waiter' = [waiter EXCEPT ![o] = None]
  /\ pc' = [pc EXCEPT ![c] = "settled"]
  /\ wakes' = [wakes EXCEPT ![c] = waiter[o]]
  /\ UNCHANGED <<target, brings, opVars, detached, waitVars>>

\* The receiving side is gone (or the channel settled): nothing is written.
SettleRefused(c) ==
  LET o == target[c] IN
  /\ pc[c] = "begun"
  /\ status[o] # None \/ detached[o]
  /\ pc' = [pc EXCEPT ![c] = "settled"]
  /\ UNCHANGED <<target, brings, wakes, opVars, chanVars, waitVars>>

Resume(w, r) ==
  /\ at' = [at EXCEPT ![w] = "done"]
  /\ got' = [got EXCEPT ![w] = r]
  /\ resumed' = [resumed EXCEPT ![w] = @ + 1]
  /\ UNCHANGED awaits

\* deliver(waiter, ...) with no mutex held.
Deliver(c) ==
  /\ pc[c] = "settled"
  /\ IF wakes[c] = None THEN UNCHANGED waitVars
     ELSE Resume(wakes[c], brings[c])
  /\ pc' = [pc EXCEPT ![c] = "delivered"]
  /\ UNCHANGED <<target, brings, wakes, opVars, chanVars>>

\* Mutation of Finish: the entry goes whether or not anyone has taken it.
FinishErases(c) ==
  /\ pc[c] = "delivered"
  /\ entry' = entry \ {target[c]}
  /\ pc' = [pc EXCEPT ![c] = "done"]
  /\ UNCHANGED <<target, brings, wakes, created, taken, completed, chanVars, waitVars>>

Finish(c) ==
  LET o == target[c] IN
  /\ pc[c] = "delivered"
  /\ entry' = IF taken[o] THEN entry \ {o} ELSE entry
  /\ pc' = [pc EXCEPT ![c] = "done"]
  /\ UNCHANGED <<target, brings, wakes, created, taken, completed, chanVars, waitVars>>

CallStep(c) == Settle(c) \/ SettleRefused(c) \/ Deliver(c) \/ Finish(c)

-----------------------------------------------------------------------------
(* Waiting: take_async_receiver, then the start of the receiver's opstate. *)

\* Mutation of Take: a completed operation is left to the completer.
TakeKeeps(w, o) ==
  /\ at[w] = "idle"
  /\ o \in entry /\ ~taken[o]
  /\ taken' = [taken EXCEPT ![o] = TRUE]
  /\ at' = [at EXCEPT ![w] = "took"]
  /\ awaits' = [awaits EXCEPT ![w] = o]
  /\ UNCHANGED <<created, entry, completed, chanVars, callVars, got, resumed>>

\* Mutation of Take: the receiver is copied out, not moved out.
TakeTwice(w, o) ==
  /\ at[w] = "idle"
  /\ o \in entry
  /\ taken' = [taken EXCEPT ![o] = TRUE]
  /\ entry' = IF completed[o] THEN entry \ {o} ELSE entry
  /\ at' = [at EXCEPT ![w] = "took"]
  /\ awaits' = [awaits EXCEPT ![w] = o]
  /\ UNCHANGED <<created, completed, chanVars, callVars, got, resumed>>

Take(w, o) ==
  /\ at[w] = "idle"
  /\ o \in entry /\ ~taken[o]
  /\ taken' = [taken EXCEPT ![o] = TRUE]
  /\ entry' = IF completed[o] THEN entry \ {o} ELSE entry
  /\ at' = [at EXCEPT ![w] = "took"]
  /\ awaits' = [awaits EXCEPT ![w] = o]
  /\ UNCHANGED <<created, completed, chanVars, callVars, got, resumed>>

\* An unknown id, or a receiver that was taken before ("invalid op_id").  The
\* second take of a completed operation erases the entry all the same.
TakeInvalid(w, o) ==
  /\ at[w] = "idle"
  /\ o \notin entry \/ taken[o]
  /\ entry' = IF completed[o] THEN entry \ {o} ELSE entry
  /\ at' = [at EXCEPT ![w] = "invalid"]
  /\ awaits' = [awaits EXCEPT ![w] = o]
  /\ UNCHANGED <<created, taken, completed, chanVars, callVars, got, resumed>>

\* opstate::start on a channel that has settled.
StartReady(w) ==
  LET o == awaits[w] IN
  /\ at[w] = "took"
  /\ status[o] # None
  /\ Resume(w, status[o])
  /\ UNCHANGED <<opVars, chanVars, callVars>>

StartParked(w) ==
  LET o == awaits[w] IN
  /\ at[w] = "took"
  /\ status[o] = None
  /\ waiter' = [waiter EXCEPT ![o] = w]
  /\ at' = [at EXCEPT ![w] = "parked"]
  /\ UNCHANGED <<opVars, status, detached, callVars, awaits, got, resumed>>

\* The operation state is destroyed while it is parked.
Abandon(w) ==
  LET o == awaits[w] IN
  /\ at[w] = "parked" /\ waiter[o] = w
  /\ waiter' = [waiter EXCEPT ![o] = None]
  /\ detached' = [detached EXCEPT ![o] = TRUE]
  /\ at' = [at EXCEPT ![w] = "gone"]
  /\ UNCHANGED <<opVars, status, callVars, awaits, got, resumed>>

WaitStep(w) == StartReady(w) \/ StartParked(w)

Next ==
  \/ \E o \in Ops : Create(o)
  \/ \E c \in Calls, o \in Ops :
       (\E r \in Kinds : Begin(c, o, r)) \/ BeginIgnored(c, o)
  \/ \E c \in Calls : CallStep(c)
  \/ \E w \in Waits, o \in Ops : Take(w, o) \/ TakeInvalid(w, o)
  \/ \E w \in Waits : WaitStep(w) \/ Abandon(w)

Spec == Init /\ [][Next]_vars

\* A thread inside a call and a coroutine that has begun to wait run on.
FairSpec ==
  /\ Spec
  /\ \A c \in Calls : WF_vars(CallStep(c))
  /\ \A w \in Waits : WF_vars(WaitStep(w))

-----------------------------------------------------------------------------
(* Properties.                                                             *)

CallPcs == {"idle", "ignored", "begun", "settled", "delivered", "done"}
WaitPcs == {"idle", "invalid", "took", "parked", "done", "gone"}

\* Types; a wait is never resumed twice.
TypeOK ==
  /\ created \subseteq Ops /\ entry \subseteq created
  /\ taken \in [Ops -> BOOLEAN]
  /\ completed \in [Ops -> BOOLEAN]
  /\ status \in [Ops -> Kinds \cup {None}]
  /\ waiter \in [Ops -> Waits \cup {None}]
  /\ detached \in [Ops -> BOOLEAN]
  /\ pc \in [Calls -> CallPcs]
  /\ target \in [Calls -> Ops \cup {None}]
  /\ brings \in [Calls -> Kinds \cup {None}]
  /\ wakes \in [Calls -> Waits \cup {None}]
  /\ at \in [Waits -> WaitPcs]
  /\ awaits \in [Waits -> Ops \cup {None}]
  /\ got \in [Waits -> Kinds \cup {None}]
  /\ resumed \in [Waits -> 0..1]

\* c is the call whose completion of o counts.
Wins(c, o) == target[c] = o /\ pc[c] \notin {"idle", "ignored"}

\* Of any number of racing complete, fail and cancel calls exactly one counts,
\* and what a coroutine resumes with is what that one call brought.
FirstCallWins ==
  /\ \A o \in Ops : \A c, d \in Calls : Wins(c, o) /\ Wins(d, o) => c = d
  /\ \A w \in Waits : got[w] # None =>
       \E c \in Calls : Wins(c, awaits[w]) /\ brings[c] = got[w]

\* A coroutine is resumed exactly when it is waiting: not after it was
\* destroyed, not before it took the receiver, and once.
ResumedWhileWaiting ==
  \A w \in Waits : /\ resumed[w] = (IF at[w] = "done" THEN 1 ELSE 0)
                   /\ at[w] = "done" <=> got[w] # None

\* A parked coroutine always has its waker ahead of it: the channel is not
\* settled yet, or the call that settled it is about to deliver to it.
NobodySleepsOnASettledOp ==
  \A w \in Waits : at[w] = "parked" =>
    \/ status[awaits[w]] = None /\ waiter[awaits[w]] = w
    \/ \E c \in Calls : pc[c] = "settled" /\ wakes[c] = w

\* The entry of a completed or failed operation is erased only when a coroutine
\* has come for it too: a late wait finds its result.  Nothing is claimed of a
\* cancelled one, whose resources dcb_async_cancel is documented to release
\* "if no one is awaiting" (cbridge.h:84-86); the code keeps that entry as well.
EntryOutlivesBothSides ==
  \A o \in created \ entry :
    /\ completed[o]
    /\ taken[o] \/ \E c \in Calls : Wins(c, o) /\ brings[c] = "cancelled"

\* And it is erased by whichever side comes last: once the completing call
\* has returned and the receiver is taken nothing is left in the registry.
\* (What nobody ever awaits stays there.)
NothingLeaks ==
  \A c \in Calls : pc[c] = "done" /\ taken[target[c]] => target[c] \notin entry

\* w holds, or has held, the receiving side of o.
Owns(w, o) == awaits[w] = o /\ at[w] \in {"took", "parked", "done", "gone"}

Owner(o) ==
  IF \E w \in Waits : Owns(w, o) THEN CHOOSE w \in Waits : Owns(w, o) ELSE None

\* Every operation is a write-once cell with one reader.
Cell == INSTANCE OnceCell WITH
  Results <- Kinds, result <- status, reader <- [o \in Ops |-> Owner(o)]
IsOnceCell == Cell!Spec

\* A coroutine that waits for an operation somebody has begun to complete
\* does resume, wherever the two threads were when they met.
WaitEndsAfterCompletion ==
  \A w \in Waits, o \in Ops :
    (awaits[w] = o /\ at[w] \in {"took", "parked"} /\ completed[o])
      ~> at[w] \in {"done", "gone"}
=============================================================================
