------------------------------ MODULE Sessions ------------------------------
(***************************************************************************)
(* Sessions and what they own: SessionRegistry and Session (session.hpp,   *)
(* runtime/runtime.cpp) with the pending replies of DartFn calls, and      *)
(* ObjectHandleRegistry (runtime/object_handle.cpp) with the C++ objects   *)
(* behind Dart handles.  One action is one critical section, one atomic    *)
(* read of a flag or one call out of a critical section.                   *)
(*                                                                         *)
(* Several threads open, close, register, reply and drop.  Session ids are *)
(* never reused and a handle carries the id of its session, so the owner   *)
(* of a call or an object is fixed.  The generation of a session changes   *)
(* only together with disposed_, under dart_fn_mu_: alive(gen) of a        *)
(* generation read at any time is ~disposed.                               *)
(***************************************************************************)
EXTENDS Naturals

CONSTANTS
  Sessions,
  Calls,        \* DartFn calls: each needs one reply
  Objects,      \* C++ objects to be registered
  Owner,        \* the session of every call and object
  Closers,      \* threads in session_close, session_finalizer or shutdown
  Droppers,     \* threads in drop_object or object_finalizer
  None

Resources == Calls \cup Objects

ASSUME SessionsAssumption ==
  /\ Calls \cap Objects = {}
  /\ Owner \in [Resources -> Sessions]
  /\ None \notin Sessions /\ None \notin Objects

VARIABLES
  registry,     \* SessionRegistry::sessions_
  opened,       \* history: sessions that have been opened
  disposed,     \* sessions with disposed_ set
  pending,      \* calls in dart_fn_pending_ of their session
  stores,       \* sessions with an entry in ObjectHandleRegistry::sessions_
  objects,      \* objects in the store of their session
  callPc,       \* where invoke_dart_fn_async is
  replyPc,      \* where dcb_dart_fn_reply is
  sends,        \* history: how often a call's channel has been sent to
  objPc,        \* where insert_for_session is
  drops,        \* history: how often an object's DropFn has been called
  dropPc,       \* where a dropper is
  dropObj,      \* the object it drops
  closePc,      \* where a closer is
  batch,        \* the sessions it has taken out of the registry
  current,      \* the one it is working on
  abandoned,    \* calls it has to fail
  doomed        \* objects it has to drop

regVars == <<registry, opened, disposed, stores>>
callVars == <<callPc, replyPc>>
objVars == <<objPc, dropPc, dropObj>>
closeVars == <<closePc, batch, current, abandoned, doomed>>
vars == <<registry, opened, disposed, pending, stores, objects, callPc, replyPc, sends,
          objPc, drops, dropPc, dropObj, closePc, batch, current, abandoned, doomed>>

Alive(s) == s \notin disposed

Init ==
  /\ registry = {} /\ opened = {} /\ disposed = {}
  /\ pending = {} /\ stores = {} /\ objects = {}
  /\ callPc = [c \in Calls |-> "idle"]
  /\ replyPc = [c \in Calls |-> "none"]
  /\ sends = [c \in Calls |-> 0]
  /\ objPc = [o \in Objects |-> "idle"]
  /\ drops = [o \in Objects |-> 0]
  /\ dropPc = [d \in Droppers |-> "idle"]
  /\ dropObj = [d \in Droppers |-> None]
  /\ closePc = [k \in Closers |-> "idle"]
  /\ batch = [k \in Closers |-> {}]
  /\ current = [k \in Closers |-> None]
  /\ abandoned = [k \in Closers |-> {}]
  /\ doomed = [k \in Closers |-> {}]

\* SessionRegistry::open.
Open(s) ==
  /\ s \notin opened
  /\ opened' = opened \cup {s}
  /\ registry' = registry \cup {s}
  /\ UNCHANGED <<disposed, stores, pending, objects, callVars, sends, objVars, drops, closeVars>>

-----------------------------------------------------------------------------
(* A DartFn call and Dart's reply. *)

\* invoke_dart_fn_async: the look before the channel is made.
CallChecks(c) ==
  /\ callPc[c] = "idle" /\ Owner[c] \in opened
  /\ callPc' = [callPc EXCEPT ![c] = IF Alive(Owner[c]) THEN "checked" ELSE "refused"]
  /\ UNCHANGED <<regVars, pending, objects, replyPc, sends, objVars, drops, closeVars>>

\* Mutation of CallRegisters: no second look under the mutex.
CallRegistersUnchecked(c) ==
  /\ callPc[c] = "checked"
  /\ callPc' = [callPc EXCEPT ![c] = "registered"]
  /\ pending' = pending \cup {c}
  /\ UNCHANGED <<regVars, objects, replyPc, sends, objVars, drops, closeVars>>

\* The second look and the registration, under dart_fn_mu_.
CallRegisters(c) ==
  /\ callPc[c] = "checked"
  /\ IF Alive(Owner[c])
     THEN callPc' = [callPc EXCEPT ![c] = "registered"] /\ pending' = pending \cup {c}
     ELSE callPc' = [callPc EXCEPT ![c] = "refused"] /\ UNCHANGED pending
  /\ UNCHANGED <<regVars, objects, replyPc, sends, objVars, drops, closeVars>>

\* try_post: the frame reaches Dart unless the session is gone by now.
CallPosts(c) ==
  /\ callPc[c] = "registered"
  /\ callPc' = [callPc EXCEPT ![c] = IF Alive(Owner[c]) THEN "posted" ELSE "unposted"]
  /\ UNCHANGED <<regVars, pending, objects, replyPc, sends, objVars, drops, closeVars>>

\* dcb_dart_fn_reply: the session is looked up.
ReplyLooks(c) ==
  /\ callPc[c] = "posted" /\ replyPc[c] = "none"
  /\ replyPc' = [replyPc EXCEPT ![c] = IF Owner[c] \in registry THEN "found" ELSE "ignored"]
  /\ UNCHANGED <<regVars, pending, objects, callPc, sends, objVars, drops, closeVars>>

\* Mutation of ReplyTakes: the callback is used without being erased.
ReplyCopies(c) ==
  /\ replyPc[c] = "found"
  /\ replyPc' = [replyPc EXCEPT ![c] = IF c \in pending THEN "taken" ELSE "ignored"]
  /\ UNCHANGED <<regVars, pending, objects, callPc, sends, objVars, drops, closeVars>>

\* complete_dart_fn: the callback is taken out, or was taken by dispose().
ReplyTakes(c) ==
  /\ replyPc[c] = "found"
  /\ replyPc' = [replyPc EXCEPT ![c] = IF c \in pending THEN "taken" ELSE "ignored"]
  /\ pending' = pending \ {c}
  /\ UNCHANGED <<regVars, objects, callPc, sends, objVars, drops, closeVars>>

\* The reply is sent to the caller's channel.
ReplySends(c) ==
  /\ replyPc[c] = "taken"
  /\ replyPc' = [replyPc EXCEPT ![c] = "sent"]
  /\ sends' = [sends EXCEPT ![c] = @ + 1]
  /\ UNCHANGED <<regVars, pending, objects, callPc, objVars, drops, closeVars>>

CallStep(c) == CallChecks(c) \/ CallRegisters(c) \/ CallPosts(c)
ReplyStep(c) == ReplyLooks(c) \/ ReplyTakes(c) \/ ReplySends(c)

-----------------------------------------------------------------------------
(* C++ objects behind handles. *)

\* insert_for_session: the session is looked up, or the caller gets an error.
InsertLooks(o) ==
  /\ objPc[o] = "idle" /\ Owner[o] \in opened
  /\ objPc' = [objPc EXCEPT ![o] = IF Owner[o] \in registry THEN "looked" ELSE "refused"]
  /\ UNCHANGED <<regVars, pending, objects, callVars, sends, drops, dropPc, dropObj, closeVars>>

\* Mutation of Insert: insert() instead of insert() inside with_alive().
InsertUnchecked(o) ==
  /\ objPc[o] = "looked"
  /\ objPc' = [objPc EXCEPT ![o] = "live"]
  /\ stores' = stores \cup {Owner[o]} /\ objects' = objects \cup {o}
  /\ UNCHANGED <<registry, opened, disposed, pending, callVars, sends, drops, dropPc,
                 dropObj, closeVars>>

\* with_alive: insert() makes the store if need be and puts the object into it.
Insert(o) ==
  /\ objPc[o] = "looked"
  /\ IF Alive(Owner[o])
     THEN /\ objPc' = [objPc EXCEPT ![o] = "live"]
          /\ stores' = stores \cup {Owner[o]} /\ objects' = objects \cup {o}
     ELSE /\ objPc' = [objPc EXCEPT ![o] = "refused"]
          /\ UNCHANGED <<stores, objects>>
  /\ UNCHANGED <<registry, opened, disposed, pending, callVars, sends, drops, dropPc,
                 dropObj, closeVars>>

\* drop(handle): the store is found, or the session is gone.
DropLooks(d, o) ==
  /\ dropPc[d] = "idle" /\ objPc[o] = "live"
  /\ Owner[o] \in stores
  /\ dropPc' = [dropPc EXCEPT ![d] = "found"]
  /\ dropObj' = [dropObj EXCEPT ![d] = o]
  /\ UNCHANGED <<regVars, pending, objects, callVars, sends, objPc, drops, closeVars>>

\* Mutation of DropTakes: the entry is read and erased after the DropFn.
DropReads(d) ==
  /\ dropPc[d] = "found"
  /\ dropPc' = [dropPc EXCEPT ![d] = IF dropObj[d] \in objects THEN "taken" ELSE "idle"]
  /\ UNCHANGED <<regVars, pending, objects, callVars, sends, objPc, drops, dropObj, closeVars>>

\* The entry is moved out of the store, if it is still there.
DropTakes(d) ==
  /\ dropPc[d] = "found"
  /\ dropPc' = [dropPc EXCEPT ![d] = IF dropObj[d] \in objects THEN "taken" ELSE "idle"]
  /\ objects' = objects \ {dropObj[d]}
  /\ UNCHANGED <<regVars, pending, callVars, sends, objPc, drops, dropObj, closeVars>>

\* The DropFn runs without a lock.
DropCalls(d) ==
  /\ dropPc[d] = "taken"
  /\ dropPc' = [dropPc EXCEPT ![d] = "idle"]
  /\ drops' = [drops EXCEPT ![dropObj[d]] = @ + 1]
  /\ UNCHANGED <<regVars, pending, objects, callVars, sends, objPc, dropObj, closeVars>>

InsertStep(o) == InsertLooks(o) \/ Insert(o)
DropStep(d) == DropTakes(d) \/ DropCalls(d)

-----------------------------------------------------------------------------
(* Closing. *)

\* SessionRegistry::close, close_all: sessions leave the registry.
Take(k, S) ==
  /\ closePc[k] = "idle" /\ S # {} /\ S \subseteq registry
  /\ registry' = registry \ S
  /\ batch' = [batch EXCEPT ![k] = S]
  /\ closePc' = [closePc EXCEPT ![k] = "picking"]
  /\ UNCHANGED <<opened, disposed, stores, pending, objects, callVars, sends, objVars, drops,
                 current, abandoned, doomed>>

Close(k) == \E s \in registry : Take(k, {s})
CloseAll(k) == Take(k, registry)

\* The next session of the batch, or the end.
Pick(k) ==
  /\ closePc[k] = "picking"
  /\ \/ \E s \in batch[k] :
          /\ current' = [current EXCEPT ![k] = s]
          /\ closePc' = [closePc EXCEPT ![k] = "disposing"]
     \/ /\ batch[k] = {}
        /\ closePc' = [closePc EXCEPT ![k] = "idle"]
        /\ UNCHANGED current
  /\ UNCHANGED <<regVars, pending, objects, callVars, sends, objVars, drops, batch, abandoned, doomed>>

\* Mutation of Dispose: the pending callbacks are cleared and forgotten.
DisposeForgets(k) ==
  /\ closePc[k] = "disposing"
  /\ disposed' = disposed \cup {current[k]}
  /\ pending' = {c \in pending : Owner[c] # current[k]}
  /\ closePc' = [closePc EXCEPT ![k] = "failing"]
  /\ UNCHANGED <<registry, opened, stores, objects, callVars, sends, objVars, drops,
                 batch, current, abandoned, doomed>>

\* Session::dispose: the flag and the pending callbacks, under dart_fn_mu_.
Dispose(k) ==
  /\ closePc[k] = "disposing"
  /\ disposed' = disposed \cup {current[k]}
  /\ abandoned' = [abandoned EXCEPT ![k] = {c \in pending : Owner[c] = current[k]}]
  /\ pending' = {c \in pending : Owner[c] # current[k]}
  /\ closePc' = [closePc EXCEPT ![k] = "failing"]
  /\ UNCHANGED <<registry, opened, stores, objects, callVars, sends, objVars, drops,
                 batch, current, doomed>>

\* One abandoned callback is told that the session is disposed.
FailOne(k) ==
  /\ closePc[k] = "failing"
  /\ \E c \in abandoned[k] :
       /\ sends' = [sends EXCEPT ![c] = @ + 1]
       /\ abandoned' = [abandoned EXCEPT ![k] = @ \ {c}]
  /\ UNCHANGED <<regVars, pending, objects, callVars, objVars, drops, closePc, batch, current, doomed>>

\* drop_all: the store leaves ObjectHandleRegistry ...
DetachStore(k) ==
  /\ closePc[k] = "failing" /\ abandoned[k] = {}
  /\ stores' = stores \ {current[k]}
  /\ closePc' = [closePc EXCEPT
                   ![k] = IF current[k] \in stores THEN "emptying" ELSE "dropping"]
  /\ UNCHANGED <<registry, opened, disposed, pending, objects, callVars, sends, objVars, drops,
                 batch, current, abandoned, doomed>>

\* Mutation of EmptyStore: the objects are copied, not moved.
EmptyStoreCopies(k) ==
  /\ closePc[k] = "emptying"
  /\ doomed' = [doomed EXCEPT ![k] = {o \in objects : Owner[o] = current[k]}]
  /\ closePc' = [closePc EXCEPT ![k] = "dropping"]
  /\ UNCHANGED <<regVars, pending, objects, callVars, sends, objVars, drops, batch, current, abandoned>>

\* ... its objects are moved out of it ...
EmptyStore(k) ==
  /\ closePc[k] = "emptying"
  /\ doomed' = [doomed EXCEPT ![k] = {o \in objects : Owner[o] = current[k]}]
  /\ objects' = {o \in objects : Owner[o] # current[k]}
  /\ closePc' = [closePc EXCEPT ![k] = "dropping"]
  /\ UNCHANGED <<regVars, pending, callVars, sends, objVars, drops, batch, current, abandoned>>

\* ... and the DropFn of each is called.
DropOne(k) ==
  /\ closePc[k] = "dropping"
  /\ \E o \in doomed[k] :
       /\ drops' = [drops EXCEPT ![o] = @ + 1]
       /\ doomed' = [doomed EXCEPT ![k] = @ \ {o}]
  /\ UNCHANGED <<regVars, pending, objects, callVars, sends, objVars, closePc, batch, current, abandoned>>

Finish(k) ==
  /\ closePc[k] = "dropping" /\ doomed[k] = {}
  /\ batch' = [batch EXCEPT ![k] = @ \ {current[k]}]
  /\ current' = [current EXCEPT ![k] = None]
  /\ closePc' = [closePc EXCEPT ![k] = "picking"]
  /\ UNCHANGED <<regVars, pending, objects, callVars, sends, objVars, drops, abandoned, doomed>>

CloseStep(k) ==
  Pick(k) \/ Dispose(k) \/ FailOne(k) \/ DetachStore(k) \/ EmptyStore(k) \/ DropOne(k) \/ Finish(k)

Next ==
  \/ \E s \in Sessions : Open(s)
  \/ \E c \in Calls : CallStep(c) \/ ReplyStep(c)
  \/ \E o \in Objects : InsertStep(o) \/ \E d \in Droppers : DropLooks(d, o)
  \/ \E d \in Droppers : DropStep(d)
  \/ \E k \in Closers : Close(k) \/ CloseAll(k) \/ CloseStep(k)

Spec == Init /\ [][Next]_vars

\* A call that was begun goes on, the Dart closure returns, and a thread that
\* closes sessions comes to the end.  Nobody has to open or close anything.
FairSpec ==
  /\ Spec
  /\ \A c \in Calls : WF_vars(CallRegisters(c) \/ CallPosts(c)) /\ WF_vars(ReplyStep(c))
  /\ \A k \in Closers : WF_vars(CloseStep(k))

-----------------------------------------------------------------------------
(* Properties. *)

\* Types.
TypeOK ==
  /\ registry \subseteq opened /\ opened \subseteq Sessions /\ disposed \subseteq opened
  /\ pending \subseteq Calls /\ stores \subseteq Sessions /\ objects \subseteq Objects
  /\ callPc \in [Calls -> {"idle", "checked", "registered", "posted", "unposted", "refused"}]
  /\ replyPc \in [Calls -> {"none", "found", "taken", "sent", "ignored"}]
  /\ sends \in [Calls -> 0..1]
  /\ objPc \in [Objects -> {"idle", "looked", "live", "refused"}]
  /\ drops \in [Objects -> 0..1]
  /\ dropPc \in [Droppers -> {"idle", "found", "taken"}]
  /\ dropObj \in [Droppers -> Objects \cup {None}]
  /\ closePc \in [Closers -> {"idle", "picking", "disposing", "failing", "emptying", "dropping"}]
  /\ batch \in [Closers -> SUBSET Sessions]
  /\ current \in [Closers -> Sessions \cup {None}]
  /\ abandoned \in [Closers -> SUBSET Calls]
  /\ doomed \in [Closers -> SUBSET Objects]

Registered(c) == callPc[c] \in {"registered", "posted", "unposted"}

\* A registered call that has not been answered has exactly one holder: the
\* session, a reply in flight, or one of the threads that close sessions.  It
\* is answered once, by Dart or by dispose(), however they race.
CallHasOneHolder ==
  \A c \in Calls :
    /\ sends[c] > 0 => Registered(c)
    /\ Registered(c) /\ sends[c] = 0 <=>
         c \in pending \/ replyPc[c] = "taken" \/ \E k \in Closers : c \in abandoned[k]
    /\ ~(c \in pending /\ replyPc[c] = "taken")
    /\ \A k \in Closers : c \in abandoned[k] =>
         /\ c \notin pending /\ replyPc[c] # "taken"
         /\ \A l \in Closers \ {k} : c \notin abandoned[l]

Dropping(d, o) == dropPc[d] = "taken" /\ dropObj[d] = o

\* The same for an object: its DropFn runs once, though explicit drops, the
\* finalizer of the handle and the close of its session race for it.
ObjectHasOneHolder ==
  \A o \in Objects :
    /\ drops[o] > 0 => objPc[o] = "live"
    /\ objPc[o] = "live" /\ drops[o] = 0 <=>
         \/ o \in objects
         \/ \E d \in Droppers : Dropping(d, o)
         \/ \E k \in Closers : o \in doomed[k]
    /\ \A d \in Droppers : Dropping(d, o) =>
         o \notin objects /\ \A e \in Droppers \ {d} : ~Dropping(e, o)
    /\ \A k \in Closers : o \in doomed[k] =>
         /\ o \notin objects /\ \A d \in Droppers : ~Dropping(d, o)
         /\ \A l \in Closers \ {k} : o \notin doomed[l]

Closed(s) == s \in disposed /\ \A k \in Closers : s \notin batch[k]

\* A closed session holds nothing and nothing is registered for it any more:
\* no reply is left pending, no store and no object is left behind.
NothingLeftBehind ==
  \A s \in Sessions : Closed(s) =>
    /\ s \notin stores
    /\ \A c \in pending : Owner[c] # s
    /\ \A o \in objects : Owner[o] # s

\* An object in a store can be reached through its handle, unless the close
\* of its session is about to empty that store.
StoredObjectsAreReachable ==
  \A o \in objects :
    \/ Owner[o] \in stores
    \/ \E k \in Closers : closePc[k] = "emptying" /\ current[k] = Owner[o]

\* The abstract state of a session ...
SessionState(s) ==
  IF s \notin opened THEN "new"
  ELSE IF s \in registry THEN "open"
  ELSE IF s \notin disposed THEN "closing"
  ELSE IF Closed(s) THEN "closed" ELSE "sealed"

\* ... of a call and of an object.
CallState(c) ==
  IF callPc[c] \in {"idle", "checked"} THEN "none"
  ELSE IF callPc[c] = "refused" THEN "refused"
  ELSE IF c \in pending THEN "held" ELSE "released"

ObjectState(o) ==
  IF objPc[o] \in {"idle", "looked"} THEN "none"
  ELSE IF objPc[o] = "refused" THEN "refused"
  ELSE IF o \in objects THEN "held" ELSE "released"

ResourceState(r) == IF r \in Calls THEN CallState(r) ELSE ObjectState(r)

Ownership == INSTANCE OwnedResources WITH
  session <- [s \in Sessions |-> SessionState(s)],
  resource <- [r \in Resources |-> ResourceState(r)]

\* Replies and objects behave as resources owned by their session.
IsOwnership == Ownership!Spec

\* A registered call is answered: by Dart's reply, or, when the frame or the
\* reply found the session closed, by dispose().
CallsAreAnswered ==
  \A c \in Calls : callPc[c] = "registered" ~> sends[c] > 0

=============================================================================
