------------------------------ MODULE Lifecycle ------------------------------
(***************************************************************************)
(* The runtime's life (runtime/runtime.cpp, runtime.hpp), the entry points *)
(* that begin and end it (ffi_entry.cpp) and the C callers that get an     *)
(* answer from Dart across it (dcb_invoke_dart_fn, cbridge.cpp).           *)
(*                                                                         *)
(* dcb_session_open is three steps and dcb_shutdown many; both run in any  *)
(* thread.  A DartFn call is accepted under the start/stop gate, runs as a *)
(* coroutine on an io thread, and is answered by Dart, by the disposal of  *)
(* its session, or by the thread that stops the runtime.  What is queued   *)
(* in the io_context when it stops stays there until the next start().     *)
(*                                                                         *)
(* There are as many io threads as coroutines (set_io_threads).  What a    *)
(* session owns is in Sessions; here dispose() answers all its calls at    *)
(* once.                                                                   *)
(***************************************************************************)
EXTENDS Naturals

CONSTANTS
  SessionIds,   \* sessions that are opened, each at most once
  Calls,        \* calls of dcb_invoke_dart_fn
  Target,       \* the session of each
  Shutters,     \* threads that call dcb_shutdown, any number of times
  NoCall

ASSUME LifecycleAssumption == Target \in [Calls -> SessionIds] /\ NoCall \notin Calls

VARIABLES
  lifecycle,    \* Runtime::lifecycle_; started_ is lifecycle = "running"
  ioOn,         \* the io_context runs handlers
  hook,         \* Runtime::post_fn_ is set
  registry,     \* SessionRegistry::sessions_
  leaving,      \* sessions that session_close took out and has not disposed
  disposed,     \* sessions with disposed_ set
  openPc,       \* where dcb_session_open is
  shutPc,       \* where dcb_shutdown is
  batch,        \* the sessions close_all still has to dispose
  shutCall,     \* the call that cancel_pending_dart_fn_calls is finishing
  callPc,       \* where dcb_invoke_dart_fn is
  coro,         \* where the coroutine of the call is
  calls,        \* PendingDartFnCalls::calls
  completed,    \* calls with DartFnCallState::completed set
  waiting,      \* calls in dart_fn_pending_ of their session
  asked,        \* calls whose frame Dart has and has not answered
  answered,     \* calls whose channel has its reply
  fires         \* how often the callback of a call has been called

runVars == <<lifecycle, ioOn, hook>>
sessVars == <<registry, leaving, disposed, openPc>>
shutVars == <<shutPc, batch, shutCall>>
callVars == <<callPc, coro, calls, completed, fires>>
replyVars == <<waiting, asked, answered>>
vars == <<lifecycle, ioOn, hook, registry, leaving, disposed, openPc, shutPc, batch, shutCall,
          callPc, coro, calls, completed, fires, waiting, asked, answered>>

Running == lifecycle = "running"
InHandler == {"calling", "posting", "finishing", "erasing", "firing"}

Init ==
  /\ lifecycle = "stopped" /\ ioOn = FALSE /\ hook = FALSE
  /\ registry = {} /\ leaving = {} /\ disposed = {}
  /\ openPc = [s \in SessionIds |-> "idle"]
  /\ shutPc = [t \in Shutters |-> "idle"]
  /\ batch = [t \in Shutters |-> {}]
  /\ shutCall = [t \in Shutters |-> NoCall]
  /\ callPc = [c \in Calls |-> "idle"]
  /\ coro = [c \in Calls |-> "none"]
  /\ calls = {} /\ completed = {}
  /\ waiting = {} /\ asked = {} /\ answered = {}
  /\ fires = [c \in Calls |-> 0]

-----------------------------------------------------------------------------
(* dcb_session_open and dcb_session_close. *)

\* Runtime::start() under the gate: it runs already, it is started, it is
\* stopping, or a thread cannot be made.  A failure makes the open return 0.
Start(s) ==
  /\ openPc[s] = "idle"
  /\ \/ /\ Running
        /\ openPc' = [openPc EXCEPT ![s] = "started"]
        /\ UNCHANGED <<lifecycle, ioOn>>
     \/ /\ lifecycle = "stopped"
        /\ lifecycle' = "running" /\ ioOn' = TRUE
        /\ openPc' = [openPc EXCEPT ![s] = "started"]
     \/ /\ ~Running
        /\ openPc' = [openPc EXCEPT ![s] = "failed"]
        /\ UNCHANGED <<lifecycle, ioOn>>
  /\ UNCHANGED <<hook, registry, leaving, disposed, shutVars, callVars, replyVars>>

\* ensure_post_hook.
Hook(s) ==
  /\ openPc[s] = "started"
  /\ hook' = TRUE
  /\ openPc' = [openPc EXCEPT ![s] = "hooked"]
  /\ UNCHANGED <<lifecycle, ioOn, registry, leaving, disposed, shutVars, callVars, replyVars>>

\* SessionRegistry::open.
Open(s) ==
  /\ openPc[s] = "hooked"
  /\ registry' = registry \cup {s}
  /\ openPc' = [openPc EXCEPT ![s] = "open"]
  /\ UNCHANGED <<runVars, leaving, disposed, shutVars, callVars, replyVars>>

\* Session::dispose() answers what waits for this session.
DisposeSession(s) ==
  /\ disposed' = disposed \cup {s}
  /\ answered' = answered \cup {c \in waiting : Target[c] = s}
  /\ waiting' = {c \in waiting : Target[c] # s}

\* dcb_session_close, dcb_session_finalizer.
Close(s) ==
  /\ s \in registry
  /\ registry' = registry \ {s}
  /\ leaving' = leaving \cup {s}
  /\ UNCHANGED <<runVars, disposed, openPc, shutVars, callVars, replyVars>>

Dispose(s) ==
  /\ s \in leaving
  /\ leaving' = leaving \ {s}
  /\ DisposeSession(s)
  /\ UNCHANGED <<runVars, registry, openPc, shutVars, callVars, asked>>

-----------------------------------------------------------------------------
(* dcb_shutdown. *)

\* close_all takes every session out of the registry ...
CloseAll(t) ==
  /\ shutPc[t] = "idle"
  /\ shutPc' = [shutPc EXCEPT ![t] = "closing"]
  /\ batch' = [batch EXCEPT ![t] = registry]
  /\ registry' = {}
  /\ UNCHANGED <<runVars, leaving, disposed, openPc, shutCall, callVars, replyVars>>

\* ... and disposes each.
DisposeOne(t) ==
  /\ shutPc[t] = "closing"
  /\ \E s \in batch[t] : DisposeSession(s) /\ batch' = [batch EXCEPT ![t] = @ \ {s}]
  /\ UNCHANGED <<runVars, registry, leaving, openPc, shutPc, shutCall, callVars, asked>>

\* set_dart_post(nullptr, nullptr).
Unhook(t) ==
  /\ shutPc[t] = "closing" /\ batch[t] = {}
  /\ hook' = FALSE
  /\ shutPc' = [shutPc EXCEPT ![t] = "unhooked"]
  /\ UNCHANGED <<lifecycle, ioOn, sessVars, batch, shutCall, callVars, replyVars>>

\* stop(), under the gate: it begins, or another thread has begun or ended it.
StopBegins(t) ==
  /\ shutPc[t] = "unhooked"
  /\ IF Running
     THEN lifecycle' = "stopping" /\ shutPc' = [shutPc EXCEPT ![t] = "cancelling"]
     ELSE UNCHANGED lifecycle /\ shutPc' = [shutPc EXCEPT ![t] = "idle"]
  /\ UNCHANGED <<ioOn, hook, sessVars, batch, shutCall, callVars, replyVars>>

\* cancel_pending_dart_fn_calls: one call is taken out of the map ...
CancelTakes(t) ==
  /\ shutPc[t] = "cancelling"
  /\ \E c \in calls :
       /\ calls' = calls \ {c}
       /\ shutCall' = [shutCall EXCEPT ![t] = c]
  /\ shutPc' = [shutPc EXCEPT ![t] = "finishing"]
  /\ UNCHANGED <<runVars, sessVars, batch, callPc, coro, completed, fires, replyVars>>

\* ... finish(): unless someone else has completed it ...
CancelFinishes(t) ==
  /\ shutPc[t] = "finishing"
  /\ IF shutCall[t] \in completed
     THEN /\ shutPc' = [shutPc EXCEPT ![t] = "cancelling"]
          /\ shutCall' = [shutCall EXCEPT ![t] = NoCall]
          /\ UNCHANGED completed
     ELSE /\ completed' = completed \cup {shutCall[t]}
          /\ shutPc' = [shutPc EXCEPT ![t] = "firing"]
          /\ UNCHANGED shutCall
  /\ UNCHANGED <<runVars, sessVars, batch, callPc, coro, calls, fires, replyVars>>

\* ... its callback is called.
CancelFires(t) ==
  /\ shutPc[t] = "firing"
  /\ fires' = [fires EXCEPT ![shutCall[t]] = @ + 1]
  /\ shutPc' = [shutPc EXCEPT ![t] = "cancelling"]
  /\ shutCall' = [shutCall EXCEPT ![t] = NoCall]
  /\ UNCHANGED <<runVars, sessVars, batch, callPc, coro, calls, completed, replyVars>>

\* Mutation of StopIo: the calls in the map are left to the coroutines.
StopIoAtOnce(t) ==
  /\ shutPc[t] = "cancelling"
  /\ ioOn' = FALSE
  /\ shutPc' = [shutPc EXCEPT ![t] = "joining"]
  /\ UNCHANGED <<lifecycle, hook, sessVars, batch, shutCall, callVars, replyVars>>

\* The map is empty: io_.stop() lets the handlers that run come to an end.
StopIo(t) ==
  /\ shutPc[t] = "cancelling" /\ calls = {}
  /\ ioOn' = FALSE
  /\ shutPc' = [shutPc EXCEPT ![t] = "joining"]
  /\ UNCHANGED <<lifecycle, hook, sessVars, batch, shutCall, callVars, replyVars>>

\* Mutation of StopEnds: the io threads are not joined.
StopEndsUnjoined(t) ==
  /\ shutPc[t] = "joining"
  /\ lifecycle' = "stopped"
  /\ shutPc' = [shutPc EXCEPT ![t] = "idle"]
  /\ UNCHANGED <<ioOn, hook, sessVars, batch, shutCall, callVars, replyVars>>

\* The io threads are joined and the runtime is stopped.
StopEnds(t) ==
  /\ shutPc[t] = "joining"
  /\ \A c \in Calls : coro[c] \notin InHandler
  /\ lifecycle' = "stopped"
  /\ shutPc' = [shutPc EXCEPT ![t] = "idle"]
  /\ UNCHANGED <<ioOn, hook, sessVars, batch, shutCall, callVars, replyVars>>

-----------------------------------------------------------------------------
(* dcb_invoke_dart_fn. *)

\* The session is looked up, or the call refused.
CallLooks(c) ==
  /\ callPc[c] = "idle"
  /\ callPc' = [callPc EXCEPT ![c] = IF Target[c] \in registry THEN "looked" ELSE "refused"]
  /\ UNCHANGED <<runVars, sessVars, shutVars, coro, calls, completed, fires, replyVars>>

\* The runtime does not run (try_accept), or memory is short.
CallRefused(c) ==
  /\ callPc[c] = "looked"
  /\ callPc' = [callPc EXCEPT ![c] = "refused"]
  /\ UNCHANGED <<runVars, sessVars, shutVars, coro, calls, completed, fires, replyVars>>

\* try_accept: registered, and the coroutine started, under the gate.
CallAccepted(c) ==
  /\ callPc[c] = "looked" /\ Running
  /\ calls' = calls \cup {c}
  /\ coro' = [coro EXCEPT ![c] = "queued"]
  /\ callPc' = [callPc EXCEPT ![c] = "zero"]
  /\ UNCHANGED <<runVars, sessVars, shutVars, completed, fires, replyVars>>

\* Registered, but the coroutine cannot be started.
CallStartFails(c) ==
  /\ callPc[c] = "looked" /\ Running
  /\ calls' = calls \cup {c}
  /\ callPc' = [callPc EXCEPT ![c] = "failing"]
  /\ UNCHANGED <<runVars, sessVars, shutVars, coro, completed, fires, replyVars>>

\* Its caller finishes it, unless stop() was faster, and returns 0.
CallFinishes(c) ==
  /\ callPc[c] = "failing"
  /\ callPc' = [callPc EXCEPT ![c] = IF c \in completed THEN "zero" ELSE "erasing"]
  /\ completed' = completed \cup {c}
  /\ UNCHANGED <<runVars, sessVars, shutVars, coro, calls, fires, replyVars>>

CallErases(c) ==
  /\ callPc[c] = "erasing"
  /\ calls' = calls \ {c}
  /\ callPc' = [callPc EXCEPT ![c] = "firing"]
  /\ UNCHANGED <<runVars, sessVars, shutVars, coro, completed, fires, replyVars>>

CallFires(c) ==
  /\ callPc[c] = "firing"
  /\ fires' = [fires EXCEPT ![c] = @ + 1]
  /\ callPc' = [callPc EXCEPT ![c] = "zero"]
  /\ UNCHANGED <<runVars, sessVars, shutVars, coro, calls, completed, replyVars>>

-----------------------------------------------------------------------------
(* The coroutine, cbridge_invoke_coro, and Dart. *)

\* An io thread takes it out of the queue.
CoroBegins(c) ==
  /\ coro[c] = "queued" /\ ioOn
  /\ coro' = [coro EXCEPT ![c] = "calling"]
  /\ UNCHANGED <<runVars, sessVars, shutVars, callPc, calls, completed, fires, replyVars>>

\* invoke_dart_fn_async registers the reply, or throws if the session is gone.
CoroCalls(c) ==
  /\ coro[c] = "calling"
  /\ IF Target[c] \in disposed
     THEN coro' = [coro EXCEPT ![c] = "finishing"] /\ UNCHANGED waiting
     ELSE coro' = [coro EXCEPT ![c] = "posting"] /\ waiting' = waiting \cup {c}
  /\ UNCHANGED <<runVars, sessVars, shutVars, callPc, calls, completed, fires, asked, answered>>

\* try_post, post_to_dart: the frame reaches Dart, or is dropped in silence.
CoroPosts(c) ==
  /\ coro[c] = "posting"
  /\ IF Target[c] \notin disposed /\ Running /\ hook
     THEN asked' = asked \cup {c}
     ELSE UNCHANGED asked
  /\ coro' = [coro EXCEPT ![c] = "awaiting"]
  /\ UNCHANGED <<runVars, sessVars, shutVars, callPc, calls, completed, fires, waiting, answered>>

\* dcb_dart_fn_reply.
DartReplies(c) ==
  /\ c \in asked
  /\ asked' = asked \ {c}
  /\ IF c \in waiting /\ Target[c] \in registry
     THEN waiting' = waiting \ {c} /\ answered' = answered \cup {c}
     ELSE UNCHANGED <<waiting, answered>>
  /\ UNCHANGED <<runVars, sessVars, shutVars, callVars>>

\* The reply brings the coroutine back to an io thread.
CoroResumes(c) ==
  /\ coro[c] = "awaiting" /\ c \in answered /\ ioOn
  /\ coro' = [coro EXCEPT ![c] = "finishing"]
  /\ UNCHANGED <<runVars, sessVars, shutVars, callPc, calls, completed, fires, replyVars>>

\* finish(): completed.exchange(true) ...
CoroFinishes(c) ==
  /\ coro[c] = "finishing"
  /\ coro' = [coro EXCEPT ![c] = IF c \in completed THEN "done" ELSE "erasing"]
  /\ completed' = completed \cup {c}
  /\ UNCHANGED <<runVars, sessVars, shutVars, callPc, calls, fires, replyVars>>

\* ... the map entry goes ...
CoroErases(c) ==
  /\ coro[c] = "erasing"
  /\ calls' = calls \ {c}
  /\ coro' = [coro EXCEPT ![c] = "firing"]
  /\ UNCHANGED <<runVars, sessVars, shutVars, callPc, completed, fires, replyVars>>

\* ... and the callback is called.
CoroFires(c) ==
  /\ coro[c] = "firing"
  /\ fires' = [fires EXCEPT ![c] = @ + 1]
  /\ coro' = [coro EXCEPT ![c] = "done"]
  /\ UNCHANGED <<runVars, sessVars, shutVars, callPc, calls, completed, replyVars>>

-----------------------------------------------------------------------------
OpenStep(s) == Hook(s) \/ Open(s) \/ Dispose(s)

ShutStep(t) ==
  \/ DisposeOne(t) \/ Unhook(t) \/ StopBegins(t)
  \/ CancelTakes(t) \/ CancelFinishes(t) \/ CancelFires(t)
  \/ StopIo(t) \/ StopEnds(t)

CallStep(c) == CallFinishes(c) \/ CallErases(c) \/ CallFires(c)

CoroStep(c) ==
  \/ CoroBegins(c) \/ CoroCalls(c) \/ CoroPosts(c) \/ CoroResumes(c)
  \/ CoroFinishes(c) \/ CoroErases(c) \/ CoroFires(c)

Next ==
  \/ \E s \in SessionIds : Start(s) \/ Close(s) \/ OpenStep(s)
  \/ \E t \in Shutters : CloseAll(t) \/ ShutStep(t)
  \/ \E c \in Calls : \/ CallLooks(c) \/ CallRefused(c) \/ CallAccepted(c) \/ CallStartFails(c)
                      \/ CallStep(c) \/ CoroStep(c) \/ DartReplies(c)

Spec == Init /\ [][Next]_vars

\* A thread inside the library goes on, the io threads run what is queued, and
\* Dart answers the frames it gets.  Nobody has to open, close or shut down.
FairSpec ==
  /\ Spec
  /\ \A s \in SessionIds : WF_vars(OpenStep(s))
  /\ \A t \in Shutters : WF_vars(ShutStep(t))
  /\ \A c \in Calls : WF_vars(CallStep(c)) /\ WF_vars(CoroStep(c)) /\ WF_vars(DartReplies(c))

-----------------------------------------------------------------------------
(* Properties. *)

\* Types; no callback is called twice, whoever finishes the call.
TypeOK ==
  /\ lifecycle \in {"stopped", "running", "stopping"}
  /\ ioOn \in BOOLEAN /\ hook \in BOOLEAN
  /\ registry \subseteq SessionIds /\ leaving \subseteq SessionIds /\ disposed \subseteq SessionIds
  /\ openPc \in [SessionIds -> {"idle", "started", "hooked", "open", "failed"}]
  /\ shutPc \in [Shutters -> {"idle", "closing", "unhooked", "cancelling", "finishing",
                              "firing", "joining"}]
  /\ batch \in [Shutters -> SUBSET SessionIds]
  /\ shutCall \in [Shutters -> Calls \cup {NoCall}]
  /\ callPc \in [Calls -> {"idle", "looked", "refused", "failing", "erasing", "firing", "zero"}]
  /\ coro \in [Calls -> {"none", "queued", "awaiting", "done"} \cup InHandler]
  /\ calls \subseteq Calls /\ completed \subseteq Calls
  /\ waiting \subseteq Calls /\ asked \subseteq Calls /\ answered \subseteq Calls
  /\ fires \in [Calls -> 0..1]

\* A running runtime can reach Dart: while post_fn_ is not set, a thread is
\* about to set it, or about to stop the runtime (dcb_session_open starts before
\* it hooks, dcb_shutdown unhooks before it stops).
RunningMeansHooked ==
  Running /\ ~hook =>
    \/ \E s \in SessionIds : openPc[s] = "started"
    \/ \E t \in Shutters : shutPc[t] = "unhooked"

\* dcb_invoke_dart_fn keeps the promise of cbridge.h: refused and never called
\* back, or taken and called back once, and by the time the runtime is stopped
\* every call that returned 0 has been called back.
outcome == [c \in Calls |->
  IF callPc[c] \in {"idle", "looked"} THEN "none"
  ELSE IF callPc[c] \in {"failing", "erasing", "firing"} THEN "taken" ELSE callPc[c]]
Callback == INSTANCE CallbackSpec WITH up <- lifecycle # "stopped", fired <- fires
CallbacksAreKept == Callback!Spec

\* A session is being opened while a thread is inside dcb_shutdown.
Overlap ==
  /\ \E s \in SessionIds : openPc[s] \in {"started", "hooked"}
  /\ \E t \in Shutters : shutPc[t] # "idle"

\* As long as no open overlaps a shutdown, the callback of every call that
\* returned 0 is called: by its coroutine, by its caller or by stop().
AcceptedCallsFire ==
  [](~Overlap) => \A c \in Calls : callPc[c] = "zero" ~> fires[c] = 1
=============================================================================
