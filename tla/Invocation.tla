----------------------------- MODULE Invocation -----------------------------
(***************************************************************************)
(* A Dart isolate calls C++: asynchronous requests and streams of one      *)
(* DartCppBridge (dart/lib/src/bridge.dart), their way over                *)
(* dcb_invoke_async to the io scheduler, the dispatch under the session's  *)
(* mutex, the response and the StreamSink's frames on their way back       *)
(* through the isolate's port, and what ends all that: the listener that   *)
(* cancels, dispose(), and another isolate's dcb_shutdown.                 *)
(*                                                                         *)
(* The isolate is one thread: its handlers are atomic except dispose(),    *)
(* which calls down to Session::dispose and waits there for the session's  *)
(* mutex.  The io scheduler has its default single runner thread; sinks    *)
(* are used from any thread.  Payloads are left out; the items of a stream *)
(* are numbered.                                                           *)
(***************************************************************************)
EXTENDS Naturals, Sequences

CONSTANTS
  Requests,  \* the request ids the isolate allocates
  MayCall,   \* the kinds of method each request may call
  Items      \* bound: add() calls per sink

\* A method that answers by a coroutine, one that registers an object or a
\* DartFn call while it is dispatched, one that only feeds a stream, and one
\* that answers and reports its progress on a stream.
Kinds == {"call", "inline", "stream", "progress"}

ASSUME MayCallAssumption == MayCall \in [Requests -> SUBSET Kinds]
ASSUME ItemsAssumption == Items \in Nat

VARIABLES
  kind,         \* the kind of method each request calls
  bridge,       \* "open"; "closing" inside dispose(); "closed"
  pending,      \* _pending: the requests whose Completer is registered
  streams,      \* _streams: the requests whose StreamController is registered
  future,       \* what the caller's Future knows
  listener,     \* what the listener of the stream knows
  heard,        \* the items the listener has got
  cancelled,    \* the streams whose onCancel has run
  port,         \* the frames in the isolate's ReceivePort
  registered,   \* the session is in the SessionRegistry
  disposed,     \* Session::disposed_
  streamsOpen,  \* Session::streams_open_
  stuck,        \* a dispatch waits for the dart_fn_mu_ it holds itself
  running,      \* the runtime runs
  shut,         \* how far another isolate's dcb_shutdown has got
  request,      \* how far the native side is with each request
  sink,         \* StreamSink::State::closed of each request's sink
  producer,     \* the thread inside the sink's mutex
  added,        \* how many items add() has taken past its checks
  muted         \* the streams Dart closed while their sink existed

dartVars == <<kind, bridge, pending, streams, future, listener, heard, cancelled>>
sessionVars == <<registered, disposed, streamsOpen, stuck>>
runtimeVars == <<running, shut>>
sinkVars == <<sink, producer, added>>
vars == <<dartVars, port, sessionVars, runtimeVars, request, sinkVars, muted>>

Frame(type, r, k) == [type |-> type, req |-> r, item |-> k]

HasFuture(r) == kind[r] \in {"call", "inline", "progress"}
HasStream(r) == kind[r] \in {"stream", "progress"}

Init ==
  /\ kind = [r \in Requests |-> "none"]
  /\ bridge = "open" /\ pending = {} /\ streams = {} /\ cancelled = {}
  /\ future = [r \in Requests |-> "none"]
  /\ listener = [r \in Requests |-> "none"]
  /\ heard = [r \in Requests |-> <<>>]
  /\ port = <<>>
  /\ registered = TRUE /\ disposed = FALSE /\ streamsOpen = {} /\ stuck = FALSE
  /\ running = TRUE /\ shut = "no"
  /\ request = [r \in Requests |-> "new"]
  /\ sink = [r \in Requests |-> "none"]
  /\ producer = [r \in Requests |-> "idle"]
  /\ added = [r \in Requests |-> 0]
  /\ muted = {}

\* Runtime::post_to_dart and Dart_PostCObject: the frame is lost in silence
\* when the runtime has stopped or the isolate has closed its port.
Post(f) ==
  port' = IF running /\ bridge # "closed" THEN Append(port, f) ELSE port

-----------------------------------------------------------------------------
(* The isolate calls.                                                       *)

\* invokeAsyncMethod, openStream, invokeAsyncMethodWithStream: the Completer
\* and the controller are registered, then dcb_invoke_async returns in
\* silence when the session is closed or the runtime refuses the task.
Invoke(r) ==
  /\ bridge = "open"
  /\ request[r] = "new"
  /\ \E k \in MayCall[r] : kind' = [kind EXCEPT ![r] = k]
  /\ IF HasFuture(r)' THEN pending' = pending \cup {r} /\ future' = [future EXCEPT ![r] = "open"]
                      ELSE UNCHANGED <<pending, future>>
  /\ IF HasStream(r)' THEN /\ streams' = streams \cup {r}
                           /\ listener' = [listener EXCEPT ![r] = "listening"]
                      ELSE UNCHANGED <<streams, listener>>
  /\ request' = [request EXCEPT ![r] = IF registered /\ running THEN "queued" ELSE "ignored"]
  /\ UNCHANGED <<bridge, heard, cancelled, port, sessionVars, runtimeVars, sinkVars, muted>>

\* onCancel of openStream's controller: the user cancels, or the Dart SDK
\* does after the controller was closed.  dcb_stream_close erases the id.
Cancel(r) ==
  /\ bridge # "closing"
  /\ kind[r] = "stream" /\ listener[r] # "none" /\ r \notin cancelled
  /\ cancelled' = cancelled \cup {r}
  /\ streams' = streams \ {r}
  /\ listener' = [listener EXCEPT ![r] = IF @ = "listening" THEN "cancelled" ELSE @]
  /\ streamsOpen' = IF registered THEN streamsOpen \ {r} ELSE streamsOpen
  /\ muted' = IF registered /\ sink[r] # "none" THEN muted \cup {r} ELSE muted
  /\ UNCHANGED <<kind, bridge, pending, future, heard, port, registered, disposed, stuck,
                 runtimeVars, request, sinkVars>>

\* Mutation of DartDisposes: the Completers are forgotten, not failed.
DartDisposesMute ==
  /\ bridge = "open"
  /\ bridge' = IF registered THEN "closing" ELSE "closed"
  /\ listener' = [r \in Requests |-> IF r \in streams THEN "closed" ELSE listener[r]]
  /\ pending' = {} /\ streams' = {}
  /\ registered' = FALSE
  /\ port' = IF registered THEN port ELSE <<>>
  /\ UNCHANGED <<kind, future, heard, cancelled, disposed, streamsOpen, stuck, runtimeVars,
                 request, sinkVars, muted>>

\* dispose(): every Future fails, every stream ends, and SessionRegistry::close
\* takes the session, if another isolate's shutdown has not.
DartDisposes ==
  /\ bridge = "open"
  /\ bridge' = IF registered THEN "closing" ELSE "closed"
  /\ future' = [r \in Requests |-> IF r \in pending THEN "error" ELSE future[r]]
  /\ listener' = [r \in Requests |-> IF r \in streams THEN "closed" ELSE listener[r]]
  /\ pending' = {} /\ streams' = {}
  /\ registered' = FALSE
  /\ port' = IF registered THEN port ELSE <<>>
  /\ UNCHANGED <<kind, heard, cancelled, disposed, streamsOpen, stuck, runtimeVars, request,
                 sinkVars, muted>>

\* Session::dispose() under dart_fn_mu_; then dispose() closes the port.
DartCloses ==
  /\ bridge = "closing" /\ ~stuck
  /\ disposed' = TRUE
  /\ bridge' = "closed" /\ port' = <<>>
  /\ UNCHANGED <<kind, pending, streams, future, listener, heard, cancelled, registered,
                 streamsOpen, stuck, runtimeVars, request, sinkVars, muted>>

-----------------------------------------------------------------------------
(* The io thread.                                                           *)

IoRuns == running /\ ~stuck

\* The session was closed before the task ran: it is dropped in silence.
DispatchDropped(r) ==
  /\ IoRuns /\ request[r] = "queued" /\ disposed
  /\ request' = [request EXCEPT ![r] = "dropped"]
  /\ UNCHANGED <<dartVars, port, sessionVars, runtimeVars, sinkVars, muted>>

\* The dispatcher starts the coroutine, and constructs the StreamSink, whose
\* constructor opens the stream.
DispatchStarts(r) ==
  /\ IoRuns /\ request[r] = "queued" /\ ~disposed
  /\ request' = [request EXCEPT ![r] = IF HasFuture(r) THEN "running" ELSE "done"]
  /\ streamsOpen' = IF HasStream(r) THEN streamsOpen \cup {r} ELSE streamsOpen
  /\ sink' = IF HasStream(r) THEN [sink EXCEPT ![r] = "open"] ELSE sink
  /\ UNCHANGED <<dartVars, port, registered, disposed, stuck, runtimeVars, producer,
                 added, muted>>

\* Mutation of DispatchFails: the exception is swallowed.
DispatchFailsSilently(r) ==
  /\ IoRuns /\ request[r] = "queued" /\ ~disposed
  /\ request' = [request EXCEPT ![r] = "done"]
  /\ UNCHANGED <<dartVars, port, sessionVars, runtimeVars, sinkVars, muted>>

\* The dispatcher catches an exception and posts an error response.
DispatchFails(r) ==
  /\ IoRuns /\ request[r] = "queued" /\ ~disposed
  /\ request' = [request EXCEPT ![r] = "done"]
  /\ Post(Frame("err", r, 0))
  /\ UNCHANGED <<dartVars, sessionVars, runtimeVars, sinkVars, muted>>

\* with_alive holds dart_fn_mu_ while it dispatches, and insert_for_session or
\* invoke_dart_fn_async lock it again in the same thread, which is undefined
\* for a std::mutex: this build blocks there for ever, another throws
\* (DispatchFails) or lets its owner in again (DispatchStarts).
DispatchLocksTwice(r) ==
  /\ IoRuns /\ request[r] = "queued" /\ ~disposed
  /\ kind[r] = "inline"
  /\ request' = [request EXCEPT ![r] = "locking"]
  /\ stuck' = TRUE
  /\ UNCHANGED <<dartVars, port, registered, disposed, streamsOpen, runtimeVars, sinkVars,
                 muted>>

Dispatch(r) ==
  DispatchDropped(r) \/ DispatchStarts(r) \/ DispatchFails(r) \/ DispatchLocksTwice(r)

\* The coroutine completes and try_post() looks whether the session lives ...
ReplyLooks(r) ==
  /\ IoRuns /\ request[r] = "running"
  /\ request' = [request EXCEPT ![r] = IF disposed THEN "dropped" ELSE "replying"]
  /\ UNCHANGED <<dartVars, port, sessionVars, runtimeVars, sinkVars, muted>>

\* ... and posts the response.
ReplyPosts(r) ==
  /\ request[r] = "replying"
  /\ request' = [request EXCEPT ![r] = "done"]
  /\ \E type \in {"ok", "err"} : Post(Frame(type, r, 0))
  /\ UNCHANGED <<dartVars, sessionVars, runtimeVars, sinkVars, muted>>

-----------------------------------------------------------------------------
(* The sink, from any thread; producer[r] # "idle" while its mutex is held.  *)

SinkFree(r) == sink[r] = "open" /\ producer[r] = "idle"

\* add() finds the session disposed or the stream closed by Dart.
AddRefused(r) ==
  /\ SinkFree(r)
  /\ disposed \/ r \notin streamsOpen
  /\ sink' = [sink EXCEPT ![r] = "closed"]
  /\ UNCHANGED <<dartVars, port, sessionVars, runtimeVars, request, producer, added, muted>>

\* Mutation of AddLooks: add() does not ask whether the stream is open.
AddLooksBlindly(r) ==
  /\ SinkFree(r) /\ added[r] < Items
  /\ ~disposed
  /\ producer' = [producer EXCEPT ![r] = "adding"]
  /\ added' = [added EXCEPT ![r] = @ + 1]
  /\ UNCHANGED <<dartVars, port, sessionVars, runtimeVars, request, sink, muted>>

\* add() passes both checks ...
AddLooks(r) ==
  /\ SinkFree(r) /\ added[r] < Items
  /\ ~disposed /\ r \in streamsOpen
  /\ producer' = [producer EXCEPT ![r] = "adding"]
  /\ added' = [added EXCEPT ![r] = @ + 1]
  /\ UNCHANGED <<dartVars, port, sessionVars, runtimeVars, request, sink, muted>>

\* ... and posts the item, unless the session has been disposed since.
AddPosts(r) ==
  /\ producer[r] = "adding"
  /\ producer' = [producer EXCEPT ![r] = "idle"]
  /\ IF disposed THEN UNCHANGED port ELSE Post(Frame("data", r, added[r]))
  /\ UNCHANGED <<dartVars, sessionVars, runtimeVars, request, sink, added, muted>>

\* The item cannot be encoded: post_err_locked closes the sink.
AddFails(r) ==
  /\ producer[r] = "adding"
  /\ sink' = [sink EXCEPT ![r] = "closed"]
  /\ producer' = [producer EXCEPT ![r] = IF disposed THEN "idle" ELSE "failing"]
  /\ UNCHANGED <<dartVars, port, sessionVars, runtimeVars, request, added, muted>>

\* Mutation of EndLooks: end() and error() do not take the mutex.
EndLooksUnlocked(r) ==
  /\ sink[r] = "open"
  /\ sink' = [sink EXCEPT ![r] = "closed"]
  /\ \E how \in {"ending", "failing"} :
       producer' = [producer EXCEPT ![r] = IF disposed THEN "idle" ELSE how]
  /\ UNCHANGED <<dartVars, port, sessionVars, runtimeVars, request, added, muted>>

\* end() and error(): closed first, then nothing more if the session is dead.
EndLooks(r) ==
  /\ SinkFree(r)
  /\ sink' = [sink EXCEPT ![r] = "closed"]
  /\ \E how \in {"ending", "failing"} :
       producer' = [producer EXCEPT ![r] = IF disposed THEN "idle" ELSE how]
  /\ UNCHANGED <<dartVars, port, sessionVars, runtimeVars, request, added, muted>>

\* The last frame is posted ...
EndPosts(r) ==
  /\ producer[r] \in {"ending", "failing"}
  /\ IF disposed THEN UNCHANGED port
     ELSE Post(Frame(IF producer[r] = "ending" THEN "end" ELSE "streamErr", r, 0))
  /\ producer' = [producer EXCEPT ![r] = "erasing"]
  /\ UNCHANGED <<dartVars, sessionVars, runtimeVars, request, sink, added, muted>>

\* Mutation of EndErases: set_stream_open(id, false) is left out.
EndForgets(r) ==
  /\ producer[r] = "erasing"
  /\ producer' = [producer EXCEPT ![r] = "idle"]
  /\ UNCHANGED <<dartVars, port, sessionVars, runtimeVars, request, sink, added, muted>>

\* ... and the stream's id is erased.
EndErases(r) ==
  /\ producer[r] = "erasing"
  /\ producer' = [producer EXCEPT ![r] = "idle"]
  /\ streamsOpen' = streamsOpen \ {r}
  /\ UNCHANGED <<dartVars, port, registered, disposed, stuck, runtimeVars, request, sink,
                 added, muted>>

-----------------------------------------------------------------------------
(* _onMessage: the isolate handles the next frame.  A Future that completes   *)
(* runs its continuation before the next frame: invokeAsyncMethodWithStream   *)
(* forgets the stream there.                                                  *)

\* Completes the Future of r if its Completer is still registered.
Answers(r, how) ==
  /\ pending' = pending \ {r}
  /\ future' = IF r \in pending THEN [future EXCEPT ![r] = how] ELSE future

\* Takes the controller of r out of _streams and closes it.
EndsStream(r, how) ==
  /\ streams' = streams \ {r}
  /\ listener' = IF r \in streams THEN [listener EXCEPT ![r] = how] ELSE listener

OnOk(f) ==
  /\ f.type = "ok"
  /\ Answers(f.req, "value")
  /\ streams' = IF f.req \in pending THEN streams \ {f.req} ELSE streams
  /\ UNCHANGED <<listener, heard>>

OnErr(f) ==
  /\ f.type = "err"
  /\ Answers(f.req, "error")
  /\ EndsStream(f.req, "failed")
  /\ UNCHANGED heard

OnData(f) ==
  /\ f.type = "data"
  /\ heard' = IF f.req \in streams THEN [heard EXCEPT ![f.req] = Append(@, f.item)]
              ELSE heard
  /\ UNCHANGED <<pending, future, streams, listener>>

\* An item that cannot be decoded fails whatever waits under its request id.
OnMalformed(f) ==
  /\ f.type = "data" /\ f.req \in streams
  /\ Answers(f.req, "error")
  /\ EndsStream(f.req, "failed")
  /\ UNCHANGED heard

OnEnd(f) ==
  /\ f.type \in {"end", "streamErr"}
  /\ EndsStream(f.req, IF f.type = "end" THEN "ended" ELSE "failed")
  /\ UNCHANGED <<pending, future, heard>>

OnMessage ==
  /\ bridge = "open" /\ port # <<>>
  /\ port' = Tail(port)
  /\ LET f == Head(port) IN OnOk(f) \/ OnErr(f) \/ OnData(f) \/ OnMalformed(f) \/ OnEnd(f)
  /\ UNCHANGED <<kind, bridge, cancelled, sessionVars, runtimeVars, request, sinkVars, muted>>

-----------------------------------------------------------------------------
(* Another isolate calls dcb_shutdown.                                       *)

\* close_all() takes every session ...
ShutBegins ==
  /\ shut = "no"
  /\ shut' = IF registered THEN "disposing" ELSE "stopping"
  /\ registered' = FALSE
  /\ UNCHANGED <<dartVars, port, disposed, streamsOpen, stuck, running, request, sinkVars, muted>>

\* ... disposes it under its mutex ...
ShutDisposes ==
  /\ shut = "disposing" /\ ~stuck
  /\ shut' = "stopping"
  /\ disposed' = TRUE
  /\ UNCHANGED <<dartVars, port, registered, streamsOpen, stuck, running, request, sinkVars, muted>>

\* ... and the post function is unset and the runtime stopped: what is still
\* queued does not run.
ShutStops ==
  /\ shut = "stopping"
  /\ shut' = "stopped"
  /\ running' = FALSE
  /\ UNCHANGED <<dartVars, port, sessionVars, request, sinkVars, muted>>

ShutStep == ShutDisposes \/ ShutStops

-----------------------------------------------------------------------------
IoStep(r) == Dispatch(r) \/ ReplyLooks(r) \/ ReplyPosts(r)
SinkStep(r) == AddPosts(r) \/ AddFails(r) \/ EndPosts(r) \/ EndErases(r)

Next ==
  \/ \E r \in Requests :
       \/ Invoke(r) \/ Cancel(r) \/ IoStep(r) \/ SinkStep(r)
       \/ AddRefused(r) \/ AddLooks(r) \/ EndLooks(r)
  \/ DartDisposes \/ DartCloses \/ OnMessage
  \/ ShutBegins \/ ShutStep

Spec == Init /\ [][Next]_vars

\* The isolate's event loop, the io thread and a thread inside a sink go on,
\* and coroutines complete.  Nobody has to call, add, end, cancel or close.
FairSpec ==
  /\ Spec
  /\ WF_vars(OnMessage) /\ WF_vars(DartCloses) /\ WF_vars(ShutStep)
  /\ \A r \in Requests : WF_vars(IoStep(r)) /\ WF_vars(SinkStep(r))

-----------------------------------------------------------------------------
(* Properties.                                                              *)

\* Types.
TypeOK ==
  /\ kind \in [Requests -> Kinds \cup {"none"}]
  /\ bridge \in {"open", "closing", "closed"}
  /\ pending \subseteq Requests /\ streams \subseteq Requests
  /\ cancelled \subseteq Requests /\ muted \subseteq Requests
  /\ future \in [Requests -> {"none", "open", "value", "error"}]
  /\ listener \in [Requests -> {"none", "listening", "cancelled", "ended", "failed", "closed"}]
  /\ heard \in [Requests -> Seq(1..Items)]
  /\ port \in Seq([type : {"ok", "err", "data", "end", "streamErr"}, req : Requests,
                   item : 0..Items])
  /\ registered \in BOOLEAN /\ disposed \in BOOLEAN
  /\ streamsOpen \subseteq Requests
  /\ stuck \in BOOLEAN /\ running \in BOOLEAN
  /\ shut \in {"no", "disposing", "stopping", "stopped"}
  /\ request \in [Requests -> {"new", "ignored", "queued", "dropped", "locking", "running",
                               "replying", "done"}]
  /\ sink \in [Requests -> {"none", "open", "closed"}]
  /\ producer \in [Requests -> {"idle", "adding", "ending", "failing", "erasing"}]
  /\ added \in [Requests -> 0..Items]

\* The answer of r is on its way through the port.
AnswerComes(r) ==
  \E i \in DOMAIN port : port[i].req = r /\ port[i].type \in {"ok", "err"}

\* As long as nobody shuts the runtime down, a Future that waits has a request
\* that the native side still works on, or an answer in the port: dispatch and
\* dispose() race for the session, but no request falls between them.
NoRequestIsLost ==
  shut = "no" => \A r \in pending :
    request[r] \in {"queued", "locking", "running", "replying"} \/ AnswerComes(r)

\* A listener hears the items in the order of the add() calls without a gap,
\* and an end only after all of them, whatever threads share the sink.
StreamsAreFaithful ==
  \A r \in Requests :
    /\ heard[r] = [k \in 1..Len(heard[r]) |-> k]
    /\ listener[r] = "ended" => Len(heard[r]) = added[r]

\* When a sink is closed and idle the session has forgotten its stream, in
\* whichever order Dart and the producers close it.
ClosedSinksAreForgotten ==
  \A r \in Requests :
    sink[r] = "closed" /\ producer[r] = "idle" /\ ~disposed => r \notin streamsOpen

\* Once Dart has closed a stream whose sink exists, no later add() posts an item.
CancelSilencesSinks ==
  [][\A r \in muted : producer[r] = "idle" => producer'[r] # "adding"]_vars

\* Every Future completes if nobody shuts the runtime down and no dispatch
\* registers with its own session.
RequestsAreAnswered ==
  [](shut = "no" /\ ~stuck) => \A r \in Requests : future[r] = "open" ~> future[r] # "open"

\* The same without the last condition: a request whose method creates a C++
\* object is answered too (examples/base_demo/test/ffi_basic_test.dart:29).
ObjectsCanBeCreated ==
  [](shut = "no") => \A r \in Requests : future[r] = "open" ~> future[r] # "open"
=============================================================================
