# dart_cpp_bridge: models, checks and proofs

dart_cpp_bridge binds Dart and Flutter isolates to C++20 code. A Dart isolate
opens a *session* of a process-wide C++ *runtime*; its calls are dispatched on
the runtime's io scheduler, answered by coroutines, and C++ calls back into
Dart, feeds Dart streams, hands out handles to C++ objects and lets plain C
libraries take part through a C ABI. Nearly everything hard about it is
concurrency: isolates, io threads, pool threads and foreign C threads meet in
registries guarded by small mutexes, and almost every operation can be
overtaken by a close, a cancel or a shutdown.

This directory holds TLA+ models of those parts, the TLC configurations that
check them on small instances and TLAPS proofs for all instances.

## 1. Inventory

Paths are relative to `src/`; `include/` is
`dart/native/include/dart_cpp_bridge/`, `native/` is `dart/native/src/`.

| Component | State | Operations | Talks to |
|---|---|---|---|
| `co::mpsc` (`include/channel.hpp` 374-1370) | ring or queue, wait list of parked sends, the parked receive, closed flag, atomic count, sender count | send (direct, buffered, parked), recv, try_recv, stop callbacks, destruction of parked operations, close, clone, release | any thread; resumes coroutines with the mutex released |
| `co::oneshot` (`include/channel.hpp` 60-370) | status and payload, waiter, detached | send, send_error, close, start of the wait, destruction of the wait | one sender, one receiver |
| async operations of the C bridge (`native/cbridge.cpp` 40-301, `include/cbridge_wait.hpp`) | registry of entries with `receiver_taken`, `completed`, a oneshot channel | create, complete, fail, cancel, async_wait | foreign C threads complete, coroutines wait |
| DartFn calls from C (`native/cbridge.cpp` 90-392) | registry of calls, `completed` flag of each | dcb_invoke_dart_fn, its coroutine, the cancel loop | runtime (accept gate), session (the reply), C callback |
| merged streams (`include/stream.hpp`) | queue, waiters, number of ended sources, error | push, one_done, fail, pop | one driver coroutine per source, one consumer |
| stream combinators (`include/stream_base.hpp`) | locals of coroutines | map, filter, take, zip, ... | one upstream, one consumer |
| runtime (`native/runtime/runtime.cpp` 1-103, `include/runtime.hpp`) | lifecycle, io_context, io threads, pool, post hook | start, stop, try_accept, set_dart_post, post_to_dart, spawn_blocking, sync_wait, sleep | everything |
| sessions (`include/session.hpp`, `native/runtime/runtime.cpp` 105-274) | registry, `disposed_` and generation, pending DartFn replies, open streams | open, close, close_all, dispose, invoke_dart_fn_async, complete_dart_fn, with_alive, try_post | Dart's ReceivePort |
| object handles (`native/runtime/object_handle.cpp`) | a store per session, objects with their DropFns | insert, insert_for_session, get, drop, drop_all | sessions, Dart finalizers |
| FFI entry points (`native/ffi_entry.cpp`) | none of their own | session_open, session_close, shutdown, invoke_sync, invoke_async, stream_close, dart_fn_reply, drop_object | Dart calls them, they call the above |
| StreamSink (`include/stream_sink.hpp`) | closed flag under a mutex | constructor, add, end, error | any thread; the session's port |
| Dart bridge (`dart/lib/src/bridge.dart`) | `_pending`, `_streams`, `_dartFns`, the port | invoke, openStream, onCancel, `_onMessage`, dispose, shutdown | FFI entry points |
| codec (`include/codec.hpp`, `native/dcb_codec.c`, `dart/lib/src/codec.dart`) | a position in a buffer | encode, decode, frames | all messages |
| libuv scheduler and worker (`examples/codegen_demo/native/uv_*.hpp`) | start queue, claims of nodes, timers and work, work in flight | schedule, schedule_after, uv_work, start, stop | one loop thread, libuv's pool |
| code generator, build hook, CLI (`dcb_gen_tool/`, `dart/lib/hook.dart`) | files | parse, generate, build | no concurrency |

What makes these parts correct, in one line each:

- mpsc: an accepted value is delivered once, in order, or is still in the
  channel; no receive sleeps beside a value, no send beside a free slot.
- async operations: one completion counts, its waiter resumes with it, and the
  registry forgets what both sides have used.
- DartFn calls from C: a call that returned 0 gets its callback exactly once.
- merged streams: no value lost or overtaken, an end only after everything.
- runtime: once it is stopped nobody is owed anything.
- sessions and handles: whatever a session owns is let go exactly once, and a
  closed session owns nothing.
- invocation and streams: every Future completes, a listener hears an unbroken
  prefix of what was added, a cancelled stream falls silent.
- codec and glue: what one side writes is what the other reads, in all three
  languages and for every method; a damaged frame is refused, never acted on.
- libuv scheduler: a receiver is completed once and never after a destructor has won
  the claim, a handle is closed once, stop() drains, leaves nothing and returns.

The hard behaviours are listed one by one, at their lines, under `hazards` in
`PROJECT.json`. They are of few kinds: a critical section left between a look
and an act (pop of a merged stream, add of a sink, `dcb_session_open`), two
threads that want to finish the same thing (stop callback against delivery,
reply against dispose, drop against drop_all, cancel loop against coroutine),
objects destroyed while they are parked, and silent early returns that leave
somebody waiting.

## 2. Modules

| Module | Models | Abstract specification | Proofs |
|---|---|---|---|
| `Mpsc` | `co::mpsc` | `ChannelSpec` | `MpscProofs` |
| `AsyncOps` | async operations over `co::oneshot` | `OnceCell` | `AsyncOpsProofs` |
| `MergeQueue` | `merge_concurrent` | | `MergeQueueProofs` |
| `Sessions` | sessions, pending replies, object handles | `OwnedResources` | `SessionsProofs` |
| `Lifecycle` | runtime, session_open, shutdown, `dcb_invoke_dart_fn` | `CallbackSpec` | `LifecycleProofs` |
| `Invocation` | Dart's requests and streams through dispatch and back | | `InvocationProofs` |
| `UvScheduler` | the libuv scheduler and the worker that owns it | | `UvSchedulerProofs` |
| `WireTypes`, `CppFrames`, `DartFrames`, `CCodec` | the wire format: numbers, strings, blobs and frames, as functions on byte sequences | | `WireProofs` |
| `CppCodec`, `DartCodec` | the codecs of whole types, made of these | `WireValues`: the values of each type | `WireProofs` |
| `CodegenDispatch`, `ForeignDispatch`, `MultiDispatch`, `BaseDispatch` | what the native dispatchers of the four example libraries read and run, method by method | | `WireProofs` |
| `CodegenProxies`, `ForeignProxies`, `MultiProxies`, `BaseProxies` | what the Dart proxies of the same methods write and read | | `WireProofs` |
| `WireCalls` | one call at a time from a proxy through a dispatcher and back, with callbacks, streams and damaged requests | | `WireProofs` |

`MCMpsc`, `MCSessions`, `MCLifecycle`, `MCInvocation` and `MCWire` give the
constants that a `.cfg` cannot express. The modules overlap where components meet: the
oneshot channel is inside AsyncOps and MergeQueue; dispose() is in detail in
Sessions, one step in Lifecycle and Invocation; dcb_shutdown is in detail in
Lifecycle and three steps in Invocation.

Common conventions. One action is one critical section, one atomic operation
or one call made with no mutex held; anything may happen between two actions.
`...Pc` variables say where a thread is. A module may hold, just before an
operator, a variant of it with a plausible bug (`RunCancelAlwaysStops` before
`RunCancel`); nothing but the mutants of `PROJECT.json` uses those.

**Mpsc.** An operation's life is `stage` (`init`, `queued`, `claimed`,
`closed`, `stopped`, `gone` as in SendNode/RecvNode::Stage). A step under
`State::mu` arbitrates and puts the completions it owes into a list that its
thread works off later, one `Fire` at a time; so "claimed but not yet resumed"
is a state and other threads, stop callbacks and destructors see it. `Destroy`
is the destructor of a parked operation: the code has detached/unlink handling
for exactly that. A send operation stands for the value it carries. Waiting for
an in-flight stop callback (`stop_reg_.reset()`) is not a step.

**AsyncOps.** A call of complete, fail or cancel goes through `Begin`
(PendingOps::mu), `Settle` (State::mu), `Deliver` (no mutex), `Finish`
(PendingOps::mu). A coroutine takes the receiver, starts to wait, may be
destroyed. Operation ids come from a counter and are never used twice.

**MergeQueue.** Drivers pull, push, end or fail; the consumer pops. A waiter in
the queue is `live` or `dead`: dead when its pop was destroyed. push looks for a
live waiter, one_done does not.

**Sessions.** Opening, closing (by id or all), DartFn registration and reply,
insert_for_session, drop and the finalizer, each split at its mutexes. The
generation changes only together with `disposed_` under `dart_fn_mu_`, so
`alive(gen)` is `~disposed`. Session ids are never reused and a handle carries
its session's id, so the owner of a resource is a constant. DropFns run with no
mutex held and may call anything, so a close may stay in one as long as it
likes. Only insert_for_session is modelled because nothing under `src/`
calls plain insert() with a session that may be closing. Registrations here
come from threads that are not inside a dispatch; what happens inside one is
Invocation's subject.

**Lifecycle.** `dcb_session_open` is start, hook, open; `dcb_shutdown` is
close_all (one session at a time), unhook, and stop() with its cancel loop,
io stop and join. `dcb_invoke_dart_fn` is accepted under the gate; its
coroutine runs on an io thread, of which there are as many as coroutines. What
is left in the io_context when it stops stays queued and runs after the next
start. stop() on an io thread is excluded (it would join itself).

**Invocation.** One isolate: `_pending`, `_streams`, the ReceivePort and, per
request, what the Future and the listener know. A request calls one of four
kinds of method: one that answers by a coroutine (`call`), one that registers
an object or a DartFn call while it is dispatched (`inline`), one that only
feeds a stream (`stream`), one that answers and reports progress (`progress`).
The gate and the registry lookup of `dcb_invoke_async` are one step, since each
order of the two equals an atomic one. The io scheduler has its default single
thread, so a dispatch that blocks blocks everything queued there. `onCancel`
may also run after the controller was closed, as the Dart SDK does. The
controller of a progress stream belongs to the user and has no onCancel. A
closed port drops what is queued in it. Another isolate may call
`dcb_shutdown`; starting the runtime again is Lifecycle's subject. The second
lock of `dart_fn_mu_` in one thread is undefined behaviour, so the model takes
every outcome a build can produce: to block for ever (glibc), an exception, or
to be let in.

**UvScheduler.** `codegen_demo`'s `uv_scheduler.hpp` and `uv_worker.hpp`
(`foreign_runtime_demo` has a copy without the second wake-up). Operations are
hops (`schedule`), timers (`schedule_after`) and work (`uv_work`); `start` says
how far the thread inside `start()` is, `claim` is the atomic of the node or of
the shared state, `result` what the receiver got. `OnAsync` pops the queue and
claims its hops in the critical section; `RunNode` runs one node of the popped
batch, so stop requests, destructors and the owner's `stop()` come between two
nodes. A callback that wins a claim takes the receiver out and completes it at its
end: in between the completion stands in `owes`, and `LoopCompletes` delivers it,
the next thing the loop thread does. libuv is known by how it is used: `uv_async_send` coalesces into
`pendingWake`, `uv_close` is followed by a close callback, `uv_queue_work` may
fail, `uv_stop` sets a flag and wakes nobody, and a handle closed twice is
`misused`. Reading `async_ready` and calling `uv_async_send` are one step.
Operations destroyed before they complete are in `gone`. An owner destroys one
early only after `start()` has returned. The destructors of timers and work race
for the claim like everybody else: one that wins has dropped the completion
(`Dropped`), one that loses does nothing and the completion that was claimed still
arrives, at the receiver of an operation that is gone. A hop is destroyed early
only while it is queued; after on_async has claimed it that is out of contract
(`uv_scheduler.hpp:175-179`). There is no clock: the code starts every timer with
timeout 0.

**WireTypes, codecs, dispatchers, proxies, WireCalls.** A value is a record of
its type and its content, a frame a sequence of bytes. `CppFrames`, `DartFrames` and
`CCodec` translate the readers and writers of the three languages one by one,
with their bounds checks and their widths; `CppCodec` and `DartCodec` build whole
types out of them. Each dispatcher module is a table with
a row per method: what is read, in the order of the code, how it is run (sync,
async, a stream, a constructor, ...) and what is answered; the proxy module has a
row per method for what Dart writes and reads. The two tables of a library are
translated from different files, which no compiler compares. `WireCalls` takes
one call at a time through both: Dart encodes, the request may be cut at any byte
or carry an unknown id or go through the wrong entry, the dispatcher decodes,
native code calls closures back, feeds a sink (which may outlive a sync call),
returns or throws, and Dart decodes what it gets. Generated code nests closures as
deep as a type goes; the codecs here nest three levels (`Write1`, `Write2`, `Write`),
as deep as any type of the four libraries (`nested_cube`), and so need no recursion.
Which values there are is a constant of `WireCalls` (`Variants`, `Value`): any values of
their types (`Typed`) that take at most `MaxBytes` (2^28) bytes, so that the arguments
of a call fit in a payload. `MCWire` gives every type two, chosen so that they differ
in sign, length and every byte.

## 3. Runs

| Run | Instance | Distinct states | Question |
|---|---|---|---|
| `mpsc_bounded` | 3 sends, 2 receives, ring of 1, symmetry | 820 k | Is the bounded channel one FIFO line that loses nothing, and the end its end? |
| `mpsc_rendezvous` | 2 sends, 1 receive, capacity 0, 2 handles | 16 k | Do close and the last handle release everybody? |
| `async_ops` | 2 operations, 2 calls, 2 coroutines | 73 k | Is every operation a write-once cell with one reader? |
| `merge_queue` | 2 sources of 2 values that may fail, 2 destroyed pops | 35 k | Does the merge lose, reorder or end early? |
| `merge_abandoned_hangs` | 2 sources of 1 value, 1 destroyed pop | violation | Does it end after a pop was destroyed? |
| `sessions` | 2 sessions, 1 call, 1 object, 2 closers, 2 droppers | 27 k | Is everything let go exactly once? |
| `lifecycle` | 2 sessions, 2 calls, 1 thread that shuts down for ever | 104 k | Is every accepted call called back? |
| `invocation` | 2 requests, 2 items | 240 k | Does every Future complete, do streams keep their promise? |
| `invocation_locks_twice` | the same | violation | Also when the dispatch registers an object? |
| `uv` | a hop, a timer and a piece of work, all of which may be destroyed early | 376 k | Does every receiver complete once, and stop() drain, clean up and return? |
| `uv_start_races_completion` | one hop | violation | Does nobody touch an operation that its parent has destroyed? |
| `wire` | every method of four libraries, two values per type, requests cut after 0 to 40 bytes | 96 k | Do proxies, codecs and dispatchers agree, and is damage answered? |

Why the bounds are enough. The interesting cases need two contenders and one
more to be overtaken: three sends and two receives over one slot give a full
ring with a parked send and one behind it, and a receive parked beside one that
is being completed; two closers and two droppers give close against close,
close against close_all, drop against drop and drop against drop_all; two calls
in Lifecycle are one in the cancel loop beside one being accepted. Values carry
no data, so more of them add no behaviour. Lifecycle has one thread that shuts
down and its theorems cover any number of them. In Invocation one request
answers while the other feeds a stream; two requests share the port, the io
thread and the session's mutex, which is all they can share; two items are the
least that can be swapped or lost in the middle. On the libuv loop operations of
one kind share nothing but the queue, so one of each kind gives every pair of
nodes, and a timer alone brings two nodes, a callback and a close callback; the
proofs cover any number. On the wire 40 bytes are more than any
sample request is long, so every cut of every request is tried, and one closure
call and one stream item per call (`MaxItems`) suffice because they are encoded
one by one.

The bounded quantities are named: `MaxSenders` (handles alive at once),
`Items` (values per source or sink), `MaxAbandons` (destroyed pops), `Cuts`
(lengths a request is cut to), `MaxItems` (items of a sink on the wire); all other
sets are finite sets of operations that each run once. `MaxBytes` is an assumption about
values, not a bound of the run.

`CHECK_DEADLOCK FALSE` is set wherever the operations of an instance run out; that
nobody waits for ever is stated by the liveness properties there. `wire` makes one
call after the other and is checked for deadlock.

### Properties

Safety: no lost wake-up (`ParkedReceiveHasNothing`, `ParkedSendsFindItFull`,
`ParkedPopIsReachable`), exactly once (`CompletesOnce`, `CallHasOneHolder`,
`ObjectHasOneHolder`, `HandlesCloseOnce`), nothing lost or out of order
(`AcceptedIsKept`, `EndIsFinal`, `EveryValueInItsPlace`, `EndMeansComplete`,
`StreamsAreFaithful`, `NoRequestIsLost`), nothing left behind or freed too early
(`EntryOutlivesBothSides`, `NothingLeaks`, `NothingLeftBehind`,
`StoredObjectsAreReachable`, `ClosedSinksAreForgotten`, `QueuedHopsAreAlive`,
`WorkDrainsBeforeStop`, `StopLeavesNothing`), both ends of the wire agree
(`ArgumentsArrive`, `AnswersArrive`, `CallbacksArrive`, `DamageIsAnswered`), and
the action properties `CancelSilencesSinks` and `CompletionIsFinal`. Refinement:
`IsOneFifoLine`, `IsOnceCell`, `IsOwnership`, `CallbacksAreKept`. Liveness:
`LastSenderEndsReceives`, `CloseReleasesSends`, `WaitEndsAfterCompletion`,
`MergedStreamEnds`, `CallsAreAnswered`, `AcceptedCallsFire`,
`RequestsAreAnswered`, `StopReturns`, `StartedOpsComplete`.

`EntryOutlivesBothSides` says that a wait which comes after a completion or a failure
finds its result, and claims nothing of a cancelled operation, for which the header
promises a release that the code does not make (below). `CompletionIsFinal` says that a
receiver is completed once, and never after the operation's destructor has won the
claim. It does not say that the operation exists when its receiver is completed: after
a claim that was won by a stop request or a callback, it may not.

`CompletesOnce` counts exactly: an operation whose arbitration has been decided has
completed or one thread owes it one completion, and any other has none.

Some invariants are stated in the modules and proved, though no run lists them:
`CountIsExact`, `FirstCallWins`, `NobodySleepsOnASettledOp`, `RunningMeansHooked`
and the type invariants.

### Fairness

Weak fairness, per thread, of steps a thread takes by itself once it has
begun: completions owed after a critical section (a thread does not stop in
the middle of send()), the calls of the C bridge, the drivers and the consumer
of a merge, open/close/shutdown once entered, coroutines on io threads while
the io_context runs, the isolate's event loop, and a thread inside a sink.
No operation is obliged to begin: nobody has to call, send, end, cancel, close
or reply, with one exception: Lifecycle and Sessions assume that a Dart closure which
has been called returns, so that Dart answers a frame it has (`WF` of `DartReplies`
and of `ReplyStep`). Without it a DartFn call waits until its session closes, which
is the contract; with it, a call whose frame was posted is answered even if nobody
ever closes the session. A frame that was withheld is never answered by Dart, and
there `CallsAreAnswered` rests on dispose(). A DropFn may run for ever: the fairness of a
closer covers only its own steps. In UvScheduler the loop thread, libuv's pool,
a thread inside start(), a stop callback or a destructor, and the owner once it
has called stop() run on; nobody is obliged to start, to request a stop, or to
stop the worker, and a loop in its poll stays there until something wakes it. The
wire modules state no liveness and assume no fairness.

### Findings

Three places where the code and its own words part, each with a run:

1. `with_alive` dispatches under a non-recursive mutex that the dispatched code
   locks again (`include/session.hpp:46`, `native/ffi_entry.cpp:248`,
   `native/runtime/object_handle.cpp:35`): a Dart call that creates a C++ object
   can block the io thread for ever (`invocation_locks_twice`).
2. The merged stream does not end when its last source spends the wake-up on a
   destroyed pop (`merge_abandoned_hangs`).
3. `start()` of a libuv operation reads its own state after the loop thread may
   have completed it and its parent destroyed it
   (`uv_start_races_completion`).

Noted while reading or modelling, without a run:

- `include/cbridge.h:84-86` says that `dcb_async_cancel` releases the resources of an
  operation that nobody awaits. The code marks the entry completed and erases it only
  if the receiver was taken (`native/cbridge.cpp:75-82`), so it stays until somebody
  awaits it after all. The proof has the fact (`ErasedLast` in `AsyncOpsProofs`), no
  property of a run asks for it.
- An operation that is completed and never awaited stays in the registry as well;
  `NothingLeaks` speaks of those whose receiver was taken.
- `uv_scheduler.hpp:195` says that destroying the operation state of a timer "cancels
  silently". It does only if its destructor wins the claim. After a stop request has
  won it, the cancel node completes the receiver of an operation that may be gone
  (lines 473-487), and so do `on_timer`, `on_close` and `after_work` between their
  claim and their completion (398-404, 417-424, 648-661).
- A session opened while `dcb_shutdown` runs survives it, and a call on it can be
  accepted and left without a callback.
- `foreign_runtime_demo/native/uv_worker.hpp:89` joins the loop thread without the
  second wake-up that codegen_demo's copy explains; without it `StopReturns` fails
  (that is its mutant).
- `schedule_after` starts its timer with timeout 0 (`uv_scheduler.hpp:454`).
- A sync call with a progress stream that fails drops the items it has emitted
  and leaves the user's controller open (`dart/lib/src/bridge.dart:448-455`).
- `registerPersistentDartFn` forgets the old id before the native side has
  replaced its `DartFn` (`bridge.dart:330`).
- The count of living objects is incremented before `insert_for_session`, which
  may throw (`codegen_demo/native/generated/wire_dispatch.cpp:269`).
- spawn_blocking reads the pool outside the start/stop gate
  (`include/runtime.hpp:263`).
- docs-site's streams page says that the bridge does not close an optional
  stream's controller when C++ throws, while `bridge.dart` 196-205 does; it also
  says that an end() after Dart's cancel is dropped, while end() posts without
  asking `stream_open`; a cancel that comes before the dispatch is forgotten
  because the sink's constructor opens the stream again.

## 4. Proofs

All theorems are about any number of operations, sessions, threads and
requests; the assumptions are the named `ASSUME`s of the modules, which say
that the sets of names are disjoint and that bounds are natural numbers, and for
the wire (`WireAssumption`, `ValueAssumption`) that the libraries are among the four
and that a value is one of its type and at most `MaxBytes` long.

| Module | Theorems | Strengthening |
|---|---|---|
| `MpscProofs` | `TypeCorrect`, `NoLostReceive`, `BackpressureOnlyWhenFull`, `CapacityRespected`, `EveryOperationCompletesOnce`, `AcceptedMeansKept`, `EndMeansEmpty`, `NobodyWaitsInVain`, `ImplementsChannelSpec` | `MutexInv`: the conjunction of the first four is inductive once one adds that an operation without a started step is in stage `init`; `HistoryInv`: see below |
| `AsyncOpsProofs` | `AsyncTypes`, `OneCompletionCounts`, `ResumedExactlyOnce`, `NoLostWakeUp`, `RegistryKeepsLiveOps`, `RegistryForgetsFinishedOps`, `BothSidesMeet`, `AsyncOpsImplementOnceCell` | `IInv`: the call that set `completed` is unique and carries what the channel was settled with; a waiter in a call's hands is parked on that call's operation |
| `MergeQueueProofs` | `MergeTypes`, `NothingIsLostOrOvertaken`, `TheEndIsComplete`, `NoPopIsForgotten`, `PatientConsumersAreWoken` | `IInv`: see below |
| `SessionsProofs` | `SessionTypes`, `EveryCallHasOneHolder`, `EveryObjectHasOneHolder`, `ClosedSessionsAreEmpty`, `ObjectsStayReachable`, `EverybodyIsPaid`, `SessionsImplementOwnedResources` | `IInv`: batches of closers are disjoint and out of the registry; a session is disposed in a batch exactly while its closer is past dispose; what a disposed session still holds is in the hands of that closer |
| `LifecycleProofs` | `LifecycleTypes`, `RunningRuntimeReachesDart`, `AcceptedCallsAreCalledBack`, `LifecycleKeepsCallbacks` | `IInv`: at most one thread is inside stop(); whoever won the exchange of `completed` has not fired; a call that returned 0 and has not been called back is in the map, or held by its coroutine or by stop() |
| `InvocationProofs` | `InvocationTypes`, `NoRequestFallsBetween`, `SinksAreForgotten`, `CancelledSinksStaySilent`, `ListenersHearEverything`, `NobodyWaitsForALostFrame` | `IInv` and `StreamInv`: see below |
| `UvSchedulerProofs` | `SchedulerTypes`, `HopsAreAlive`, `HandlesAreClosedOnce`, `WorkIsDrained`, `StopIsComplete`, `EachCompletesOnce`, `NobodyIsEverStuck` | `IInv` and `OwnerInv`: see below |
| `WireProofs` | about bytes: `FramesCross`, `CutFramesAreRefused`, `ParsersAgree`, `NumbersCross`, `StringsCross`, `CutStringsAreRefused`, `ValuesCross`, `CutValuesAreRefused`, `ArgumentsCross`; about calls: `CallsSound`, `ArgumentsArriveAlways`, `AnswersArriveAlways`, `CallbacksArriveAlways`, `DamageAlwaysAnswered` | `Inv`: see below |

The argument is the same everywhere: the invariant a run checks is not
inductive, because it does not say who is in the middle of what; the
strengthening adds, for every half-finished operation, the thread that holds it
and what that thread may rely on. One lemma per action proves that the action
keeps it, and the refinements follow from the invariant by mapping each action
to one abstract step or to a stutter.

For Mpsc the properties of a history rest on `HistoryInv`, which calls an operation
settled once its arbitration has decided about it. No two owed completions are of one
operation, an owed or completed operation is settled, and nothing owed has completed
(`OnceInv`); the sends told "accepted" are the values taken or buffered, each once
(`KeptInv`). Every step under the mutex comes with the list of completions it owes:
its operations are distinct and were not settled before (`Settles`), it says
"accepted" to exactly the send whose value it adds (`Keeps`), and it says "end" only
of a channel that stays closed and empty (`Ends`). Three lemmas turn these into the
invariant, so each step is only shown to have such a list. The refinement then needs the
invariant for one fact: the value of a send that starts is nowhere in the channel.

For MergeQueue the strengthening follows the one sender whose receiver is still the
consumer's (`WaiterInv`): it is the last of the queue of waiters, or one driver has
chosen it, or its channel has settled, and only while the consumer is parked. While it
is in the queue no value is queued. `PlaceInv` says that the values a driver has let
go of are those that have come out, are being sent or are queued, in the order of
their source; a driver that has chosen the live waiter has nothing of its source in
the queue, because the queue was empty when it chose and it has pushed nothing since,
so sending past the queue overtakes nothing of its own. `EndInv` says that `done`
counts the drivers that have ended, so an empty queue and `done = Total` seen by a
consumer that is not parked mean that every value has come out.

For Invocation the strengthening has three parts. `ItemInv`: an item on its way
has been counted, and the sink whose `add()` is between its checks and its post is
open, since erasing waits for it. `BridgeInv`: while nobody shuts the runtime
down it runs, an open bridge's session is registered and alive, nothing is
pending once the bridge is no longer open, and a pending request has a Future
and has been sent. `SinkInv`: a sink is constructed by the dispatch of its
request, once, so a stream that Dart has muted is not opened again. Each supports
one property: `ItemInv` supports `ClosedSinksAreForgotten` (an `add()` that
returns leaves no closed sink behind), `BridgeInv` supports `NoRequestIsLost`
(otherwise a response could be posted into a dead runtime), `SinkInv` supports
`CancelSilencesSinks`.

`StreamsAreFaithful` needs a fourth, `StreamInv`, stated for one stream at a time. Its
items stand in the port in rising order, below the item that add() holds, and behind
them the end, which only a closed sink posts (`OrderOK`); what comes to a listener that
still listens continues what it has heard without a gap, and reaches the last item
while the sink is live or when its end is in the port (`GapOK`). An item is lost only
with the session, the runtime or an encoding that fails, and after each of these no
end is posted: so a listener that takes an end has taken all items. A step that posts
nothing of a stream is `Calm` for it, and one lemma covers all of these.

For UvScheduler the strengthening says where every unfinished operation is. The
two lists hold a node once (`ListInv`), pushed by an operation of its kind that has
started (`NodeInv`); a claim says what became of the receiver (`ClaimInv`), and a
queued hop is unclaimed, a popped one claimed and uncompleted (`HopInv`), which is
why no freed node runs and no receiver is completed twice. While the init node of a
timer is listed its handle is untouched, and while the loop runs a handle that nobody
has claimed to close is open (`HandleInv`), so the winner of the exchange on
`TimerState::closed` closes an open handle. The counter is the number of works that
are queued, popped, in the pool or before after_work (`CountInv`), so a counter of
zero and an empty queue mean that none is anywhere. `HandsInv` adds that a started
operation without a result is listed, counted, behind an open handle or in
enqueue_cancel; at the end of stop() only the last is left.

Claims and completions are kept together by `OwnerInv`, which stands beside `IInv`. What
the loop thread owes is one completion, of an operation that is claimed and has no
result, and nobody else can complete that one: the claim is a callback's, or the timer's
own close callback made it while no stop callback ever ran (`OwesInv`). An operation in
`gone` was claimed by somebody, and by its destructor if the claim says "cancelled"
(`GoneInv`). So every completion is of a claim that was won by its deliverer, whatever has
become of the operation, which is `EachCompletesOnce`.

### Nobody is left waiting

A liveness property fails for one of two reasons: somebody runs for ever without
getting there, or everything comes to rest and somebody is still waiting. The second
is a matter of safety, it is where a lost wake-up, a reply that met a closing session
or a frame posted to nobody would show, and it is proved for every component. Each
proof module defines `AtRest`: no thread is in the middle of anything, that is, none
of the steps that `FairSpec` obliges is enabled. The theorem says who may still wait
then, and for whom.

| Theorem | At rest | Safety half of |
|---|---|---|
| `NobodyWaitsInVain` | a parked receive has an open, empty channel and a sender alive, a parked send an open, full one; who else began has completed | `LastSenderEndsReceives`, `CloseReleasesSends` |
| `BothSidesMeet` | who awaited a completed operation has resumed with its result, and the registry has forgotten it | `WaitEndsAfterCompletion` |
| `PatientConsumersAreWoken` | (in every state) a pop is not parked, unanswered, after the last source has ended, if none was destroyed while parked | `MergedStreamEnds` |
| `EverybodyIsPaid` | every registered call is answered, every object of a closed session dropped | `CallsAreAnswered` |
| `AcceptedCallsAreCalledBack` | every call that returned 0 has been called back, unless an open has overlapped a shutdown | `AcceptedCallsFire` |
| `NobodyWaitsForALostFrame` | no Future is open and every registered stream has an open sink, unless the runtime was shut down or a dispatch has locked twice | `RequestsAreAnswered` |
| `NobodyIsEverStuck` | stop() has returned or finds an empty queue and a zero counter; every started operation has completed or its destructor has won the claim | `StopReturns`, `StartedOpsComplete` |

`UvScheduler`'s drain loop in `stop()` polls and so is never at rest; its `AtRest`
leaves the loop's own steps out and the theorem says what the loop finds. That the
definition of each `AtRest` is the absence of enabled fair steps rests on reading it
beside `FairSpec` (ENABLED is out of the prover's reach); that rest is reached is the
other half, and TLC's.

What these need beyond the invariants above is where the thing somebody waits for can
be. For Mpsc, that the last handle to go closes the channel (`LastHandleCloses`). For
AsyncOps, that a completed operation has a winner and a taken one an owner
(`MeetingInv`). For MergeQueue, that with no destroyed pop the queue of waiters holds
the live one only (`PatientInv`), so `one_done` cannot spend its wake-up elsewhere. For
Sessions, that a frame is withheld or a reply ignored only if the session is disposed or
on its way (`AnswersInv`). For Lifecycle, that an open session is in the registry or in
the hands of who disposes it (`SessionInv`), that a coroutine which waits is in its
session's table (`RestInv`), and that without an overlap a session in the registry has
a running, hooked runtime, so its frame has reached Dart (`CalmInv`). For Invocation,
that a registered controller has its request queued, an open sink, a closer about to
post, or its end in the port (`EndInv`). For UvScheduler, that whoever pushes a node or
raises the stop flag wakes a loop that polls (`WakeInv`, `LeaveInv`).

### Bytes, for all values

`Invocation` and `Sessions` take a frame for what its sender meant by it. The first part
of `WireProofs` shows that they may, for every payload, request, method and value. It is
about definitions, not behaviours: there is no invariant, and its hypotheses are only
that bytes are bytes, that values are of their types and that a length fits its field.

- `FramesCross`: what one side frames, the other takes apart into the same type, request,
  method and payload, also if the buffer goes on. `CutFramesAreRefused`: a frame cut
  anywhere, header or payload, is refused by both.
- `ParsersAgree`: for every buffer, well-formed or not, `parse_frame` and `parseFrame`
  accept the same frame with the same fields, but for a type Dart does not know. This is
  the one place where the two differ, and `MsgType.from` throws there.
- `NumbersCross`, `StringsCross`, `CutStringsAreRefused`: the same for the numbers (signs
  included), strings and blobs that payloads are made of, also in the C codec, whose
  readers set `error` where the others throw.
- `ValuesCross`, `CutValuesAreRefused`, `ArgumentsCross`: the same for values of every
  type, optionals, vectors, arrays, sets, maps, tuples, classes and enumerators nested up
  to three levels, and for the lists of values that make a payload. Dart reads only the
  types its proxies read (`Received`: no set, map or array, which the proxies only
  write), C++ all.

The proofs rest on one notion, that some bytes stand at a position of a buffer
(`Stands`): it survives appending and, before the cut, cutting; what stands is cut
out whole (`TakeStanding`); and the bytes of a number say the number (`SayLE4`,
`SayLE8`, by division). An unsigned number of 2^31 or more is one value to the model:
`ParsersAgree` covers it as that, the theorems about what was written leave it out.

For whole types a reader and a writer of the parts are assumed to fit each other, and
the reader and writer of the whole are shown to: one lemma for the loops over parts
(the part before which the buffer ends is the first that fails), one for each kind of
container, and the level lemmas apply them three times. A map of many parts needs that
its keys differ (`FirstOfKey` keeps the first of each), a vector that each item has at
least one byte, or a count could be refused that is true.

### Calls, for all tables and values

The second part of `WireProofs` proves the four properties of the run `wire` from one
invariant, `Inv`, for any subset of the libraries, any cuts and any values. `wire` checks
a finite instance of the same module.

It begins with the tables. For every proxy row of a library each dispatcher row of the
same id and entry has the types that the proxy writes and answers what it reads
(`RowServes`, `SyncRow`); the lemmas go through the rows of each library, as TLC does, and
are the only place where methods are named. A row forgotten or a type changed on one side
makes them false.

The invariant then says what each half-finished call is made of.

- `PlacesAgree`, `IdleInv`: which places of the two sides go together, and that nothing
  lasts beyond a call but the closures and the one that `register_dart_fn` holds.
- `CallInv`, `WaitsInv`, `FnsInv`: the call is of a proxy row with values of its types,
  who waits for it is known by its id, and the closures it has passed are known to Dart
  until it is settled. The last is what makes a callback find its wrapper.
- `RequestInv`: the buffer in the native side's hands decodes to the call's row and
  arguments with nothing left over; that of a damaged call is refused, with an id
  somebody waits for.
- `RunInv`, `SinkInv`: a method runs only for an undamaged call, in the row that serves
  it; a sink is open for somebody who listens, or for nobody.
- `PortInv`: every message in the port parses, means what its sender meant and is for
  somebody who waits for it; an answer is the last message and comes when the native
  side has done; one closure at most is called at a time.
- `ReturnedInv`, `ReplyInv`: the same for the answer of a synchronous call and for the
  reply of a closure, which are buffers and not messages.
- `GotInv`: what was decoded last is what was meant. The four properties are parts of it.

`GotInv` alone is not inductive: a step decodes a buffer that an earlier step filled, and
only the other parts say with what. Each step that decodes takes one theorem of the
first part (`ArgumentsCross` for arguments and callbacks, `ValuesCross` for results and
items, `FramesCross` around both) and one fact of the tables, that the reader's types are
the writer's. A damaged request is refused either by the parser (`CutFramesAreRefused`), by
the missing row, or by the readers (`CutValuesAreRefused`); TLC checked `Inv` in all states
of `wire` before it was proved.

### What is only model-checked

Every invariant, action property and refinement that a run checks is proved. The prover
cannot do liveness under fairness or ENABLED: the liveness properties are model-checked,
but for the half described under "Nobody is left waiting". The library's induction
theorems take an operator that the provers cannot instantiate; where a proof needs
induction over positions or items, it takes the least element of a set of
counterexamples instead (`FromZeroOn`).

## 5. What is not modelled

- Stream combinators (`include/stream_base.hpp`) and `start_with_receiver`:
  sequential coroutines over one source and one allocation; what is concurrent in
  them is the merge, which is `MergeQueue`.
- Blocking pool, sync_wait, sleep: stdexec and asio do the work; the one hazard
  of the repository's own code there (the pool read outside the gate) is listed.
- On the wire: calls made one at a time (their interleavings are Invocation's
  subject); objects are two fixed handles, one alive and one dropped, because the
  registry is the subject of Sessions; strings of one-byte characters, so UTF-8 is
  one byte per character; numbers within TLC's 32 bits, with longer words as bytes.
- In UvScheduler: values, the timer's delay, `uv_walk` one handle at a time, and
  the demo APIs that use the scheduler.
- Smoke tests, `worker_runtime.hpp` (a thread, a guard and a join), the hand-written
  native APIs of the examples as far as no dispatcher depends on what they do.
- Code generator, command line, build hook, third-party code: no behaviour over
  time. What the generator emits is modelled through its output for four libraries.

## 6. Plan

Done, in order of importance: Mpsc, AsyncOps, MergeQueue, Sessions, Lifecycle,
Invocation, UvScheduler, the codecs and the glue of four libraries on the wire,
with proofs about all of them.

What would come next:

1. Two calls in flight on the wire, with a registry of objects shared with
   `Sessions`.
2. Combinators as functions against operations on sequences.
