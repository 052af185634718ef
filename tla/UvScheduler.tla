---------------------------- MODULE UvScheduler ----------------------------
(***************************************************************************)
(* A libuv loop as a stdexec scheduler and the worker that owns it         *)
(* (examples/codegen_demo/native/uv_scheduler.hpp and uv_worker.hpp).      *)
(*                                                                         *)
(* Any thread starts operations: hops onto the loop (schedule), timers     *)
(* (schedule_after) and work for libuv's pool (uv_work).  start() pushes a *)
(* node under the mutex and wakes the loop, which pops the whole queue and *)
(* runs the nodes.  Timers are cancelled by stop requests, every operation *)
(* by its destruction; the owner's stop() drains the queue, stops the loop *)
(* and closes what is left.                                                *)
(*                                                                         *)
(* A step is one critical section, one atomic access or one callback of    *)
(* libuv.  The loop itself is known by how it is used: between two         *)
(* callbacks it runs any callback that is ready, sleeps when none is, and  *)
(* leaves uv_run when it sees the stop flag.  A completion's value is left *)
(* out, and so is the delay: every timer is started with timeout 0.        *)
(***************************************************************************)
EXTENDS Integers, Sequences, SequencesExt

CONSTANTS
  Scheds,     \* operations of schedule()
  Timers,     \* operations of schedule_after()
  Works,      \* operations of uv_work()
  Abandoned   \* operations whose owner may destroy them before they complete

Ops == Scheds \cup Timers \cup Works

ASSUME OpsAssumption ==
  /\ Scheds \cap Timers = {} /\ Scheds \cap Works = {} /\ Timers \cap Works = {}
  /\ Abandoned \subseteq Ops

VARIABLES
  start,       \* how far the thread that calls start() is
  claim,       \* StartNode::claim of a hop, TimerState::claim, WorkState::claim
  result,      \* what the receiver has been completed with
  gone,        \* operations destroyed before they were completed
  cancel,      \* how far enqueue_cancel() of a timer is
  queue,       \* head .. tail, guarded by mu
  closed,      \* UvSchedState::closed
  asyncReady,  \* async_ready
  asyncOpen,   \* the uv_async_t has not been given to uv_close
  pendingWake, \* uv_async_send was called since on_async last ran
  inFlight,    \* work_in_flight
  batch,       \* the nodes on_async has popped and not yet run
  owes,        \* the completion a callback of the loop has claimed and not yet delivered
  handle,      \* the uv_timer_t of each timer
  closing,     \* TimerState::closed
  job,         \* the uv_work_t of each uv_work operation
  loop,        \* where the loop thread is
  stopFlag,    \* set by uv_stop
  worker       \* how far the owner's stop() is

opVars == <<start, claim, result>>
queueVars == <<queue, closed, asyncReady, asyncOpen, pendingWake>>
uvVars == <<handle, closing, job>>
loopVars == <<batch, owes, loop, stopFlag>>
vars == <<opVars, cancel, gone, queueVars, inFlight, uvVars, loopVars, worker>>

Node(kind, o) == [kind |-> kind, op |-> o]
Kinds == {"hop", "init", "cancel", "work"}
Nodes == [kind : Kinds, op : Ops]

Unclaimed(o) == claim[o] \in {"queued", "pending"}

\* Operation states are destroyed by their parent as soon as they complete
\* (start_detached), or before by an owner that gives them up.
Alive(o) == result[o] = "none" /\ o \notin gone

\* Destroyed by a destructor that won the claim: nobody is to complete it.
Dropped(o) == o \in gone /\ claim[o] = "cancelled"

Init ==
  /\ start = [o \in Ops |-> "idle"]
  /\ claim = [o \in Ops |-> IF o \in Scheds THEN "queued" ELSE "pending"]
  /\ result = [o \in Ops |-> "none"] /\ gone = {}
  /\ cancel = [o \in Timers |-> "no"]
  /\ queue = <<>> /\ closed = FALSE
  /\ asyncReady = TRUE /\ asyncOpen = TRUE /\ pendingWake = FALSE
  /\ inFlight = 0
  /\ handle = [o \in Timers |-> "none"]
  /\ closing = [o \in Timers |-> FALSE]
  /\ job = [o \in Works |-> "none"]
  /\ batch = <<>> /\ owes = {} /\ loop = "callbacks" /\ stopFlag = FALSE
  /\ worker = "running"

\* set_value, set_stopped or set_error on the receiver; "twice" is a receiver
\* that was moved from before.
Complete(o, r) == result' = [result EXCEPT ![o] = IF @ = "none" THEN r ELSE "twice"]

Claim(o, c) == claim' = [claim EXCEPT ![o] = c]

\* UvSchedState::wake.
Wake == pendingWake' = (pendingWake \/ (asyncReady /\ asyncOpen))

-----------------------------------------------------------------------------
(* start() and what the threads that call it go through.                    *)

\* schedule_after: the TimerState is made and the stop callback registered.
PrepareTimer(o) ==
  /\ o \in Timers /\ start[o] = "idle"
  /\ start' = [start EXCEPT ![o] = "prepared"]
  /\ UNCHANGED <<claim, result, cancel, gone, queueVars, inFlight, uvVars, loopVars, worker>>

StartOpenUncounted(o, kind) ==
  /\ ~closed
  /\ queue' = Append(queue, Node(kind, o))
  /\ start' = [start EXCEPT ![o] = "wake"]
  /\ UNCHANGED <<claim, result, inFlight>>

\* The critical section of start(): the node is pushed, and counted if it is
\* work; a closed loop is answered at once unless somebody has claimed.
StartOpen(o, kind) ==
  /\ ~closed
  /\ queue' = Append(queue, Node(kind, o))
  /\ inFlight' = IF kind = "work" THEN inFlight + 1 ELSE inFlight
  /\ start' = [start EXCEPT ![o] = "wake"]
  /\ UNCHANGED <<claim, result>>

StartClosed(o, c, r) ==
  /\ closed
  /\ start' = [start EXCEPT ![o] = "returned"]
  /\ IF Unclaimed(o) THEN Claim(o, c) /\ Complete(o, r) ELSE UNCHANGED <<claim, result>>
  /\ UNCHANGED <<queue, inFlight>>

Start(o) ==
  /\ \/ /\ o \in Scheds /\ start[o] = "idle"
        /\ StartOpen(o, "hop") \/ StartClosed(o, "cancelled", "stopped")
     \/ /\ o \in Timers /\ start[o] = "prepared"
        /\ StartOpen(o, "init") \/ StartClosed(o, "stopped", "stopped")
     \/ /\ o \in Works /\ start[o] = "idle"
        /\ StartOpen(o, "work") \/ StartClosed(o, "cancelled", "error")
  /\ UNCHANGED <<cancel, gone, closed, asyncReady, asyncOpen, pendingWake, uvVars,
                 loopVars, worker>>

\* st_->wake() at the end of start(), read through the operation state: when
\* that is gone the outcome is open.
StartWake(o) ==
  /\ start[o] = "wake"
  /\ start' = [start EXCEPT ![o] = "returned"]
  /\ Wake \/ (~Alive(o) /\ UNCHANGED pendingWake)
  /\ UNCHANGED <<claim, result, cancel, gone, queue, closed, asyncReady, asyncOpen, inFlight,
                 uvVars, loopVars, worker>>

-----------------------------------------------------------------------------
(* Cancellation: on_stop of a timer, and the destructors.                   *)

\* A stop request, from any thread, as soon as the callback is registered.
OnStop(o) ==
  /\ o \in Timers /\ start[o] # "idle"
  /\ Unclaimed(o)
  /\ Claim(o, "stopped")
  /\ cancel' = [cancel EXCEPT ![o] = "enqueue"]
  /\ UNCHANGED <<start, result, gone, queueVars, inFlight, uvVars, loopVars, worker>>

\* The owner destroys an operation that start() has handed over and that is
\* not completed.
GiveUp(o) ==
  /\ o \in Abandoned /\ start[o] = "returned" /\ Alive(o)
  /\ gone' = gone \cup {o}

\* The destructor of a timer waits for a stop callback that is running, then
\* claims; when somebody has claimed before, it does nothing.
DestroyTimer(o) ==
  /\ o \in Timers /\ GiveUp(o)
  /\ cancel[o] \in {"no", "done"}
  /\ IF Unclaimed(o) THEN Claim(o, "cancelled") /\ cancel' = [cancel EXCEPT ![o] = "enqueue"]
                     ELSE UNCHANGED <<claim, cancel>>
  /\ UNCHANGED <<start, result, queueVars, inFlight, uvVars, loopVars, worker>>

\* The critical section of enqueue_cancel; a closed loop gets no node and the
\* receiver of a stopped timer is completed here.
EnqueueCancel(o) ==
  /\ o \in Timers /\ cancel[o] = "enqueue"
  /\ \/ /\ ~closed
        /\ queue' = Append(queue, Node("cancel", o))
        /\ cancel' = [cancel EXCEPT ![o] = "wake"]
        /\ UNCHANGED result
     \/ /\ closed
        /\ cancel' = [cancel EXCEPT ![o] = "done"]
        /\ IF claim[o] = "stopped" /\ result[o] = "none"
             THEN Complete(o, "stopped") ELSE UNCHANGED result
        /\ UNCHANGED queue
  /\ UNCHANGED <<start, claim, gone, closed, asyncReady, asyncOpen, pendingWake, inFlight,
                 uvVars, loopVars, worker>>

CancelWake(o) ==
  /\ o \in Timers /\ cancel[o] = "wake"
  /\ cancel' = [cancel EXCEPT ![o] = "done"]
  /\ Wake
  /\ UNCHANGED <<opVars, gone, queue, closed, asyncReady, asyncOpen, inFlight, uvVars, loopVars,
                 worker>>

DestroyHopLinked(o) ==
  /\ o \in Scheds /\ GiveUp(o)
  /\ Unclaimed(o)
  /\ Claim(o, "cancelled")
  /\ UNCHANGED <<start, result, cancel, queueVars, inFlight, uvVars, loopVars, worker>>

\* The destructor of a hop that is still queued unlinks the node.  A hop that
\* on_async has claimed must not be destroyed: schedule() asks that of owners.
DestroyHop(o) ==
  /\ o \in Scheds /\ GiveUp(o)
  /\ Unclaimed(o)
  /\ Claim(o, "cancelled")
  /\ \E i \in 1 .. Len(queue) : queue[i] = Node("hop", o) /\ queue' = RemoveAt(queue, i)
  /\ UNCHANGED <<start, result, cancel, closed, asyncReady, asyncOpen, pendingWake, inFlight,
                 uvVars, loopVars, worker>>

\* The destructor of work: the result will be dropped, unless it has been
\* claimed already.
DestroyWork(o) ==
  /\ o \in Works /\ GiveUp(o)
  /\ IF Unclaimed(o) THEN Claim(o, "cancelled") ELSE UNCHANGED claim
  /\ UNCHANGED <<start, result, cancel, queueVars, inFlight, uvVars, loopVars, worker>>

-----------------------------------------------------------------------------
(* The loop thread.  Close callbacks and after_work also run in the second  *)
(* uv_run, on the thread that stops the worker.                             *)

\* A thread that owes a completion delivers it before it does anything else.
AtCallbacks == loop = "callbacks" /\ owes = {}
LoopRuns == (loop = "callbacks" \/ worker = "closing") /\ owes = {}

\* A callback claims what nobody has claimed, and takes the receiver out.
ClaimToComplete(o, c, r) ==
  IF Unclaimed(o) THEN Claim(o, c) /\ owes' = {[op |-> o, res |-> r]}
                  ELSE UNCHANGED <<claim, owes>>

\* set_value, set_stopped or set_error, at the end of the callback: whatever
\* the owner has done to the operation since the claim.
LoopCompletes ==
  \E c \in owes :
    /\ Complete(c.op, c.res) /\ owes' = owes \ {c}
    /\ UNCHANGED <<start, claim, cancel, gone, queueVars, inFlight, uvVars, batch, loop, stopFlag,
                   worker>>

\* on_async: pop the whole queue and claim the hops in it, in one critical
\* section; the other nodes are on the heap and claimed by nobody else.
OnAsync ==
  /\ AtCallbacks /\ pendingWake
  /\ pendingWake' = FALSE
  /\ queue' = <<>>
  /\ batch' = queue
  /\ claim' = [o \in Ops |-> IF claim[o] = "queued" /\ Contains(queue, Node("hop", o))
                             THEN "running" ELSE claim[o]]
  /\ loop' = IF queue = <<>> THEN "callbacks" ELSE "batch"
  /\ UNCHANGED <<start, result, cancel, gone, closed, asyncReady, asyncOpen, inFlight, uvVars,
                 owes, stopFlag, worker>>

\* uv_close of a timer, by whoever wins the exchange of TimerState::closed.
\* "misused" is a handle closed twice, which libuv forbids.
UvClose(h) == IF h \in {"inited", "active"} THEN "closing" ELSE "misused"

CloseOnce(o, h) ==
  /\ closing' = [closing EXCEPT ![o] = TRUE]
  /\ handle' = [handle EXCEPT ![o] = IF closing[o] THEN h ELSE UvClose(h)]

\* A hop that was cancelled before it could be claimed is discarded.
RunHop(o) ==
  /\ IF claim[o] = "running" THEN Complete(o, "value") ELSE UNCHANGED result
  /\ UNCHANGED <<claim, owes, inFlight, uvVars>>

\* TimerInitNode: a timer that was claimed meanwhile is closed unstarted.
RunInit(o) ==
  /\ IF Unclaimed(o)
       THEN handle' = [handle EXCEPT ![o] = "active"] /\ UNCHANGED closing
       ELSE CloseOnce(o, "inited")
  /\ UNCHANGED <<claim, result, owes, inFlight, job>>

RunCancelClosesAgain(o) ==
  /\ IF handle[o] = "none" THEN UNCHANGED handle ELSE handle' = [handle EXCEPT ![o] = UvClose(@)]
  /\ IF claim[o] = "stopped" /\ result[o] = "none"
       THEN Complete(o, "stopped") ELSE UNCHANGED result
  /\ UNCHANGED <<claim, owes, inFlight, closing, job>>

RunCancelAlwaysStops(o) ==
  /\ IF handle[o] = "none" THEN UNCHANGED <<handle, closing>> ELSE CloseOnce(o, handle[o])
  /\ IF result[o] = "none" THEN Complete(o, "stopped") ELSE UNCHANGED result
  /\ UNCHANGED <<claim, owes, inFlight, job>>

RunCancelLeavesItToInit(o) ==
  /\ \/ handle[o] = "none" /\ UNCHANGED <<handle, closing, result>>
     \/ /\ handle[o] # "none" /\ CloseOnce(o, handle[o])
        /\ IF claim[o] = "stopped" /\ result[o] = "none"
             THEN Complete(o, "stopped") ELSE UNCHANGED result
  /\ UNCHANGED <<claim, owes, inFlight, job>>

\* TimerCancelNode: it may overtake the init node, which then closes.
RunCancel(o) ==
  /\ IF handle[o] = "none" THEN UNCHANGED <<handle, closing>> ELSE CloseOnce(o, handle[o])
  /\ IF claim[o] = "stopped" /\ result[o] = "none"
       THEN Complete(o, "stopped") ELSE UNCHANGED result
  /\ UNCHANGED <<claim, owes, inFlight, job>>

\* WorkStartNode: uv_queue_work, which may fail.
RunWork(o) ==
  /\ \/ job' = [job EXCEPT ![o] = "pool"] /\ UNCHANGED <<claim, owes, inFlight>>
     \/ /\ inFlight' = inFlight - 1
        /\ ClaimToComplete(o, "complete", "error")
        /\ UNCHANGED job
  /\ UNCHANGED <<result, handle, closing>>

RunNode ==
  /\ loop = "batch" /\ owes = {}
  /\ LET n == Head(batch) IN
       \/ n.kind = "hop" /\ RunHop(n.op)
       \/ n.kind = "init" /\ RunInit(n.op)
       \/ n.kind = "cancel" /\ RunCancel(n.op)
       \/ n.kind = "work" /\ RunWork(n.op)
  /\ batch' = Tail(batch)
  /\ loop' = IF Tail(batch) = <<>> THEN "callbacks" ELSE "batch"
  /\ UNCHANGED <<start, cancel, gone, queueVars, stopFlag, worker>>

\* TimerState::on_timer: the handle is closed by whoever claimed.
OnTimer(o) ==
  /\ AtCallbacks /\ handle[o] = "active"
  /\ ClaimToComplete(o, "value", "value")
  /\ CloseOnce(o, handle[o])
  /\ UNCHANGED <<start, result, cancel, gone, queueVars, inFlight, job, batch, loop, stopFlag,
                 worker>>

OnCloseForgets(o) ==
  /\ LoopRuns /\ handle[o] = "closing"
  /\ handle' = [handle EXCEPT ![o] = "closed"]
  /\ UNCHANGED <<opVars, cancel, gone, queueVars, inFlight, closing, job, loopVars, worker>>

\* TimerState::on_close: a timer that nobody has claimed is stopped.
OnClose(o) ==
  /\ LoopRuns /\ handle[o] = "closing"
  /\ handle' = [handle EXCEPT ![o] = "closed"]
  /\ ClaimToComplete(o, "stopped", "stopped")
  /\ UNCHANGED <<start, result, cancel, gone, queueVars, inFlight, closing, job, batch, loop,
                 stopFlag, worker>>

\* WorkState::on_work on libuv's pool; fn may throw.
OnWork(o) ==
  /\ job[o] = "pool"
  /\ job' = [job EXCEPT ![o] = "after"]
  /\ UNCHANGED <<opVars, cancel, gone, queueVars, inFlight, handle, closing, loopVars, worker>>

AfterWork(o) ==
  /\ LoopRuns /\ job[o] = "after"
  /\ job' = [job EXCEPT ![o] = "over"]
  /\ inFlight' = inFlight - 1
  /\ \E r \in {"value", "error"} : ClaimToComplete(o, "complete", r)
  /\ UNCHANGED <<start, result, cancel, gone, queueVars, handle, closing, batch, loop, stopFlag,
                 worker>>

\* The loop blocks in its poll: the stop flag was not set when it looked and
\* no callback is ready.
Quiet ==
  /\ ~pendingWake
  /\ \A o \in Timers : handle[o] \notin {"active", "closing"}
  /\ \A o \in Works : job[o] # "after"

Sleep ==
  /\ AtCallbacks /\ ~stopFlag /\ Quiet
  /\ loop' = "polling"
  /\ UNCHANGED <<opVars, cancel, gone, queueVars, inFlight, uvVars, batch, owes, stopFlag,
                 worker>>

Awake ==
  /\ loop = "polling" /\ ~Quiet
  /\ loop' = "callbacks"
  /\ UNCHANGED <<opVars, cancel, gone, queueVars, inFlight, uvVars, batch, owes, stopFlag,
                 worker>>

\* uv_run returns; it clears the flag.
LeaveLoop ==
  /\ AtCallbacks /\ stopFlag
  /\ loop' = "exited" /\ stopFlag' = FALSE
  /\ UNCHANGED <<opVars, cancel, gone, queueVars, inFlight, uvVars, batch, owes, worker>>

-----------------------------------------------------------------------------
(* UvWorker::stop() of the owner.                                           *)

StopClose ==
  /\ worker = "running"
  /\ closed' = TRUE
  /\ worker' = "waking"
  /\ UNCHANGED <<opVars, cancel, gone, queue, asyncReady, asyncOpen, pendingWake, inFlight,
                 uvVars, loopVars>>

StopWake ==
  /\ worker = "waking"
  /\ Wake
  /\ worker' = "draining"
  /\ UNCHANGED <<opVars, cancel, gone, queue, closed, asyncReady, asyncOpen, inFlight, uvVars,
                 loopVars>>

\* The drain loop reads the queue under the mutex, then the counter.
SeeQueueEmpty ==
  /\ worker = "draining" /\ queue = <<>>
  /\ worker' = "counting"
  /\ UNCHANGED <<opVars, cancel, gone, queueVars, inFlight, uvVars, loopVars>>

SeeCounter ==
  /\ worker = "counting"
  /\ worker' = IF inFlight = 0 THEN "drained" ELSE "draining"
  /\ UNCHANGED <<opVars, cancel, gone, queueVars, inFlight, uvVars, loopVars>>

UvStop ==
  /\ worker = "drained"
  /\ stopFlag' = TRUE
  /\ worker' = "flagged"
  /\ UNCHANGED <<opVars, cancel, gone, queueVars, inFlight, uvVars, batch, owes, loop>>

\* foreign_runtime_demo/native/uv_worker.hpp:87-90 joins without this wake-up.
JoinUnwoken ==
  /\ worker = "flagged"
  /\ worker' = "joining"
  /\ UNCHANGED <<opVars, cancel, gone, queueVars, inFlight, uvVars, loopVars>>

\* uv_stop does not wake a loop that already polls, hence the second wake().
WakeAfterStop ==
  /\ worker = "flagged"
  /\ Wake
  /\ worker' = "joining"
  /\ UNCHANGED <<opVars, cancel, gone, queue, closed, asyncReady, asyncOpen, inFlight, uvVars,
                 loopVars>>

\* join(), then uv_walk closes every handle that is not closing already.
JoinAndCloseHandles ==
  /\ worker = "joining" /\ loop = "exited"
  /\ asyncReady' = FALSE /\ asyncOpen' = FALSE
  /\ handle' = [o \in Timers |->
                  IF handle[o] \in {"none", "closing", "closed"} THEN handle[o]
                                                                 ELSE UvClose(handle[o])]
  /\ worker' = "closing"
  /\ UNCHANGED <<opVars, cancel, gone, queue, closed, pendingWake, inFlight, closing, job,
                 loopVars>>

\* The second uv_run returns when no handle or request is left.
CloseLoop ==
  /\ worker = "closing" /\ owes = {}
  /\ \A o \in Timers : handle[o] # "closing"
  /\ \A o \in Works : job[o] \notin {"pool", "after"}
  /\ worker' = "stopped"
  /\ UNCHANGED <<opVars, cancel, gone, queueVars, inFlight, uvVars, loopVars>>

-----------------------------------------------------------------------------
\* A thread that is in the middle of start(), of a stop callback or of a
\* destructor runs on.
StartStep(o) == Start(o) \/ StartWake(o)
CancelStep(o) == EnqueueCancel(o) \/ CancelWake(o)
DestroyStep(o) == DestroyTimer(o) \/ DestroyHop(o) \/ DestroyWork(o)

TimerCallback(o) == OnTimer(o) \/ OnClose(o)
LoopStep ==
  \/ OnAsync \/ RunNode \/ LoopCompletes \/ Awake \/ LeaveLoop
  \/ \E o \in Timers : TimerCallback(o)
  \/ \E o \in Works : AfterWork(o)

StopStep == StopWake \/ SeeQueueEmpty \/ SeeCounter \/ UvStop \/ WakeAfterStop
            \/ JoinAndCloseHandles \/ CloseLoop

Next ==
  \/ \E o \in Ops : PrepareTimer(o) \/ StartStep(o) \/ OnStop(o) \/ CancelStep(o)
                    \/ DestroyStep(o)
  \/ LoopStep \/ Sleep
  \/ \E o \in Works : OnWork(o)
  \/ StopClose \/ StopStep

Spec == Init /\ [][Next]_vars

\* Threads run: those inside start(), a stop callback or a destructor, the
\* loop's, the pool's, and the owner's once it has called stop().
Fairness ==
  /\ \A o \in Ops : WF_vars(start[o] # "idle" /\ StartStep(o)) /\ WF_vars(CancelStep(o))
  /\ \A o \in Works : WF_vars(OnWork(o))
  /\ WF_vars(OnAsync) /\ WF_vars(RunNode) /\ WF_vars(LoopCompletes)
  /\ WF_vars(Awake) /\ WF_vars(LeaveLoop)
  /\ \A o \in Timers : WF_vars(TimerCallback(o))
  /\ \A o \in Works : WF_vars(AfterWork(o))
  /\ WF_vars(StopStep)

FairSpec == Spec /\ Fairness

-----------------------------------------------------------------------------
(* Properties.                                                             *)

\* Types of the shared state, of the operations and of libuv's handles.
TypeOK ==
  /\ start \in [Ops -> {"idle", "prepared", "wake", "returned"}]
  /\ claim \in [Ops -> {"queued", "running", "pending", "value", "stopped", "complete",
                        "cancelled"}]
  /\ result \in [Ops -> {"none", "value", "stopped", "error", "twice"}]
  /\ cancel \in [Timers -> {"no", "enqueue", "wake", "done"}]
  /\ gone \subseteq Ops
  /\ queue \in Seq(Nodes) /\ batch \in Seq(Nodes)
  /\ owes \subseteq [op : Ops, res : {"value", "stopped", "error"}]
  /\ closed \in BOOLEAN /\ asyncReady \in BOOLEAN /\ asyncOpen \in BOOLEAN
  /\ pendingWake \in BOOLEAN /\ stopFlag \in BOOLEAN
  /\ inFlight \in Int
  /\ handle \in [Timers -> {"none", "inited", "active", "closing", "closed", "misused"}]
  /\ closing \in [Timers -> BOOLEAN]
  /\ job \in [Works -> {"none", "pool", "after", "over"}]
  /\ loop \in {"callbacks", "batch", "polling", "exited"}
  /\ worker \in {"running", "waking", "draining", "counting", "drained", "flagged", "joining",
                 "closing", "stopped"}

\* The timer, the stop request, the destructor, the pool, a closed loop and
\* the teardown race for one receiver: it is completed once, and never after
\* a destructor has won the claim ("destroying the operation state cancels
\* silently").  A destructor that comes after the claim of a stop request or
\* of a callback changes nothing: that completion still arrives, and this
\* property does not say that the operation then exists.
CompletionIsFinal ==
  [][\A o \in Ops : result'[o] # result[o] => result[o] = "none" /\ ~Dropped(o)]_vars

\* What the loop will run, or runs, is not a hop whose operation is gone (the
\* node is part of it), and nothing marks a node that is still queued: the
\* comment at on_discarded calls that branch unreachable.
QueuedHopsAreAlive ==
  /\ \A i \in DOMAIN queue :
       queue[i].kind = "hop" => Alive(queue[i].op) /\ claim[queue[i].op] = "queued"
  /\ \A i \in DOMAIN batch :
       batch[i].kind = "hop" => Alive(batch[i].op) /\ claim[batch[i].op] = "running"

\* A timer's handle is given to uv_close once, though init node, callback,
\* cancel node and uv_walk all do it, in any order, and only after uv_timer_init.
HandlesCloseOnce == \A o \in Timers : handle[o] # "misused"

Queued(kind, o) == Contains(queue, Node(kind, o)) \/ Contains(batch, Node(kind, o))

\* Once stop() has seen the queue empty and the counter at zero, no work is
\* in the queue, in a popped batch, in the pool or before its after_work:
\* "closing a loop with an in-flight request is illegal".
WorkDrainsBeforeStop ==
  worker \in {"drained", "flagged", "joining", "closing", "stopped"} =>
    /\ inFlight = 0
    /\ \A o \in Works : ~Queued("work", o) /\ job[o] \notin {"pool", "after"}

\* When stop() returns the loop holds no node and no open handle, and every
\* operation whose start() took effect has completed, unless its destructor
\* won the claim or a stop callback is just about to complete it.
StopLeavesNothing ==
  worker = "stopped" =>
    /\ queue = <<>> /\ batch = <<>>
    /\ \A o \in Timers : handle[o] \in {"none", "closed"}
    /\ \A o \in Ops : \/ start[o] \in {"idle", "prepared"}
                      \/ result[o] # "none" \/ Dropped(o)
                      \/ o \in Timers /\ cancel[o] = "enqueue"

\* stop() comes back, wherever the loop is when it is called.
StopReturns == worker = "waking" ~> worker = "stopped"

\* A started operation is completed, or its destructor won the claim, whether
\* the worker runs or stops and whenever a stop request comes.
StartedOpsComplete ==
  \A o \in Ops : start[o] = "wake" ~> result[o] # "none" \/ Dropped(o)

\* uv_scheduler.hpp:102-103: an operation state "must NOT be touched after
\* run() returns (the parent may be destroyed ...)": nobody still reads one
\* that is gone, the thread inside start() included.
NobodyTouchesTheDead == \A o \in Ops : start[o] = "wake" => Alive(o)
=============================================================================
