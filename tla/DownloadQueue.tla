--------------------------- MODULE DownloadQueue ---------------------------
(***************************************************************************)
(* The bounded first-come-first-serve queue of queue.rs: submissions in    *)
(* one unbounded FIFO channel, MaxActive worker tasks sharing its receiver *)
(* behind a mutex, and the two bounded event channels a queued download's  *)
(* progress crosses (download task to worker, worker to QueuedHandle).     *)
(*                                                                         *)
(* Jobs are numbered in submission order.  An event has no content, so a   *)
(* channel is the number of events in it; how a download produces them is  *)
(* module Scheduler, here a task emits Events of them and ends.            *)
(***************************************************************************)
EXTENDS Naturals, Sequences, FiniteSets

CONSTANTS
  Worker,      \* the worker tasks; max_active is their number
  Submissions,        \* bound of the model: downloads submitted
  Events,      \* bound of the model: events a download emits
  EventCap     \* capacity of either event channel (256 in the code)

NoWorker == "none"

ASSUME QueueAssumption ==
  /\ IsFiniteSet(Worker)
  /\ Worker # {}
  /\ NoWorker \notin Worker
  /\ Submissions \in Nat
  /\ Events \in Nat
  /\ EventCap \in Nat \ {0}

Ticket == 1..Submissions
MaxActive == Cardinality(Worker)

VARIABLES
  submitted,   \* how many jobs were submitted: they are 1..submitted
  queue,       \* the submission channel
  dropped,     \* the DownloadQueue, and with it the only sender, is gone
  lock,        \* the worker that holds the mutex of submit_rx
  workerAt,    \* where each worker is in its loop and in run_job
  job,         \* the job each worker works on, 0 for none
  task,        \* the download task of each job
  emitted,     \* events the task has emitted
  inner,       \* events between the task and the worker
  outer,       \* events between the worker and the QueuedHandle
  caller,      \* what the caller does with its QueuedHandle
  delivered       \* jobs whose terminal result was sent

queueVars == <<submitted, queue, dropped, lock, workerAt, job, task, emitted,
               inner, outer, caller, delivered>>

channelVars == <<submitted, queue, dropped>>
eventVars == <<emitted, inner, outer>>

-----------------------------------------------------------------------------
QueueInit ==
  /\ submitted = 0
  /\ queue = <<>>
  /\ dropped = FALSE
  /\ lock = NoWorker
  /\ workerAt = [w \in Worker |-> "lock"]
  /\ job = [w \in Worker |-> 0]
  /\ task = [j \in Ticket |-> "none"]
  /\ emitted = [j \in Ticket |-> 0]
  /\ inner = [j \in Ticket |-> 0]
  /\ outer = [j \in Ticket |-> 0]
  /\ caller = [j \in Ticket |-> "none"]
  /\ delivered = {}

MoveTo(w, label) == workerAt' = [workerAt EXCEPT ![w] = label]

(* submit never blocks.                                                    *)
Submit ==
  /\ ~dropped
  /\ submitted < Submissions
  /\ submitted' = submitted + 1
  /\ queue' = Append(queue, submitted')
  /\ caller' = [caller EXCEPT ![submitted'] = "open"]
  /\ UNCHANGED <<dropped, lock, workerAt, job, task, eventVars, delivered>>

DropQueue ==
  /\ ~dropped
  /\ dropped' = TRUE
  /\ UNCHANGED <<submitted, queue, lock, workerAt, job, task, eventVars, caller,
                 delivered>>

(* Mutants: the newest submission is taken first; a worker exits although  *)
(* jobs are queued.                                                        *)
RecvNewest(w) ==
  /\ workerAt[w] = "recv"
  /\ queue # <<>>
  /\ job' = [job EXCEPT ![w] = queue[Len(queue)]]
  /\ queue' = SubSeq(queue, 1, Len(queue) - 1)
  /\ lock' = NoWorker
  /\ MoveTo(w, "start")
  /\ UNCHANGED <<submitted, dropped, task, eventVars, caller, delivered>>

RecvAborts(w) ==
  /\ workerAt[w] = "recv"
  /\ dropped
  /\ lock' = NoWorker
  /\ MoveTo(w, "exited")
  /\ UNCHANGED <<channelVars, job, task, eventVars, caller, delivered>>

(* The worker loop: recv runs with the mutex held, which is released once  *)
(* it returns.  A closed channel is drained first.                         *)
LockReceiver(w) ==
  /\ workerAt[w] = "lock"
  /\ lock = NoWorker
  /\ lock' = w
  /\ MoveTo(w, "recv")
  /\ UNCHANGED <<channelVars, job, task, eventVars, caller, delivered>>

Recv(w) ==
  /\ workerAt[w] = "recv"
  /\ queue # <<>>
  /\ job' = [job EXCEPT ![w] = Head(queue)]
  /\ queue' = Tail(queue)
  /\ lock' = NoWorker
  /\ MoveTo(w, "start")
  /\ UNCHANGED <<submitted, dropped, task, eventVars, caller, delivered>>

RecvClosed(w) ==
  /\ workerAt[w] = "recv"
  /\ queue = <<>>
  /\ dropped
  /\ lock' = NoWorker
  /\ MoveTo(w, "exited")
  /\ UNCHANGED <<channelVars, job, task, eventVars, caller, delivered>>

(* run_job: start the download, then forward its events until its stream   *)
(* closes or the caller's end is gone, then join it.                       *)
Start(w) ==
  /\ workerAt[w] = "start"
  /\ task' = [task EXCEPT ![job[w]] = "running"]
  /\ MoveTo(w, "forward")
  /\ UNCHANGED <<channelVars, lock, job, eventVars, caller, delivered>>

NextEvent(w) ==
  /\ workerAt[w] = "forward"
  /\ inner[job[w]] > 0
  /\ inner' = [inner EXCEPT ![job[w]] = @ - 1]
  /\ MoveTo(w, "send")
  /\ UNCHANGED <<channelVars, lock, job, task, emitted, outer,
                 caller, delivered>>

StreamClosed(w) ==
  /\ workerAt[w] = "forward"
  /\ inner[job[w]] = 0
  /\ task[job[w]] = "ended"
  /\ MoveTo(w, "join")
  /\ UNCHANGED <<channelVars, lock, job, task, eventVars, caller, delivered>>

SendEvent(w) ==
  /\ workerAt[w] = "send"
  /\ caller[job[w]] # "gone"
  /\ outer[job[w]] < EventCap
  /\ outer' = [outer EXCEPT ![job[w]] = @ + 1]
  /\ MoveTo(w, "forward")
  /\ UNCHANGED <<channelVars, lock, job, task, emitted, inner,
                 caller, delivered>>

(* Mutant: an unheard download is not joined.                              *)
SendFailsUnjoined(w) ==
  /\ workerAt[w] = "send"
  /\ caller[job[w]] = "gone"
  /\ job' = [job EXCEPT ![w] = 0]
  /\ MoveTo(w, "lock")
  /\ UNCHANGED <<channelVars, lock, task, eventVars, caller, delivered>>

SendFails(w) ==
  /\ workerAt[w] = "send"
  /\ caller[job[w]] = "gone"
  /\ MoveTo(w, "join")
  /\ UNCHANGED <<channelVars, lock, job, task, eventVars, caller, delivered>>

(* handle.join().await: the event receiver stays alive, unread, until the  *)
(* task has ended.                                                         *)
Join(w) ==
  /\ workerAt[w] = "join"
  /\ task[job[w]] = "ended"
  /\ delivered' = delivered \cup {job[w]}
  /\ job' = [job EXCEPT ![w] = 0]
  /\ MoveTo(w, "lock")
  /\ UNCHANGED <<channelVars, lock, task, eventVars, caller>>

(* The download task: emit awaits a free place in the event channel.       *)
Emit(j) ==
  /\ task[j] = "running"
  /\ emitted[j] < Events
  /\ inner[j] < EventCap
  /\ emitted' = [emitted EXCEPT ![j] = @ + 1]
  /\ inner' = [inner EXCEPT ![j] = @ + 1]
  /\ UNCHANGED <<channelVars, lock, workerAt, job, task, outer,
                 caller, delivered>>

TaskEnds(j) ==
  /\ task[j] = "running"
  /\ emitted[j] = Events
  /\ task' = [task EXCEPT ![j] = "ended"]
  /\ UNCHANGED <<channelVars, lock, workerAt, job, eventVars, caller,
                 delivered>>

(* The caller reads events, drops its handle, or awaits join (and then     *)
(* reads no more).                                                         *)
Read(j) ==
  /\ caller[j] = "open"
  /\ outer[j] > 0
  /\ outer' = [outer EXCEPT ![j] = @ - 1]
  /\ UNCHANGED <<channelVars, lock, workerAt, job, task, emitted, inner, caller,
                 delivered>>

AbandonHandle(j, how) ==
  /\ caller[j] = "open"
  /\ caller' = [caller EXCEPT ![j] = how]
  /\ outer' = IF how = "gone" THEN [outer EXCEPT ![j] = 0] ELSE outer
  /\ UNCHANGED <<channelVars, lock, workerAt, job, task, emitted, inner,
                 delivered>>

-----------------------------------------------------------------------------
WorkerStep(w) ==
  \/ LockReceiver(w)
  \/ Recv(w)
  \/ RecvClosed(w)
  \/ Start(w)
  \/ NextEvent(w)
  \/ StreamClosed(w)
  \/ SendEvent(w)
  \/ SendFails(w)
  \/ Join(w)

TaskStep(j) == Emit(j) \/ TaskEnds(j)

QueueNext ==
  \/ Submit
  \/ DropQueue
  \/ \E w \in Worker : WorkerStep(w)
  \/ \E j \in Ticket : TaskStep(j)
  \/ \E j \in Ticket : Read(j)
  \/ \E j \in Ticket, how \in {"gone", "joining"} : AbandonHandle(j, how)

QueueSpec == QueueInit /\ [][QueueNext]_queueVars

(* Spawned tasks are polled, a download ends unless it is blocked (module  *)
(* Scheduler), and a caller that holds its handle reads it.                *)
QueueFairness ==
  /\ \A w \in Worker : WF_queueVars(WorkerStep(w))
  /\ \A j \in Ticket : WF_queueVars(TaskStep(j)) /\ WF_queueVars(Read(j))

FairQueueSpec == QueueSpec /\ QueueFairness

-----------------------------------------------------------------------------
QueueTypeOK ==
  /\ submitted \in 0..Submissions
  /\ queue \in Seq(Ticket)
  /\ dropped \in BOOLEAN
  /\ lock \in Worker \cup {NoWorker}
  /\ workerAt \in [Worker -> {"lock", "recv", "start", "forward", "send",
                              "join", "exited"}]
  /\ job \in [Worker -> 0..Submissions]
  /\ task \in [Ticket -> {"none", "running", "ended"}]
  /\ emitted \in [Ticket -> 0..Events]
  /\ inner \in [Ticket -> 0..EventCap]
  /\ outer \in [Ticket -> 0..EventCap]
  /\ caller \in [Ticket -> {"none", "open", "gone", "joining"}]
  /\ delivered \subseteq Ticket

(* At most max_active downloads run at once, and each of them is watched   *)
(* by a worker: a caller that stops listening frees no slot early.         *)
ActiveBounded ==
  /\ Cardinality({j \in Ticket : task[j] = "running"}) <= MaxActive
  /\ \A j \in Ticket : task[j] = "running" => \E w \in Worker : job[w] = j

(* Arrival order up to the workers' own race: when a download starts, fewer*)
(* than max_active earlier submissions have not started, the ones the      *)
(* other workers have just taken.  This is what the code keeps of the      *)
(* order it documents, StartInOrder.                                       *)
BoundedOvertaking ==
  \A j \in Ticket : task[j] # "none" =>
    Cardinality({k \in 1..j : task[k] = "none"}) < MaxActive

(* Every submitted download delivers its result as long as callers keep    *)
(* reading, also those still queued when the queue is dropped: recv drains *)
(* a closed channel, against what is documented, UnrunEndsWithQueue.       *)
ReadersAreServed ==
  [](\A j \in Ticket : caller[j] \in {"none", "open"})
    => \A j \in Ticket : j <= submitted ~> j \in delivered

(* queue.rs:15-16 and SPEC 557-558 as written: downloads start in          *)
(* submission order, none is overtaken.                                    *)
StartInOrder ==
  \A j \in Ticket : task[j] # "none" => \A k \in 1..j : task[k] # "none"

(* SPEC 561 and queue.rs:150-151 as written: if the queue is dropped       *)
(* before a download runs, its join yields TaskEnded, never a result.      *)
UnrunEndsWithQueue ==
  \A j \in Ticket :
    [](dropped /\ (\E k \in DOMAIN queue : queue[k] = j)
         => [](j \notin delivered))

(* What is documented of the queue promises both; one behaviour that keeps *)
(* neither refutes each of them.  Workers drain a closed channel, and each *)
(* starts what it took after it let go of the mutex.                       *)
OrderOrEndAsDocumented == []StartInOrder \/ UnrunEndsWithQueue

(* queue.rs: downloads start in the order they were submitted, with no     *)
(* starvation.  A caller that keeps reading its own handle sees its        *)
(* download start, whatever the others do with theirs.                     *)
NoStarvation ==
  \A j \in Ticket :
    [](caller[j] \in {"none", "open"}) => (j <= submitted ~> task[j] # "none")

=============================================================================
