------------------------ MODULE DownloadQueueProofs ------------------------
(***************************************************************************)
(* The safety of the queue for any number of workers and submissions and   *)
(* event channels of any size.                                             *)
(***************************************************************************)
EXTENDS DownloadQueue, FiniteSetTheorems, TLAPS

(* How many jobs have left the submission channel.                         *)
Taken == submitted - Len(queue)

(* The channel holds the jobs after those, in their order.                 *)
Fifo ==
  /\ Len(queue) <= submitted
  /\ \A i \in 1..Len(queue) : queue[i] = Taken + i

(* What a worker is at says whether it has a job.                          *)
WorkerHasJob ==
  \A w \in Worker :
    /\ workerAt[w] \in {"lock", "recv", "exited"} => job[w] = 0
    /\ workerAt[w] \in {"start", "forward", "send", "join"} => job[w] \in 1..Taken

(* A running download is watched by a worker.                              *)
Watched == \A j \in Ticket : task[j] = "running" => \E w \in Worker : job[w] = j

(* A job that was taken and has not started is with a worker about to      *)
(* start it, and only jobs that were taken have started.                   *)
TakenOrStarted ==
  \A j \in Ticket :
    /\ task[j] # "none" => j <= Taken
    /\ task[j] = "none" /\ j <= Taken =>
         \E w \in Worker : workerAt[w] = "start" /\ job[w] = j

(* Once a job has started, one worker at least holds no earlier one that   *)
(* has not: the worker that started it can only take later jobs.           *)
OneMovedOn ==
  \A j \in Ticket :
    task[j] # "none" => \E w \in Worker : workerAt[w] # "start" \/ job[w] > j

QueueInv ==
  /\ QueueTypeOK
  /\ Fifo
  /\ WorkerHasJob
  /\ Watched
  /\ TakenOrStarted
  /\ OneMovedOn

(* The empty queue satisfies it.                                           *)
LEMMA QueueStarts == QueueInit => QueueInv
<1> SUFFICES ASSUME QueueInit PROVE QueueInv
  OBVIOUS
<1>0. Submissions \in Nat /\ Events \in Nat /\ EventCap \in Nat
  BY QueueAssumption
<1>1. QueueTypeOK
  <2>1. queue \in Seq(Ticket) /\ delivered \subseteq Ticket
    BY DEF QueueInit
  <2>2. /\ emitted \in [Ticket -> 0..Events]
        /\ inner \in [Ticket -> 0..EventCap] /\ outer \in [Ticket -> 0..EventCap]
        /\ job \in [Worker -> 0..Submissions] /\ submitted \in 0..Submissions
    BY <1>0 DEF QueueInit
  <2> QED
    BY <2>1, <2>2 DEF QueueInit, QueueTypeOK
<1>2. Taken = 0 /\ Len(queue) = 0
  <2>1. Len(queue) = 0 /\ submitted = 0
    BY DEF QueueInit
  <2> QED
    BY <2>1 DEF Taken
<1> QED
  BY <1>1, <1>2 DEF QueueInit, QueueInv, Fifo, WorkerHasJob, Watched, TakenOrStarted,
     OneMovedOn, Ticket

-----------------------------------------------------------------------------
(* Every step keeps the types; that a worker past recv has a job is what   *)
(* keeps its accesses inside their functions.                              *)
LEMMA TypeKept == QueueInv /\ [QueueNext]_queueVars => QueueTypeOK'
<1> SUFFICES ASSUME QueueInv, [QueueNext]_queueVars PROVE QueueTypeOK'
  OBVIOUS
<1>0. Submissions \in Nat /\ Events \in Nat /\ EventCap \in Nat \ {0} /\ QueueTypeOK
  BY QueueAssumption DEF QueueInv
<1>j. ASSUME NEW w \in Worker, workerAt[w] \in {"start", "forward", "send", "join"}
      PROVE  job[w] \in Ticket
  BY <1>0, <1>j DEF QueueInv, WorkerHasJob, Taken, Fifo, QueueTypeOK, Ticket
<1> USE <1>0 DEF QueueTypeOK, channelVars, eventVars, MoveTo
<1>1. CASE Submit
  <2>1. submitted' \in 1..Submissions /\ submitted' \in 0..Submissions
    BY <1>1 DEF Submit
  <2>2. queue' \in Seq(Ticket)
    BY <1>1, <2>1 DEF Submit, Ticket
  <2>3. caller' \in [Ticket -> {"none", "open", "gone", "joining"}]
    BY <1>1 DEF Submit
  <2> QED
    BY <1>1, <2>1, <2>2, <2>3 DEF Submit
<1>2. CASE DropQueue
  BY <1>2 DEF DropQueue
<1>3. ASSUME NEW w \in Worker, LockReceiver(w) PROVE QueueTypeOK'
  BY <1>3 DEF LockReceiver
<1>4. ASSUME NEW w \in Worker, Recv(w) PROVE QueueTypeOK'
  <2>1. Head(queue) \in Ticket /\ Tail(queue) \in Seq(Ticket)
    BY <1>4 DEF Recv
  <2> QED
    <3>0. Head(queue) \in 0..Submissions
      BY <2>1 DEF Ticket
    <3>1. job' \in [Worker -> 0..Submissions]
      BY <1>4, <3>0 DEF Recv
    <3> QED BY <1>4, <2>1, <3>1 DEF Recv
<1>5. ASSUME NEW w \in Worker, RecvClosed(w) PROVE QueueTypeOK'
  BY <1>5 DEF RecvClosed
<1>6. ASSUME NEW w \in Worker, Start(w) PROVE QueueTypeOK'
  BY <1>6 DEF Start
<1>7. ASSUME NEW w \in Worker, NextEvent(w) PROVE QueueTypeOK'
  <2>1. job[w] \in Ticket
    BY <1>7, <1>j DEF NextEvent
  <2> QED
    BY <1>7, <2>1 DEF NextEvent
<1>8. ASSUME NEW w \in Worker, StreamClosed(w) PROVE QueueTypeOK'
  BY <1>8 DEF StreamClosed
<1>9. ASSUME NEW w \in Worker, SendEvent(w) PROVE QueueTypeOK'
  <2>1. job[w] \in Ticket
    BY <1>9, <1>j DEF SendEvent
  <2> QED
    BY <1>9, <2>1 DEF SendEvent
<1>10. ASSUME NEW w \in Worker, SendFails(w) PROVE QueueTypeOK'
  BY <1>10 DEF SendFails
<1>11. ASSUME NEW w \in Worker, Join(w) PROVE QueueTypeOK'
  <2>1. job[w] \in Ticket
    BY <1>11, <1>j DEF Join
  <2> QED
    BY <1>11, <2>1 DEF Join
<1>12. ASSUME NEW j \in Ticket, Emit(j) PROVE QueueTypeOK'
  BY <1>12 DEF Emit
<1>13. ASSUME NEW j \in Ticket, TaskEnds(j) PROVE QueueTypeOK'
  BY <1>13 DEF TaskEnds
<1>14. ASSUME NEW j \in Ticket, Read(j) PROVE QueueTypeOK'
  BY <1>14 DEF Read
<1>15. ASSUME NEW j \in Ticket, NEW how \in {"gone", "joining"}, AbandonHandle(j, how)
       PROVE QueueTypeOK'
  BY <1>15 DEF AbandonHandle
<1>16. CASE UNCHANGED queueVars
  BY <1>16 DEF queueVars
<1> QED
  BY <1>1, <1>2, <1>3, <1>4, <1>5, <1>6, <1>7, <1>8, <1>9, <1>10, <1>11, <1>12,
     <1>13, <1>14, <1>15, <1>16 DEF QueueNext, WorkerStep, TaskStep

(* The rest of the invariant speaks of the channel, of the workers and of  *)
(* what has started.                                                       *)
OrderInv == Fifo /\ WorkerHasJob /\ Watched /\ TakenOrStarted /\ OneMovedOn

(* Recv, Start and Join are the steps that matter; the others leave the    *)
(* jobs of the workers, and what has started, as they were.                *)
LEMMA OrderKept == QueueInv /\ [QueueNext]_queueVars => OrderInv'
<1> SUFFICES ASSUME QueueInv, [QueueNext]_queueVars PROVE OrderInv'
  OBVIOUS
<1>0. QueueTypeOK /\ QueueTypeOK' /\ Taken \in Nat
  <2>1. submitted \in Nat /\ Len(queue) \in Nat /\ Len(queue) <= submitted
    BY QueueAssumption DEF QueueInv, QueueTypeOK, Fifo
  <2> QED
    BY <2>1, TypeKept DEF QueueInv, Taken
<1> USE DEF channelVars, eventVars, MoveTo
<1>1. CASE Submit
  <2>1. Taken' = Taken /\ Fifo'
    <3>1. /\ submitted \in Nat /\ queue \in Seq(Ticket) /\ Len(queue) \in Nat
          /\ submitted' = submitted + 1 /\ queue' = Append(queue, submitted')
      BY <1>0, <1>1, QueueAssumption DEF Submit, QueueTypeOK
    <3>2. /\ Len(queue') = Len(queue) + 1
          /\ \A i \in 1..Len(queue) : queue'[i] = queue[i]
          /\ queue'[Len(queue) + 1] = submitted + 1
      BY <3>1
    <3>3. Taken' = Taken
      BY <3>1, <3>2 DEF Taken
    <3>4. Fifo'
      BY <3>1, <3>2, <3>3 DEF QueueInv, Fifo, Taken
    <3> QED BY <3>3, <3>4
  <2> QED
    BY <1>1, <2>1 DEF Submit, QueueInv, OrderInv, WorkerHasJob, Watched,
       TakenOrStarted, OneMovedOn
<1>2. ASSUME NEW w \in Worker, Recv(w) PROVE OrderInv'
  <2>1. /\ job[w] = 0 /\ workerAt[w] = "recv"
        /\ job'[w] = Taken + 1 /\ workerAt'[w] = "start"
        /\ \A v \in Worker : v # w => job'[v] = job[v] /\ workerAt'[v] = workerAt[v]
        /\ task' = task
    BY <1>0, <1>2 DEF Recv, QueueTypeOK, QueueInv, WorkerHasJob, Fifo
  <2>2. Taken' = Taken + 1 /\ Fifo'
    BY <1>0, <1>2 DEF Recv, QueueTypeOK, QueueInv, Fifo, Taken
  <2>3. WorkerHasJob'
    BY <1>0, <2>1, <2>2 DEF QueueInv, WorkerHasJob
  <2>4. Watched'
    BY <1>0, <2>1 DEF QueueInv, Watched, Ticket
  <2>5. TakenOrStarted'
    BY <1>0, <2>1, <2>2 DEF QueueInv, TakenOrStarted, Ticket
  <2>6. OneMovedOn'
    <3> SUFFICES ASSUME NEW j \in Ticket, task'[j] # "none"
                 PROVE  \E v \in Worker : workerAt'[v] # "start" \/ job'[v] > j
      BY DEF OneMovedOn
    <3>1. j <= Taken
      BY <2>1 DEF QueueInv, TakenOrStarted
    <3> QED
      BY <1>0, <2>1, <3>1 DEF Ticket
  <2> QED
    BY <2>2, <2>3, <2>4, <2>5, <2>6 DEF OrderInv
<1>3. ASSUME NEW w \in Worker, Start(w) PROVE OrderInv'
  <2>1. /\ job' = job /\ job[w] \in Ticket /\ job[w] <= Taken
        /\ workerAt'[w] = "forward"
        /\ \A v \in Worker : v # w => workerAt'[v] = workerAt[v]
        /\ task'[job[w]] = "running"
        /\ \A j \in Ticket : j # job[w] => task'[j] = task[j]
        /\ workerAt[w] = "start"
    BY <1>0, <1>3 DEF Start, QueueTypeOK, QueueInv, WorkerHasJob, Fifo, Ticket, Taken
  <2>2. Taken' = Taken /\ Fifo'
    BY <1>3 DEF Start, QueueInv, Fifo, Taken
  <2>3. WorkerHasJob' /\ Watched'
    BY <2>1, <2>2 DEF QueueInv, WorkerHasJob, Watched
  <2>4. TakenOrStarted'
    BY <2>1, <2>2 DEF QueueInv, TakenOrStarted
  <2>5. OneMovedOn'
    BY <2>1 DEF OneMovedOn
  <2> QED
    BY <2>2, <2>3, <2>4, <2>5 DEF OrderInv
<1>4. ASSUME NEW w \in Worker, Join(w) PROVE OrderInv'
  <2>1. /\ job'[w] = 0 /\ workerAt'[w] = "lock" /\ workerAt[w] = "join"
        /\ \A v \in Worker : v # w => job'[v] = job[v] /\ workerAt'[v] = workerAt[v]
        /\ task' = task /\ task[job[w]] = "ended"
    BY <1>0, <1>4 DEF Join, QueueTypeOK
  <2>2. Taken' = Taken /\ Fifo'
    BY <1>4 DEF Join, QueueInv, Fifo, Taken
  <2>3. WorkerHasJob'
    BY <2>1, <2>2 DEF QueueInv, WorkerHasJob
  <2>4. Watched'
    BY <2>1 DEF QueueInv, Watched
  <2>5. TakenOrStarted' /\ OneMovedOn'
    BY <2>1, <2>2 DEF QueueInv, TakenOrStarted, OneMovedOn
  <2> QED
    BY <2>2, <2>3, <2>4, <2>5 DEF OrderInv
<1>5. ASSUME NEW w \in Worker,
             LockReceiver(w) \/ RecvClosed(w) \/ NextEvent(w) \/ StreamClosed(w)
               \/ SendEvent(w) \/ SendFails(w)
      PROVE  OrderInv'
  <2>1. /\ job' = job /\ task' = task /\ UNCHANGED <<submitted, queue>>
        /\ \/ /\ workerAt[w] \in {"lock", "recv"}
              /\ workerAt'[w] \in {"lock", "recv", "exited"}
           \/ /\ workerAt[w] \in {"forward", "send"}
              /\ workerAt'[w] \in {"forward", "send", "join"}
        /\ \A v \in Worker : v # w => workerAt'[v] = workerAt[v]
    <3>1. workerAt \in [Worker -> {"lock", "recv", "start", "forward", "send",
                             "join", "exited"}]
      BY <1>0 DEF QueueTypeOK
    <3>2. CASE LockReceiver(w)
      BY <3>1, <3>2 DEF LockReceiver
    <3>5. CASE RecvClosed(w)
      BY <3>1, <3>5 DEF RecvClosed
    <3>3. CASE NextEvent(w) \/ StreamClosed(w)
      BY <3>1, <3>3 DEF NextEvent, StreamClosed
    <3>4. CASE SendEvent(w) \/ SendFails(w)
      BY <3>1, <3>4 DEF SendEvent, SendFails
    <3> QED BY <1>5, <3>2, <3>3, <3>4, <3>5
  <2>2. Taken' = Taken /\ Fifo'
    BY <2>1 DEF QueueInv, Fifo, Taken
  <2>3. WorkerHasJob' /\ Watched'
    BY <2>1, <2>2 DEF QueueInv, WorkerHasJob, Watched
  <2>4. \A v \in Worker : workerAt'[v] = "start" <=> workerAt[v] = "start"
    BY <2>1
  <2>5. TakenOrStarted' /\ OneMovedOn'
    BY <2>1, <2>2, <2>4 DEF QueueInv, TakenOrStarted, OneMovedOn
  <2> QED
    BY <2>2, <2>3, <2>5 DEF OrderInv
<1>6. ASSUME NEW j \in Ticket, TaskEnds(j) PROVE OrderInv'
  <2>1. /\ UNCHANGED <<submitted, queue, workerAt, job>>
        /\ task[j] = "running" /\ task'[j] = "ended"
        /\ \A k \in Ticket : k # j => task'[k] = task[k]
    BY <1>0, <1>6 DEF TaskEnds, QueueTypeOK
  <2> QED
    BY <2>1 DEF QueueInv, OrderInv, Fifo, Taken, WorkerHasJob, Watched,
       TakenOrStarted, OneMovedOn
<1>7. CASE UNCHANGED <<submitted, queue, workerAt, job, task>>
  BY <1>7 DEF QueueInv, OrderInv, Fifo, Taken, WorkerHasJob, Watched,
     TakenOrStarted, OneMovedOn
<1> QED
  BY <1>1, <1>2, <1>3, <1>4, <1>5, <1>6, <1>7
     DEF QueueNext, WorkerStep, TaskStep, DropQueue, Emit, Read, AbandonHandle, queueVars

(* The whole invariant holds in every state.                               *)
THEOREM QueueInvariant == QueueSpec => []QueueInv
<1>1. QueueInv /\ [QueueNext]_queueVars => QueueInv'
  BY TypeKept, OrderKept DEF QueueInv, OrderInv
<1> QED
  BY QueueStarts, <1>1, PTL DEF QueueSpec

(* Type correctness of the queue's state.                                  *)
THEOREM TypeCorrect == QueueSpec => []QueueTypeOK
<1>1. QueueInv => QueueTypeOK
  BY DEF QueueInv
<1> QED
  BY QueueInvariant, <1>1, PTL

-----------------------------------------------------------------------------
(* Jobs that are each held by a worker out of a set are no more than the   *)
(* workers of that set.                                                    *)
LEMMA HeldByWorkers ==
  ASSUME NEW J, NEW S \in SUBSET Worker,
         \A j \in J : \E w \in S : job[w] = j,
         \A w \in S : job[w] \in J
  PROVE  /\ IsFiniteSet(S) /\ IsFiniteSet(J)
         /\ Cardinality(J) \in Nat /\ Cardinality(S) \in Nat
         /\ Cardinality(J) <= Cardinality(S)
         /\ Cardinality(S) <= MaxActive
<1>1. IsFiniteSet(S) /\ Cardinality(S) <= MaxActive
  BY QueueAssumption, FS_Subset DEF MaxActive
<1> DEFINE holds == [w \in S |-> job[w]]
<1>2. holds \in Surjection(S, J)
  BY DEF Surjection
<1>3. IsFiniteSet(J) /\ Cardinality(J) <= Cardinality(S)
  <2> HIDE DEF holds
  <2> QED BY <1>1, <1>2, FS_Surjection
<1> QED
  BY <1>1, <1>3, FS_CardinalityType

(* Each running download keeps a worker of its own busy, so no more than   *)
(* max_active run, whoever stops listening.                                *)
THEOREM ActiveSafe == QueueSpec => []ActiveBounded
<1>1. QueueInv => ActiveBounded
  <2> SUFFICES ASSUME QueueInv PROVE ActiveBounded
    OBVIOUS
  <2> DEFINE R == {j \in Ticket : task[j] = "running"}
             S == {w \in Worker : job[w] \in R}
  <2>1. \A j \in R : \E w \in S : job[w] = j
    BY DEF QueueInv, Watched
  <2>2. Cardinality(R) <= Cardinality(S) /\ Cardinality(S) <= MaxActive
        /\ Cardinality(R) \in Nat /\ Cardinality(S) \in Nat
    <3>1. S \in SUBSET Worker /\ \A w \in S : job[w] \in R
      OBVIOUS
    <3> HIDE DEF R, S
    <3> QED BY <2>1, <3>1, HeldByWorkers
  <2>3. MaxActive \in Nat
    BY QueueAssumption, FS_CardinalityType DEF MaxActive
  <2> QED
    BY <2>2, <2>3 DEF ActiveBounded, QueueInv, Watched
<1> QED
  BY QueueInvariant, <1>1, PTL

(* When a download starts, the earlier ones that have not are with workers *)
(* about to start them, and one worker is not among those.                 *)
THEOREM OvertakingBounded == QueueSpec => []BoundedOvertaking
<1>1. QueueInv => BoundedOvertaking
  <2> SUFFICES ASSUME QueueInv, NEW j \in Ticket, task[j] # "none"
               PROVE  Cardinality({k \in 1..j : task[k] = "none"}) < MaxActive
    BY DEF BoundedOvertaking
  <2> DEFINE E == {k \in 1..j : task[k] = "none"}
             S == {w \in Worker : workerAt[w] = "start" /\ job[w] \in E}
  <2>0. Taken \in Int
    <3>1. submitted \in Int /\ Len(queue) \in Int
      BY QueueAssumption DEF QueueInv, QueueTypeOK
    <3> QED BY <3>1 DEF Taken
  <2>1. \A k \in E : \E w \in S : job[w] = k
    <3> SUFFICES ASSUME NEW k \in E PROVE \E w \in S : job[w] = k
      OBVIOUS
    <3>1. k \in Ticket /\ k <= j /\ j <= Taken /\ Taken \in Int
      <4>1. j \in Nat /\ j <= Taken /\ j <= Submissions
        BY QueueAssumption DEF QueueInv, TakenOrStarted, Ticket
      <4>2. k \in 1..j
        OBVIOUS
      <4> QED BY <2>0, <4>1, <4>2, QueueAssumption DEF Ticket
    <3> QED
      BY <3>1 DEF QueueInv, TakenOrStarted, Ticket
  <2>2. PICK v \in Worker : workerAt[v] # "start" \/ job[v] > j
    BY DEF QueueInv, OneMovedOn
  <2>3. S \in SUBSET (Worker \ {v})
    BY <2>2 DEF Ticket
  <2>4. Cardinality(E) <= Cardinality(S)
        /\ Cardinality(E) \in Nat /\ Cardinality(S) \in Nat
    <3>1. S \in SUBSET Worker /\ \A w \in S : job[w] \in E
      OBVIOUS
    <3> HIDE DEF E, S
    <3> QED BY <2>1, <3>1, HeldByWorkers
  <2>5. IsFiniteSet(Worker \ {v}) /\ Cardinality(Worker \ {v}) = MaxActive - 1
    BY QueueAssumption, FS_RemoveElement DEF MaxActive
  <2>6. Cardinality(S) <= MaxActive - 1
    BY <2>3, <2>5, FS_Subset
  <2>7. MaxActive \in Nat
    BY QueueAssumption, FS_CardinalityType DEF MaxActive
  <2> QED
    BY <2>4, <2>6, <2>7
<1> QED
  BY QueueInvariant, <1>1, PTL

=============================================================================
