---------------------------- MODULE RuntimeProofs ----------------------------
(***************************************************************************)
(* Proofs about the two parts of the server that run on whatever clients   *)
(* do.                                                                     *)
(*                                                                         *)
(*   PersistWorker   for every set of characters, every capacity of the    *)
(*                   queue and every bound on the revisions;               *)
(*   SimRuntime      for every set of players, abilities and homes, every  *)
(*                   timing, capacity, ceiling and budget, and every bound *)
(*                   on the monsters and the abilities started.            *)
(***************************************************************************)
EXTENDS PersistWorker, SimRuntime, FiniteSetTheorems, WellFoundedInduction, TLAPS

-----------------------------------------------------------------------------
(***************************************************************************)
(* PersistWorker                                                           *)
(***************************************************************************)
(* The jobs of a queue, without their order.                               *)
Jobs(q) == {q[i] : i \in 1..Len(q)}

Tried(c) == \E r \in attempted[c] : r >= handed[c]

AllTried == \A c \in Character : handed[c] = 0 \/ Tried(c)

(* A snapshot of c as new as the last one handed over is still underway.   *)
Covers(s, c) == s.character = c /\ s.revision >= handed[c]

OnWay(c) ==
  \/ \E s \in parking : Covers(s, c)
  \/ \E s \in flushing : Covers(s, c)
  \/ \E j \in Jobs(queue) : j.op = "save" /\ Covers(j.snapshot, c)
  \/ parked[c] >= handed[c]
  \/ /\ worker.stage \in {"run", "write"}
     /\ worker.job.op = "save"
     /\ Covers(worker.job.snapshot, c)

(* The queue was seen empty by a shutdown that had not timed out.          *)
PastDrain ==
  \/ worker.after = "shutdown" /\ worker.stage # "drain"
  \/ worker.after = "final"
-----------------------------------------------------------------------------
(***************************************************************************)
(* The inductive invariant                                                 *)
(***************************************************************************)
(* Where the worker can be.                                                *)
PlaceInv ==
  /\ worker.after = "loop" =>
       worker.stage \in {"recv", "run", "flush", "flushing", "write"}
  /\ worker.after = "drain" => worker.stage = "write" /\ flushing = {}
  /\ worker.after = "shutdown" =>
       worker.stage \in {"drain", "flush", "flushing", "write", "release",
                         "releasing", "reply"}
  /\ worker.after = "final" =>
       worker.stage \in {"final", "flush", "flushing", "write", "ended"}
  /\ worker.stage = "write" => worker.job.op = "save"
  /\ flushing # {} => worker.stage \in {"flushing", "write"}

(* What the worker can meet before a shutdown is called.                   *)
OpenInv ==
  /\ \A s, t \in parking : s = t
  /\ parking # {} => shutdown = "open"
  /\ stop <=> shutdown = "timed_out"
  /\ shutdown = "open" =>
       /\ \A j \in Jobs(queue) : j.op # "shutdown"
       /\ worker.after = "loop"
       /\ worker.stage = "run" => worker.job.op # "shutdown"

DrainInv ==
  ~stop /\ PastDrain =>
    /\ \A j \in Jobs(queue) : j.op # "save"
    /\ \/ worker.after = "shutdown" /\ worker.stage = "flush"
       \/ \A c \in Character : parked[c] = 0

HandedInv ==
  ~stop => \A c \in Character : handed[c] = 0 \/ Tried(c) \/ OnWay(c)

ReleaseInv ==
  /\ released \/ worker.stage = "releasing" => shutdown # "open" /\ AllTried
  /\ worker.stage = "reply" => released
  /\ shutdown = "drained" => released

LateInv ==
  /\ late <= 1
  /\ ~stop \/ worker.stage \in {"run", "write", "releasing"} => late = 0

IInv ==
  /\ TypeOK
  /\ PlaceInv
  /\ OpenInv
  /\ DrainInv
  /\ HandedInv
  /\ ReleaseInv
  /\ LateInv
-----------------------------------------------------------------------------
(***************************************************************************)
(* Queues and jobs                                                         *)
(***************************************************************************)
LEMMA JobsAppend ==
  ASSUME NEW q \in Seq(Job), NEW j \in Job
  PROVE  /\ Append(q, j) \in Seq(Job)
         /\ Len(Append(q, j)) = Len(q) + 1
         /\ Jobs(Append(q, j)) = Jobs(q) \cup {j}
<1>1. /\ Append(q, j) \in Seq(Job)
      /\ Len(q) \in Nat
      /\ Len(Append(q, j)) = Len(q) + 1
      /\ \A i \in 1..Len(q) : Append(q, j)[i] = q[i]
      /\ Append(q, j)[Len(q) + 1] = j
  OBVIOUS
<1>2. 1..(Len(q) + 1) = (1..Len(q)) \cup {Len(q) + 1}
  BY <1>1
<1> QED
  BY <1>1, <1>2 DEF Jobs

LEMMA JobsTail ==
  ASSUME NEW q \in Seq(Job), q # <<>>
  PROVE  /\ Head(q) \in Job
         /\ Tail(q) \in Seq(Job)
         /\ Len(Tail(q)) = Len(q) - 1
         /\ Jobs(q) = {Head(q)} \cup Jobs(Tail(q))
<1>1. /\ Len(q) \in Nat \ {0}
      /\ Head(q) = q[1]
      /\ Head(q) \in Job
      /\ Tail(q) \in Seq(Job)
      /\ Len(Tail(q)) = Len(q) - 1
      /\ \A i \in 1..(Len(q) - 1) : Tail(q)[i] = q[i + 1]
  OBVIOUS
<1>2. ASSUME NEW i \in 1..Len(q)
      PROVE  i = 1 \/ (i - 1 \in 1..(Len(q) - 1) /\ q[i] = Tail(q)[i - 1])
  BY <1>1
<1>3. ASSUME NEW i \in 1..(Len(q) - 1)
      PROVE  i + 1 \in 1..Len(q) /\ Tail(q)[i] = q[i + 1]
  BY <1>1
<1>4. Jobs(q) \subseteq {Head(q)} \cup Jobs(Tail(q))
  BY <1>1, <1>2 DEF Jobs
<1>5. {Head(q)} \cup Jobs(Tail(q)) \subseteq Jobs(q)
  <2>1. 1 \in 1..Len(q)
    BY <1>1
  <2> QED
    BY <1>1, <1>3, <2>1 DEF Jobs
<1> QED
  BY <1>1, <1>4, <1>5

LEMMA JobsEmpty == Jobs(<<>>) = {}
  BY DEF Jobs

LEMMA JobSnapshot ==
  ASSUME NEW j \in Job
  PROVE  /\ j.op \in {"save", "awaited", "other", "shutdown"}
         /\ j.op \in {"save", "awaited"} => j.snapshot \in Snapshot
  BY DEF Job

LEMMA SnapshotFields ==
  ASSUME NEW s \in Snapshot
  PROVE  s.character \in Character /\ s.revision \in Nat
  BY DEF Snapshot

LEMMA SaveJobType ==
  ASSUME NEW s \in Snapshot
  PROVE  SaveJob(s) \in Job /\ SaveJob(s).op = "save" /\ SaveJob(s).snapshot = s
  BY DEF SaveJob, Job

LEMMA OtherJobType == OtherJob \in Job /\ OtherJob.op = "other"
  BY DEF OtherJob, Job

(* The fields of the worker, and the forms in which it is written.         *)
LEMMA WorkerFields ==
  ASSUME NEW w \in Worker
  PROVE  /\ w.stage \in {"recv", "run", "drain", "flush", "flushing", "write",
                         "release", "releasing", "reply", "final", "ended"}
         /\ w.after \in {"loop", "drain", "shutdown", "final"}
         /\ w.job \in Job
  BY DEF Worker

LEMMA AtType ==
  ASSUME NEW stage \in {"recv", "run", "drain", "flush", "flushing", "write",
                        "release", "releasing", "reply", "final", "ended"},
         NEW after \in {"loop", "drain", "shutdown", "final"}
  PROVE  /\ At(stage, after) \in Worker
         /\ At(stage, after).stage = stage
         /\ At(stage, after).after = after
  BY OtherJobType DEF At, Worker

LEMMA WritingType ==
  ASSUME NEW after \in {"loop", "drain", "shutdown", "final"},
         NEW s \in Snapshot
  PROVE  /\ Writing(after, s) \in Worker
         /\ Writing(after, s).stage = "write"
         /\ Writing(after, s).after = after
         /\ Writing(after, s).job.op = "save"
         /\ Writing(after, s).job.snapshot = s
  BY SaveJobType DEF Writing, Worker
-----------------------------------------------------------------------------
(***************************************************************************)
(* Types, and where the worker can be                                      *)
(***************************************************************************)
LEMMA TypeInit == Init => TypeOK /\ PlaceInv
<1> SUFFICES ASSUME Init PROVE TypeOK /\ PlaceInv
  OBVIOUS
<1>1. /\ worker \in Worker
      /\ worker.stage = "recv"
      /\ worker.after = "loop"
  BY AtType DEF Init
<1>2. queue \in Seq(Job) /\ Len(queue) <= QueueCap
  <2>1. <<>> \in Seq(Job) /\ Len(<<>>) = 0
    OBVIOUS
  <2> QED
    BY <2>1, WorkerAssumption DEF Init, WorkerAssumption
<1>3. attempted \in [Character -> SUBSET Nat]
  BY DEF Init
<1>4. TypeOK
  BY <1>1, <1>2, <1>3 DEF Init, TypeOK
<1>5. PlaceInv
  BY <1>1 DEF Init, PlaceInv
<1> QED
  BY <1>4, <1>5

(* Appending to the queue when there is room.                              *)
LEMMA QueueTakes ==
  ASSUME TypeOK, Room, NEW j \in Job, queue' = Append(queue, j)
  PROVE  /\ queue' \in Seq(Job)
         /\ Len(queue') <= QueueCap
         /\ Jobs(queue') = Jobs(queue) \cup {j}
  BY JobsAppend, WorkerAssumption DEF TypeOK, Room, WorkerAssumption

LEMMA QueueGives ==
  ASSUME TypeOK, queue # <<>>, queue' = Tail(queue)
  PROVE  /\ Head(queue) \in Job
         /\ queue' \in Seq(Job)
         /\ Len(queue') <= QueueCap
         /\ Jobs(queue) = {Head(queue)} \cup Jobs(queue')
  BY JobsTail, WorkerAssumption DEF TypeOK, WorkerAssumption

LEMMA AttemptType ==
  ASSUME TypeOK, NEW s \in Snapshot, Attempt(s)
  PROVE  attempted' \in [Character -> SUBSET Nat] /\ late' \in Nat
<1>1. late' \in Nat
  BY DEF TypeOK, Attempt, Late
<1>2. attempted' \in [Character -> SUBSET Nat]
  BY SnapshotFields DEF TypeOK, Attempt
<1> QED
  BY <1>1, <1>2

LEMMA TypeStep ==
  TypeOK /\ PlaceInv /\ [Next]_vars => TypeOK' /\ PlaceInv'
<1> SUFFICES ASSUME TypeOK, PlaceInv, [Next]_vars PROVE TypeOK' /\ PlaceInv'
  OBVIOUS
<1> USE DEF TypeOK, PlaceInv
<1>w. /\ worker.stage \in {"recv", "run", "drain", "flush", "flushing", "write",
                         "release", "releasing", "reply", "final", "ended"}
      /\ worker.after \in {"loop", "drain", "shutdown", "final"}
      /\ worker.job \in Job
  BY WorkerFields
<1>1. ASSUME NEW c \in Character, Handoff(c)
      PROVE  TypeOK' /\ PlaceInv'
  <2> DEFINE snapshot == [character |-> c, revision |-> revision[c] + 1]
  <2>1. snapshot \in Snapshot
    BY DEF Snapshot
  <2>2. CASE Room /\ queue' = Append(queue, SaveJob(snapshot)) /\ parking' = parking
    BY <1>1, <2>1, <2>2, SaveJobType, QueueTakes DEF Handoff
  <2>3. CASE parking' = {snapshot} /\ queue' = queue
    BY <1>1, <2>1, <2>3 DEF Handoff
  <2> QED
    BY <1>1, <2>2, <2>3 DEF Handoff
<1>2. ASSUME NEW c \in Character, SaveAwaited(c)
      PROVE  TypeOK' /\ PlaceInv'
  <2>1. [character |-> c, revision |-> revision[c] + 1] \in Snapshot
    BY DEF Snapshot
  <2> QED
    BY <1>2, <2>1 DEF SaveAwaited
<1>3. CASE Park
  BY <1>3, SnapshotFields DEF Park
<1>4. CASE CallShutdown \/ ShutdownTimesOut
  BY <1>4 DEF CallShutdown, ShutdownTimesOut
<1>5. CASE EnqueueShutdown
  <2>1. [op |-> "shutdown"] \in Job
    BY DEF Job
  <2> QED
    BY <1>5, <2>1, QueueTakes DEF EnqueueShutdown
<1>6. CASE EnqueueAwaited
  <2>1. PICK s \in awaiting :
          /\ queue' = Append(queue, [op |-> "awaited", snapshot |-> s])
          /\ awaiting' = awaiting \ {s}
    BY <1>6 DEF EnqueueAwaited
  <2>2. [op |-> "awaited", snapshot |-> s] \in Job
    BY DEF Job
  <2> QED
    BY <1>6, <2>1, <2>2, QueueTakes DEF EnqueueAwaited
<1>7. CASE EnqueueOther
  BY <1>7, OtherJobType, QueueTakes DEF EnqueueOther
<1>8. CASE Receive
  <2>1. CASE stop
    BY <1>8, <2>1, QueueGives, AtType DEF Receive, Ended
  <2>2. CASE ~stop
    <3>1. Head(queue) \in Job
      BY <1>8, QueueGives DEF Receive
    <3>2. /\ worker' \in Worker
          /\ worker'.stage = "run"
          /\ worker'.after = "loop"
      BY <1>8, <2>2, <3>1 DEF Receive, Worker
    <3> QED
      BY <1>8, <3>2, QueueGives DEF Receive
  <2> QED
    BY <2>1, <2>2
<1>9. CASE RunSave
  <2>1. worker.job.snapshot \in Snapshot
    BY <1>9, <1>w, JobSnapshot DEF RunSave
  <2>2. attempted' \in [Character -> SUBSET Nat] /\ late' \in Nat
    BY <1>9, <2>1, AttemptType DEF RunSave
  <2> QED
    BY <1>9, <2>2, AtType DEF RunSave
<1>10. CASE RunOther \/ RunShutdown
  BY <1>10, AtType DEF RunOther, RunShutdown
<1>11. CASE Drain
  <2>1. /\ Head(queue) \in Job
        /\ queue' \in Seq(Job)
        /\ Len(queue') <= QueueCap
    BY <1>11, QueueGives DEF Drain
  <2>2. discarded' \subseteq Snapshot
    BY <1>11, <2>1, JobSnapshot DEF Drain
  <2>3. CASE stop
    BY <1>11, <2>1, <2>2, <2>3, AtType DEF Drain, Ended
  <2>4. CASE ~stop /\ Head(queue).op = "save"
    <3>1. worker' = Writing("drain", Head(queue).snapshot)
      BY <1>11, <2>4 DEF Drain
    <3> QED
      BY <1>11, <2>1, <2>2, <2>4, <3>1, JobSnapshot, WritingType DEF Drain
  <2>5. CASE ~stop /\ Head(queue).op # "save"
    <3>1. worker' = worker
      BY <1>11, <2>5 DEF Drain
    <3> QED
      BY <1>11, <2>1, <2>2, <3>1 DEF Drain
  <2> QED
    BY <2>3, <2>4, <2>5
<1>12. CASE Drained
  BY <1>12, AtType DEF Drained, Ended
<1>13. CASE TakeParked
  BY <1>13, <1>w, AtType DEF TakeParked, Snapshot
<1>14. CASE FlushNext
  BY <1>14, <1>w, WritingType DEF FlushNext
<1>15. CASE FlushEnds
  BY <1>15, <1>w, AtType DEF FlushEnds, Flushed, Ended
<1>16. CASE Write
  <2>1. worker.job.snapshot \in Snapshot
    BY <1>16, <1>w, JobSnapshot DEF Write
  <2>2. attempted' \in [Character -> SUBSET Nat] /\ late' \in Nat
    BY <1>16, <2>1, AttemptType DEF Write
  <2>3. CASE worker.after = "drain"
    BY <1>16, <1>w, <2>2, <2>3, AtType DEF Write
  <2>4. CASE worker.after # "drain"
    BY <1>16, <1>w, <2>2, <2>4, AtType DEF Write
  <2> QED
    BY <2>3, <2>4
<1>17. CASE AdmitRelease \/ Reply \/ FinalFlush
  BY <1>17, AtType DEF AdmitRelease, Reply, FinalFlush, Ended
<1>18. CASE ReleaseChannel
  BY <1>18, AtType DEF ReleaseChannel, Late
<1>19. CASE UNCHANGED vars
  BY <1>19 DEF vars
<1> QED
  BY <1>1, <1>2, <1>3, <1>4, <1>5, <1>6, <1>7, <1>8, <1>9, <1>10, <1>11,
     <1>12, <1>13, <1>14, <1>15, <1>16, <1>17, <1>18, <1>19
  DEF Next, WorkerStep
-----------------------------------------------------------------------------
(***************************************************************************)
(* Before a shutdown, and after one has timed out                          *)
(***************************************************************************)
LEMMA OpenStep ==
  TypeOK /\ PlaceInv /\ OpenInv /\ [Next]_vars => OpenInv'
<1> SUFFICES ASSUME TypeOK, PlaceInv, OpenInv, [Next]_vars PROVE OpenInv'
  OBVIOUS
<1> USE DEF OpenInv
<1>w. /\ worker.after \in {"loop", "drain", "shutdown", "final"}
      /\ worker.job \in Job
  BY WorkerFields DEF TypeOK
<1>1. ASSUME NEW c \in Character, Handoff(c)
      PROVE  OpenInv'
  <2> DEFINE snapshot == [character |-> c, revision |-> revision[c] + 1]
  <2>1. snapshot \in Snapshot
    BY DEF Snapshot, TypeOK
  <2>2. CASE Room /\ queue' = Append(queue, SaveJob(snapshot)) /\ parking' = parking
    BY <1>1, <2>1, <2>2, SaveJobType, QueueTakes DEF Handoff
  <2>3. CASE parking' = {snapshot} /\ queue' = queue
    BY <1>1, <2>3 DEF Handoff
  <2> QED
    BY <1>1, <2>2, <2>3 DEF Handoff
<1>2. ASSUME NEW c \in Character, SaveAwaited(c)
      PROVE  OpenInv'
  BY <1>2 DEF SaveAwaited
<1>3. CASE Park \/ CallShutdown \/ ShutdownTimesOut
  BY <1>3 DEF Park, CallShutdown, ShutdownTimesOut
<1>4. CASE EnqueueShutdown
  BY <1>4 DEF EnqueueShutdown
<1>5. CASE EnqueueAwaited
  <2>1. PICK s \in awaiting :
          queue' = Append(queue, [op |-> "awaited", snapshot |-> s])
    BY <1>5 DEF EnqueueAwaited
  <2>2. [op |-> "awaited", snapshot |-> s] \in Job
    BY DEF Job, TypeOK
  <2> QED
    BY <1>5, <2>1, <2>2, QueueTakes DEF EnqueueAwaited
<1>6. CASE EnqueueOther
  BY <1>6, OtherJobType, QueueTakes DEF EnqueueOther
<1>7. CASE Receive
  <2>1. CASE stop
    BY <1>7, <2>1 DEF Receive
  <2>2. CASE ~stop
    BY <1>7, <2>2, QueueGives DEF Receive
  <2> QED
    BY <2>1, <2>2
<1>8. CASE RunSave \/ RunOther \/ RunShutdown
  BY <1>8, AtType DEF RunSave, RunOther, RunShutdown, PlaceInv
<1>9. CASE Drain \/ Drained \/ AdmitRelease \/ ReleaseChannel \/ Reply \/ FinalFlush
  BY <1>9, <1>w
  DEF Drain, Drained, AdmitRelease, ReleaseChannel, Reply, FinalFlush, PlaceInv
<1>10. CASE TakeParked
  BY <1>10, <1>w, AtType DEF TakeParked
<1>11. CASE FlushNext
  BY <1>11, <1>w, WritingType DEF FlushNext, TypeOK
<1>12. CASE FlushEnds
  BY <1>12, <1>w, AtType DEF FlushEnds, Flushed, Ended
<1>13. CASE Write
  BY <1>13, <1>w, AtType DEF Write, PlaceInv
<1>14. CASE UNCHANGED vars
  BY <1>14 DEF vars
<1> QED
  BY <1>1, <1>2, <1>3, <1>4, <1>5, <1>6, <1>7, <1>8, <1>9, <1>10, <1>11,
     <1>12, <1>13, <1>14
  DEF Next, WorkerStep

(***************************************************************************)
(* One write or release after the flag is up                               *)
(***************************************************************************)
LEMMA LateStep ==
  TypeOK /\ PlaceInv /\ OpenInv /\ LateInv /\ [Next]_vars => LateInv'
<1> SUFFICES ASSUME TypeOK, PlaceInv, OpenInv, LateInv, [Next]_vars
             PROVE  LateInv'
  OBVIOUS
<1> USE DEF LateInv
<1>w. worker.after \in {"loop", "drain", "shutdown", "final"}
  BY WorkerFields DEF TypeOK
<1>1. CASE \/ \E c \in Character : Handoff(c) \/ SaveAwaited(c)
           \/ Park \/ CallShutdown \/ ShutdownTimesOut
           \/ EnqueueShutdown \/ EnqueueAwaited \/ EnqueueOther
  BY <1>1 DEF Handoff, SaveAwaited, Park, CallShutdown, ShutdownTimesOut,
              EnqueueShutdown, EnqueueAwaited, EnqueueOther
<1>2. CASE Receive
  BY <1>2, AtType DEF Receive, Ended
<1>3. CASE RunSave
  BY <1>3, AtType DEF RunSave, Attempt, Late, TypeOK
<1>4. CASE RunOther \/ RunShutdown
  BY <1>4, AtType DEF RunOther, RunShutdown
<1>5. CASE Drain
  <2>1. CASE stop
    BY <1>5, <2>1, AtType DEF Drain, Ended
  <2>2. CASE ~stop
    BY <1>5, <2>2 DEF Drain
  <2> QED
    BY <2>1, <2>2
<1>6. CASE Drained
  BY <1>6, AtType DEF Drained, Ended
<1>7. CASE TakeParked
  BY <1>7, <1>w, AtType DEF TakeParked
<1>8. CASE FlushNext
  BY <1>8 DEF FlushNext
<1>9. CASE FlushEnds
  BY <1>9, <1>w, AtType DEF FlushEnds, Flushed, Ended, PlaceInv
<1>10. CASE Write
  <2>1. worker'.stage \in {"drain", "flushing"}
    BY <1>10, <1>w, AtType DEF Write
  <2> QED
    BY <1>10, <2>1 DEF Write, Attempt, Late, TypeOK
<1>11. CASE AdmitRelease
  BY <1>11, AtType DEF AdmitRelease, Ended
<1>12. CASE ReleaseChannel
  BY <1>12, AtType DEF ReleaseChannel, Late, TypeOK
<1>13. CASE Reply \/ FinalFlush
  BY <1>13, AtType DEF Reply, FinalFlush, Ended
<1>14. CASE UNCHANGED vars
  BY <1>14 DEF vars
<1> QED
  BY <1>1, <1>2, <1>3, <1>4, <1>5, <1>6, <1>7, <1>8, <1>9, <1>10, <1>11,
     <1>12, <1>13, <1>14
  DEF Next, WorkerStep

(***************************************************************************)
(* What is left in the queue and the parking slot behind the drain         *)
(***************************************************************************)
LEMMA DrainStep ==
  TypeOK /\ PlaceInv /\ OpenInv /\ DrainInv /\ [Next]_vars => DrainInv'
<1> SUFFICES ASSUME TypeOK, PlaceInv, OpenInv, DrainInv, [Next]_vars
             PROVE  DrainInv'
  OBVIOUS
<1> USE DEF DrainInv, PastDrain
<1>w. /\ worker.after \in {"loop", "drain", "shutdown", "final"}
      /\ worker.job \in Job
  BY WorkerFields DEF TypeOK
<1>1. CASE \/ \E c \in Character : Handoff(c)
           \/ Park
  <2>1. shutdown = "open" /\ worker' = worker
    BY <1>1 DEF Handoff, Park, OpenInv
  <2> QED
    BY <2>1 DEF OpenInv
<1>2. CASE \/ \E c \in Character : SaveAwaited(c)
           \/ CallShutdown \/ ShutdownTimesOut
  BY <1>2 DEF SaveAwaited, CallShutdown, ShutdownTimesOut
<1>3. CASE EnqueueShutdown
  <2>1. [op |-> "shutdown"] \in Job
    BY DEF Job
  <2> QED
    BY <1>3, <2>1, QueueTakes DEF EnqueueShutdown
<1>4. CASE EnqueueAwaited
  <2>1. PICK s \in awaiting :
          queue' = Append(queue, [op |-> "awaited", snapshot |-> s])
    BY <1>4 DEF EnqueueAwaited
  <2>2. [op |-> "awaited", snapshot |-> s] \in Job
    BY DEF Job, TypeOK
  <2> QED
    BY <1>4, <2>1, <2>2, QueueTakes DEF EnqueueAwaited
<1>5. CASE EnqueueOther
  BY <1>5, OtherJobType, QueueTakes DEF EnqueueOther
<1>6. CASE Receive
  <2>1. CASE stop
    BY <1>6, <2>1 DEF Receive
  <2>2. CASE ~stop
    BY <1>6, <2>2 DEF Receive
  <2> QED
    BY <2>1, <2>2
<1>7. CASE RunSave \/ RunOther \/ RunShutdown
  BY <1>7, AtType DEF RunSave, RunOther, RunShutdown
<1>8. CASE Drain
  <2>1. CASE stop
    BY <1>8, <2>1 DEF Drain
  <2>2. CASE ~stop /\ Head(queue).op = "save"
    <3>1. worker' = Writing("drain", Head(queue).snapshot)
      BY <1>8, <2>2 DEF Drain
    <3> QED
      BY <1>8, <2>2, <3>1, QueueGives, JobSnapshot, WritingType DEF Drain
  <2>3. CASE ~stop /\ Head(queue).op # "save"
    BY <1>8, <2>3, <1>w DEF Drain, PlaceInv
  <2> QED
    BY <2>1, <2>2, <2>3
<1>9. CASE Drained
  BY <1>9, AtType, JobsEmpty DEF Drained
<1>10. CASE TakeParked
  BY <1>10, <1>w, AtType DEF TakeParked
<1>11. CASE FlushNext
  <2>1. worker'.stage = "write" /\ worker'.after = worker.after
    BY <1>11, <1>w, WritingType DEF FlushNext, TypeOK
  <2> QED
    BY <1>11, <2>1 DEF FlushNext, PlaceInv
<1>12. CASE FlushEnds
  BY <1>12, <1>w, AtType DEF FlushEnds, Flushed, Ended, PlaceInv
<1>13. CASE Write
  <2>1. \/ worker'.stage = "drain" /\ worker'.after = "shutdown"
        \/ worker'.stage = "flushing" /\ worker'.after = worker.after
    BY <1>13, <1>w, AtType DEF Write
  <2> QED
    BY <1>13, <2>1 DEF Write, PlaceInv
<1>14. CASE AdmitRelease \/ ReleaseChannel \/ Reply \/ FinalFlush
  BY <1>14, <1>w, AtType
  DEF AdmitRelease, ReleaseChannel, Reply, FinalFlush, Ended, PlaceInv
<1>15. CASE UNCHANGED vars
  BY <1>15 DEF vars
<1> QED
  BY <1>1, <1>2, <1>3, <1>4, <1>5, <1>6, <1>7, <1>8, <1>9, <1>10, <1>11,
     <1>12, <1>13, <1>14, <1>15
  DEF Next, WorkerStep

(***************************************************************************)
(* No snapshot is lost on its way                                          *)
(***************************************************************************)
Kept(d) == handed[d] = 0 \/ Tried(d) \/ OnWay(d)

(* Nothing but the queue and the worker's own place moved, and neither     *)
(* gave up a snapshot.                                                     *)
LEMMA KeptInPlace ==
  ASSUME NEW d \in Character, Kept(d),
         UNCHANGED <<handed, parking, parked, flushing, attempted>>,
         \A j \in Jobs(queue) : j.op = "save" => j \in Jobs(queue'),
         \/ worker' = worker
         \/ worker.stage \notin {"run", "write"}
         \/ worker.job.op # "save"
  PROVE  Kept(d)'
  BY DEF Kept, Tried, OnWay, Covers

LEMMA KeptTried ==
  ASSUME TypeOK, NEW d \in Character, Kept(d), NEW s \in Snapshot,
         Attempt(s),
         worker.stage \in {"run", "write"}, worker.job.snapshot = s,
         UNCHANGED <<handed, parking, parked, flushing, queue>>
  PROVE  Kept(d)'
<1>1. attempted'[s.character] = attempted[s.character] \cup {s.revision}
  BY SnapshotFields DEF Attempt, TypeOK
<1>2. attempted[d] \subseteq attempted'[d]
  BY SnapshotFields DEF Attempt, TypeOK
<1>3. Covers(s, d) => Tried(d)'
  BY <1>1 DEF Covers, Tried
<1>4. Tried(d) => Tried(d)'
  BY <1>2 DEF Tried
<1> QED
  BY <1>3, <1>4 DEF Kept, OnWay, Covers

LEMMA HandedStep ==
  TypeOK /\ PlaceInv /\ OpenInv /\ HandedInv /\ [Next]_vars => HandedInv'
<1> SUFFICES ASSUME TypeOK, PlaceInv, OpenInv, HandedInv, [Next]_vars, ~stop',
                    NEW d \in Character
             PROVE  Kept(d)'
  BY DEF HandedInv, Kept
<1>s. ~stop
  BY DEF Next, WorkerStep, vars, Handoff, SaveAwaited, Park, CallShutdown,
         ShutdownTimesOut, EnqueueShutdown, EnqueueAwaited, EnqueueOther,
         Receive, RunSave, RunOther, RunShutdown, Drain, Drained, TakeParked,
         FlushNext, FlushEnds, Write, AdmitRelease, ReleaseChannel, Reply,
         FinalFlush
<1>k. Kept(d)
  BY <1>s DEF HandedInv, Kept
<1>w. /\ worker.after \in {"loop", "drain", "shutdown", "final"}
      /\ worker.job \in Job
  BY WorkerFields DEF TypeOK
<1>1. ASSUME NEW c \in Character, Handoff(c)
      PROVE  Kept(d)'
  <2> DEFINE snapshot == [character |-> c, revision |-> revision[c] + 1]
  <2>1. /\ snapshot \in Snapshot
        /\ snapshot.character = c
        /\ snapshot.revision = handed'[c]
        /\ handed'[c] >= handed'[c]
    BY <1>1 DEF Snapshot, TypeOK, Handoff
  <2>2. c # d => handed'[d] = handed[d]
    BY <1>1 DEF TypeOK, Handoff
  <2>3. CASE Room /\ queue' = Append(queue, SaveJob(snapshot)) /\ parking' = parking
    <3>1. Jobs(queue') = Jobs(queue) \cup {SaveJob(snapshot)}
      BY <2>1, <2>3, SaveJobType, QueueTakes
    <3>2. CASE c = d
      BY <2>1, <3>1, <3>2, SaveJobType DEF Kept, OnWay, Covers
    <3>3. CASE c # d
      BY <1>1, <1>k, <2>2, <2>3, <3>1, <3>3
      DEF Handoff, Kept, Tried, OnWay, Covers
    <3> QED
      BY <3>2, <3>3
  <2>4. CASE parking' = {snapshot} /\ queue' = queue
    <3>1. CASE c = d
      BY <2>1, <2>4, <3>1 DEF Kept, OnWay, Covers
    <3>2. CASE c # d
      BY <1>1, <1>k, <2>2, <2>4, <3>2 DEF Handoff, Kept, Tried, OnWay, Covers
    <3> QED
      BY <3>1, <3>2
  <2> QED
    BY <1>1, <2>3, <2>4 DEF Handoff
<1>2. CASE \/ \E c \in Character : SaveAwaited(c)
           \/ CallShutdown \/ ShutdownTimesOut
  BY <1>2, <1>k, KeptInPlace DEF SaveAwaited, CallShutdown, ShutdownTimesOut
<1>3. CASE Park
  <2>1. PICK s \in parking :
          parked' = [parked EXCEPT ![s.character] =
                       IF s.revision > @ THEN s.revision ELSE @]
    BY <1>3 DEF Park
  <2>2. parked'[d] >= parked[d]
    BY <2>1, SnapshotFields DEF TypeOK
  <2>3. parked'[s.character] >= s.revision
    BY <2>1, SnapshotFields DEF TypeOK
  <2>4. /\ parked[d] \in Nat /\ parked'[d] \in Nat
        /\ handed[d] \in Nat
        /\ s.revision \in Nat
    BY <1>3, <2>1, SnapshotFields, TypeStep DEF TypeOK
  <2>5. parked[d] >= handed[d] => parked'[d] >= handed[d]
    BY <2>2, <2>4
  <2>6. (\E x \in parking : Covers(x, d)) => parked'[d] >= handed[d]
    <3>1. SUFFICES ASSUME NEW x \in parking, Covers(x, d)
                   PROVE  parked'[d] >= handed[d]
      OBVIOUS
    <3>2. x = s
      BY DEF OpenInv
    <3>3. parked'[d] >= s.revision
      BY <2>3, <3>1, <3>2 DEF Covers
    <3> QED
      BY <2>4, <3>1, <3>2, <3>3 DEF Covers
  <2> QED
    BY <1>3, <1>k, <2>5, <2>6 DEF Park, Kept, Tried, OnWay, Covers
<1>4. CASE EnqueueShutdown
  <2>1. [op |-> "shutdown"] \in Job
    BY DEF Job
  <2> QED
    BY <1>4, <1>k, <2>1, QueueTakes, KeptInPlace DEF EnqueueShutdown
<1>5. CASE EnqueueAwaited
  <2>1. PICK s \in awaiting :
          queue' = Append(queue, [op |-> "awaited", snapshot |-> s])
    BY <1>5 DEF EnqueueAwaited
  <2>2. [op |-> "awaited", snapshot |-> s] \in Job
    BY DEF Job, TypeOK
  <2> QED
    BY <1>5, <1>k, <2>1, <2>2, QueueTakes, KeptInPlace DEF EnqueueAwaited
<1>6. CASE EnqueueOther
  BY <1>6, <1>k, OtherJobType, QueueTakes, KeptInPlace DEF EnqueueOther
<1>7. CASE Receive
  <2>1. /\ worker'.stage = "run"
        /\ worker'.job = Head(queue)
        /\ Jobs(queue) = {Head(queue)} \cup Jobs(queue')
    BY <1>7, <1>s, QueueGives DEF Receive
  <2> QED
    BY <1>7, <1>k, <2>1 DEF Receive, Kept, Tried, OnWay, Covers
<1>8. CASE RunSave
  BY <1>8, <1>k, <1>w, JobSnapshot, KeptTried DEF RunSave
<1>9. CASE RunOther \/ RunShutdown
  BY <1>9, <1>k, KeptInPlace DEF RunOther, RunShutdown
<1>10. CASE Drain
  <2>1. /\ Head(queue) \in Job
        /\ Jobs(queue) = {Head(queue)} \cup Jobs(queue')
    BY <1>10, QueueGives DEF Drain
  <2>2. CASE Head(queue).op = "save"
    <3>1. worker' = Writing("drain", Head(queue).snapshot)
      BY <1>10, <1>s, <2>2 DEF Drain
    <3>2. /\ worker'.stage = "write"
          /\ worker'.job.op = "save"
          /\ worker'.job.snapshot = Head(queue).snapshot
      BY <2>1, <2>2, <3>1, JobSnapshot, WritingType
    <3> QED
      BY <1>10, <1>k, <2>1, <2>2, <3>2 DEF Drain, Kept, Tried, OnWay, Covers
  <2>3. CASE Head(queue).op # "save"
    BY <1>10, <1>k, <2>1, <2>3, KeptInPlace DEF Drain
  <2> QED
    BY <2>2, <2>3
<1>11. CASE Drained
  BY <1>11, <1>k, KeptInPlace DEF Drained
<1>12. CASE TakeParked
  <2>1. ASSUME parked[d] >= handed[d], handed[d] # 0
        PROVE  \E s \in flushing' : Covers(s, d)'
    <3>1. parked[d] # 0
      BY <2>1 DEF TypeOK
    <3>2. [character |-> d, revision |-> parked[d]] \in flushing'
      BY <1>12, <3>1 DEF TakeParked
    <3> QED
      BY <1>12, <2>1, <3>2 DEF TakeParked, Covers
  <2>2. flushing = {} /\ worker.stage \notin {"run", "write"}
    BY <1>12 DEF TakeParked, PlaceInv
  <2> QED
    BY <1>12, <1>k, <2>1, <2>2 DEF TakeParked, Kept, Tried, OnWay, Covers
<1>13. CASE FlushNext
  <2>1. PICK s \in flushing :
          /\ flushing' = flushing \ {s}
          /\ worker' = Writing(worker.after, s)
    BY <1>13 DEF FlushNext
  <2>2. /\ worker'.stage = "write"
        /\ worker'.job.op = "save"
        /\ worker'.job.snapshot = s
    BY <1>w, <2>1, WritingType DEF TypeOK
  <2> QED
    BY <1>13, <1>k, <2>1, <2>2 DEF FlushNext, Kept, Tried, OnWay, Covers
<1>14. CASE FlushEnds
  BY <1>14, <1>k, <1>s, KeptInPlace DEF FlushEnds
<1>15. CASE Write
  BY <1>15, <1>k, <1>w, JobSnapshot, KeptTried DEF Write, PlaceInv
<1>16. CASE AdmitRelease \/ ReleaseChannel \/ Reply \/ FinalFlush
  BY <1>16, <1>k, KeptInPlace DEF AdmitRelease, ReleaseChannel, Reply, FinalFlush
<1>17. CASE UNCHANGED vars
  BY <1>17, <1>k, KeptInPlace DEF vars
<1> QED
  BY <1>1, <1>2, <1>3, <1>4, <1>5, <1>6, <1>7, <1>8, <1>9, <1>10, <1>11,
     <1>12, <1>13, <1>14, <1>15, <1>16, <1>17
  DEF Next, WorkerStep

(***************************************************************************)
(* The release of the channel                                              *)
(***************************************************************************)
(* Behind the drain and the flush nothing is underway.                     *)
LEMMA NothingUnderway ==
  ASSUME TypeOK, PlaceInv, OpenInv, DrainInv, HandedInv,
         worker.stage = "release", ~stop
  PROVE  shutdown # "open" /\ AllTried
<1>1. worker.after = "shutdown"
  BY WorkerFields DEF TypeOK, PlaceInv
<1>2. shutdown # "open"
  BY <1>1 DEF OpenInv
<1>3. /\ parking = {}
      /\ flushing = {}
      /\ \A j \in Jobs(queue) : j.op # "save"
      /\ \A c \in Character : parked[c] = 0
  BY <1>1, <1>2 DEF OpenInv, PlaceInv, DrainInv, PastDrain
<1>4. ASSUME NEW c \in Character, handed[c] # 0
      PROVE  Tried(c)
  <2>1. ~(parked[c] >= handed[c])
    BY <1>3, <1>4 DEF TypeOK
  <2>2. ~OnWay(c)
    BY <1>3, <2>1 DEF OnWay
  <2> QED
    BY <1>4, <2>2 DEF HandedInv
<1> QED
  BY <1>2, <1>4 DEF AllTried

LEMMA TriedStays ==
  ASSUME TypeOK, AllTried, shutdown # "open", [Next]_vars
  PROVE  AllTried' /\ shutdown' # "open"
<1>w. worker.job \in Job
  BY WorkerFields DEF TypeOK
<1>1. UNCHANGED handed /\ shutdown' # "open"
  BY DEF Next, WorkerStep, vars, Handoff, SaveAwaited, Park, CallShutdown,
         ShutdownTimesOut, EnqueueShutdown, EnqueueAwaited, EnqueueOther,
         Receive, RunSave, RunOther, RunShutdown, Drain, Drained, TakeParked,
         FlushNext, FlushEnds, Write, AdmitRelease, ReleaseChannel, Reply,
         FinalFlush
<1>2. ASSUME NEW c \in Character
      PROVE  attempted[c] \subseteq attempted'[c]
  <2>1. CASE RunSave \/ Write
    BY <2>1 DEF RunSave, Write, Attempt, TypeOK
  <2>2. CASE UNCHANGED attempted
    BY <2>2
  <2> QED
    BY <2>1, <2>2
    DEF Next, WorkerStep, vars, Handoff, SaveAwaited, Park, CallShutdown,
        ShutdownTimesOut, EnqueueShutdown, EnqueueAwaited, EnqueueOther,
        Receive, RunOther, RunShutdown, Drain, Drained, TakeParked,
        FlushNext, FlushEnds, AdmitRelease, ReleaseChannel, Reply, FinalFlush
<1> QED
  BY <1>1, <1>2 DEF AllTried, Tried

LEMMA ReleaseStep ==
  /\ TypeOK /\ PlaceInv /\ OpenInv /\ DrainInv /\ HandedInv /\ ReleaseInv
  /\ [Next]_vars
  => ReleaseInv'
<1> SUFFICES ASSUME TypeOK, PlaceInv, OpenInv, DrainInv, HandedInv, ReleaseInv,
                    [Next]_vars
             PROVE  ReleaseInv'
  OBVIOUS
<1>w. worker.after \in {"loop", "drain", "shutdown", "final"}
  BY WorkerFields DEF TypeOK
<1>1. released \/ worker.stage = "releasing" => shutdown' # "open" /\ AllTried'
  BY TriedStays DEF ReleaseInv
<1>2. CASE UNCHANGED <<worker, released, shutdown>>
  BY <1>1, <1>2 DEF ReleaseInv
<1>3. CASE CallShutdown \/ ShutdownTimesOut \/ EnqueueShutdown
  BY <1>1, <1>3 DEF CallShutdown, ShutdownTimesOut, EnqueueShutdown, ReleaseInv
<1>4. CASE Receive
  BY <1>1, <1>4, AtType DEF Receive, Ended, ReleaseInv
<1>5. CASE RunSave \/ RunOther \/ RunShutdown
  BY <1>1, <1>5, AtType DEF RunSave, RunOther, RunShutdown, ReleaseInv
<1>6. CASE Drain
  <2>1. worker'.stage \notin {"releasing", "reply"}
    <3>1. CASE stop
      BY <1>6, <3>1, AtType DEF Drain, Ended
    <3>2. CASE ~stop /\ Head(queue).op = "save"
      BY <1>6, <3>2, QueueGives, JobSnapshot, WritingType DEF Drain
    <3>3. CASE ~stop /\ Head(queue).op # "save"
      BY <1>6, <3>3 DEF Drain
    <3> QED
      BY <3>1, <3>2, <3>3
  <2> QED
    BY <1>1, <1>6, <2>1 DEF Drain, ReleaseInv
<1>7. CASE Drained
  BY <1>1, <1>7, AtType DEF Drained, Ended, ReleaseInv
<1>8. CASE TakeParked
  BY <1>1, <1>8, <1>w, AtType DEF TakeParked, ReleaseInv
<1>9. CASE FlushNext
  BY <1>1, <1>9, <1>w, WritingType DEF FlushNext, TypeOK, ReleaseInv
<1>10. CASE FlushEnds
  BY <1>1, <1>10, <1>w, AtType DEF FlushEnds, Flushed, Ended, PlaceInv, ReleaseInv
<1>11. CASE Write
  <2>1. worker'.stage \in {"drain", "flushing"}
    BY <1>11, <1>w, AtType DEF Write
  <2> QED
    BY <1>1, <1>11, <2>1 DEF Write, ReleaseInv
<1>12. CASE AdmitRelease
  <2>1. CASE stop
    BY <1>1, <1>12, <2>1, AtType DEF AdmitRelease, Ended, ReleaseInv
  <2>2. CASE ~stop
    <3>1. shutdown' # "open" /\ AllTried'
      BY <1>12, <2>2, NothingUnderway, TriedStays DEF AdmitRelease
    <3> QED
      BY <1>12, <2>2, <3>1, AtType DEF AdmitRelease, ReleaseInv
  <2> QED
    BY <2>1, <2>2
<1>13. CASE ReleaseChannel
  BY <1>1, <1>13, AtType DEF ReleaseChannel, ReleaseInv
<1>14. CASE Reply
  BY <1>1, <1>14, AtType DEF Reply, ReleaseInv
<1>15. CASE FinalFlush
  BY <1>1, <1>15, AtType DEF FinalFlush, Ended, ReleaseInv
<1> QED
  BY <1>2, <1>3, <1>4, <1>5, <1>6, <1>7, <1>8, <1>9, <1>10, <1>11, <1>12,
     <1>13, <1>14, <1>15
  DEF Next, WorkerStep, vars, Handoff, SaveAwaited, Park, EnqueueAwaited,
      EnqueueOther
-----------------------------------------------------------------------------
(***************************************************************************)
(* The theorems                                                            *)
(***************************************************************************)
LEMMA InitInv == Init => IInv
<1> SUFFICES ASSUME Init PROVE IInv
  OBVIOUS
<1>1. TypeOK /\ PlaceInv
  BY TypeInit
<1>2. worker.stage = "recv" /\ worker.after = "loop"
  BY AtType DEF Init
<1>3. Jobs(queue) = {}
  BY JobsEmpty DEF Init
<1>4. OpenInv /\ DrainInv
  BY <1>2, <1>3 DEF Init, OpenInv, DrainInv, PastDrain
<1>5. HandedInv /\ ReleaseInv /\ LateInv
  BY <1>2 DEF Init, HandedInv, ReleaseInv, LateInv
<1> QED
  BY <1>1, <1>4, <1>5 DEF IInv

LEMMA StepInv == IInv /\ [Next]_vars => IInv'
  BY TypeStep, OpenStep, DrainStep, HandedStep, ReleaseStep, LateStep DEF IInv

LEMMA Invariance == Spec => []IInv
  BY InitInv, StepInv, PTL DEF Spec

(* Every variable keeps its type, and the queue its capacity.              *)
THEOREM TypeCorrect == Spec => []TypeOK
<1>1. IInv => TypeOK
  BY DEF IInv
<1> QED
  BY <1>1, Invariance, PTL

(* After a shutdown has timed out, at most one write or release begins.    *)
THEOREM OneLateWrite == Spec => []AtMostOneLate
<1>1. IInv => AtMostOneLate
  BY DEF IInv, LateInv, AtMostOneLate
<1> QED
  BY <1>1, Invariance, PTL

(* The channel is released, and a shutdown answered "drained", only after  *)
(* a write of the last snapshot handed over of every character was tried,  *)
(* whether it was queued or parked.                                        *)
THEOREM SavesBeforeRelease == Spec => []ReleasedAfterSaves
<1>1. IInv => ReleasedAfterSaves
  BY DEF IInv, ReleaseInv, ReleasedAfterSaves, AllTried, Tried
<1> QED
  BY <1>1, Invariance, PTL

-----------------------------------------------------------------------------
(***************************************************************************)
(* SimRuntime                                                              *)
(***************************************************************************)
Id == [slot : Nat \ {0}, gen : Nat \ {0}]
Lane == {"critical", "deferred"}
Kind == {"advance", "spawn", "despawn"}
Phase == {"windup", "active", "recovery"}
Owner == Entity \cup {World}
Thing == Id \cup Npc
JobSet == [due : Int, seq : Nat, owner : Owner, lane : Lane, kind : Kind, of : Thing]
ActionSet == [owner : Player, ability : Ability, phase : Phase]
RequestSet == [home : Home]
NpcSet == [home : Home, state : {"alive", "dying", "gone"}]
TableOf(S) == [slots : Seq(S \cup {Nothing}), gens : Seq(Nat \ {0}), free : Seq(Nat)]

WorldState ==
  [jobs : TableOf(JobSet), owned : [Entity -> SUBSET Id],
   actions : TableOf(ActionSet), holds : [Player -> Id \cup {Nothing}],
   spawns : TableOf(RequestSet), body : [Player -> {"alive", "dead", "out"}],
   npcs : Seq(NpcSet), cooling : [Player -> [Ability -> Nat]],
   starts : 0 .. MaxStarts, refused : BOOLEAN]

(* The free list of a table names its empty slots, each once.              *)
Sound(t) ==
  /\ Len(t.slots) = Len(t.gens)
  /\ IsInjective(t.free) /\ ToSet(t.free) = {s \in DOMAIN t.slots : t.slots[s] = Nothing}

(* The identity has been given out.                                        *)
Given(t, id) ==
  /\ id.slot \in DOMAIN t.slots /\ id.gen <= t.gens[id.slot]
  /\ id.gen = t.gens[id.slot] => id \in Ids(t)

Tables(w) == Sound(w.jobs) /\ Sound(w.actions) /\ Sound(w.spawns)

(* A job names something its table has given out, and keeps to its lane    *)
(* and its owner.                                                           *)
Right(w, j) ==
  CASE j.kind = "advance" ->
         /\ j.lane = "critical" /\ j.owner \in Player /\ j.of \in Id /\ Given(w.actions, j.of)
         /\ j.of \in Ids(w.actions) => Action(w, j.of).owner = j.owner
    [] j.kind = "spawn" ->
         j.lane = "deferred" /\ j.owner = World /\ j.of \in Id /\ Given(w.spawns, j.of)
    [] j.kind = "despawn" ->
         /\ j.lane = "deferred" /\ j.owner = j.of /\ j.of \in DOMAIN w.npcs
         /\ w.npcs[j.of].state # "alive"
AllRight(w, f) ==
  /\ \A id \in Timers(w) : Right(w, JobOf(w, id))
  /\ \A i \in DOMAIN f : Right(w, f[i])

(* No two jobs that are coming are for the same thing.                     *)
Same(j, k) == j.kind = k.kind /\ j.of = k.of
Unique(w, f) ==
  /\ \A a, b \in Timers(w) : Same(JobOf(w, a), JobOf(w, b)) => a = b
  /\ \A i, k \in DOMAIN f : Same(f[i], f[k]) => i = k
  /\ \A a \in Timers(w), i \in DOMAIN f : ~Same(JobOf(w, a), f[i])
  /\ \A a, b \in Timers(w) : JobOf(w, a).seq = JobOf(w, b).seq => a = b

IsComing(w, f, kind, of) ==
  \/ \E id \in Timers(w) : JobOf(w, id).kind = kind /\ JobOf(w, id).of = of
  \/ \E i \in DOMAIN f : f[i].kind = kind /\ f[i].of = of

InWorld(w, e) ==
  /\ e \in Player => w.body[e] # "out"
  /\ e \in Npc => e \in DOMAIN w.npcs /\ w.npcs[e].state = "dying"
Owned(w) ==
  /\ \A e \in Entity : w.owned[e] = {id \in Timers(w) : JobOf(w, id).owner = e}
  /\ \A id \in Timers(w) : InWorld(w, JobOf(w, id).owner)

Acting(w) ==
  /\ \A id \in Ids(w.actions) :
       w.holds[Action(w, id).owner] = id /\ w.body[Action(w, id).owner] = "alive"
  /\ \A p \in Player : w.holds[p] # Nothing =>
       w.holds[p] \in Ids(w.actions) /\ Action(w, w.holds[p]).owner = p

Uncrowded(w) == Len(w.npcs) + Cardinality(Ids(w.spawns)) <= MaxNpc
Bounded(w) == Cardinality(Timers(w)) <= Capacity /\ Uncrowded(w)

Timed(w, f, ids) == \A id \in ids : w.refused \/ IsComing(w, f, "advance", id)
Asked(w, f, ids) == \A id \in ids : IsComing(w, f, "spawn", id)
Dying(w) == {n \in DOMAIN w.npcs : w.npcs[n].state = "dying"}
Corpses(w, f, ns) == \A n \in ns : w.refused \/ IsComing(w, f, "despawn", n)

(* A corpse is gone before the replacement of its home stands.             *)
IsFor(j, kind, of) == j.kind = kind /\ j.of = of
CorpseFirst(w, f, n, a) ==
  /\ \A x, y \in Timers(w) :
       IsFor(JobOf(w, x), "despawn", n) /\ IsFor(JobOf(w, y), "spawn", a) =>
         JobOf(w, x).due < JobOf(w, y).due
  /\ \A i, k \in DOMAIN f : IsFor(f[i], "despawn", n) /\ IsFor(f[k], "spawn", a) => i < k
  /\ \A x \in Timers(w), k \in DOMAIN f :
       ~(IsFor(JobOf(w, x), "despawn", n) /\ IsFor(f[k], "spawn", a))

HomeOf(w, a) == Item(w.spawns, a).home
Populated(w, f) ==
  ~w.refused =>
    /\ \A n, m \in DOMAIN w.npcs :
         w.npcs[n].state # "gone" /\ w.npcs[m].state # "gone"
           /\ w.npcs[n].home = w.npcs[m].home => n = m
    /\ \A a, b \in Ids(w.spawns) : HomeOf(w, a) = HomeOf(w, b) => a = b
    /\ \A n \in AliveNpcs(w), a \in Ids(w.spawns) : w.npcs[n].home # HomeOf(w, a)
    /\ \A h \in Home : \/ \E n \in AliveNpcs(w) : w.npcs[n].home = h
                       \/ \E a \in Ids(w.spawns) : HomeOf(w, a) = h
    /\ \A n \in Dying(w), a \in Ids(w.spawns) :
         w.npcs[n].home = HomeOf(w, a) => CorpseFirst(w, f, n, a)

Base(w, f) ==
  /\ w \in WorldState /\ f \in Seq(JobSet)
  /\ Tables(w) /\ AllRight(w, f) /\ Unique(w, f) /\ Owned(w) /\ Acting(w) /\ Bounded(w)

(* What is coming, but for the actions in ids.                             *)
Rest(w, f) ==
  Asked(w, f, Ids(w.spawns)) /\ Corpses(w, f, Dying(w)) /\ Populated(w, f)
Owing(w, f, ids) ==
  Base(w, f) /\ Timed(w, f, Ids(w.actions) \ ids) /\ Rest(w, f)

SimInv ==
  /\ phase \in {"messages", "critical", "inputs", "deferred"} /\ stopped \subseteq Player
  /\ Owing(world, fired, {}) /\ \A i \in DOMAIN fired : fired[i].lane = phase

-----------------------------------------------------------------------------
(***************************************************************************)
(* Tables                                                                  *)
(***************************************************************************)

LEMMA NotNothing ==
  Nothing \notin JobSet /\ Nothing \notin ActionSet /\ Nothing \notin RequestSet
<1>1. ASSUME Nothing \in JobSet PROVE FALSE
  <2>1. "due" \in DOMAIN Nothing
    BY <1>1 DEF JobSet
  <2>2. DOMAIN Nothing = {"gen"}
    BY DEF Nothing
  <2> QED
    BY <2>1, <2>2
<1>2. ASSUME Nothing \in ActionSet PROVE FALSE
  <2>1. "owner" \in DOMAIN Nothing
    BY <1>2 DEF ActionSet
  <2>2. DOMAIN Nothing = {"gen"}
    BY DEF Nothing
  <2> QED
    BY <2>1, <2>2
<1>3. ASSUME Nothing \in RequestSet PROVE FALSE
  <2>1. "home" \in DOMAIN Nothing
    BY <1>3 DEF RequestSet
  <2>2. DOMAIN Nothing = {"gen"}
    BY DEF Nothing
  <2> QED
    BY <2>1, <2>2
<1> QED
  BY <1>1, <1>2, <1>3

LEMMA IdParts ==
  ASSUME NEW x \in Id
  PROVE  /\ x.slot \in Nat /\ x.slot > 0 /\ x.gen \in Nat /\ x.gen > 0
         /\ x = [slot |-> x.slot, gen |-> x.gen] /\ x # Nothing
<1>1. x.slot \in Nat \ {0} /\ x.gen \in Nat \ {0} /\ x = [slot |-> x.slot, gen |-> x.gen]
  BY DEF Id
<1>2. x # Nothing
  BY <1>1 DEF Nothing
<1> QED
  BY <1>1, <1>2

LEMMA Elements ==
  ASSUME NEW E, NEW s \in Seq(E)
  PROVE  Len(s) \in Nat /\ DOMAIN s = 1 .. Len(s) /\ \A i \in DOMAIN s : s[i] \in E
OBVIOUS

LEMMA TableParts ==
  ASSUME NEW S, NEW t \in TableOf(S)
  PROVE  /\ t.slots \in Seq(S \cup {Nothing}) /\ t.gens \in Seq(Nat \ {0}) /\ t.free \in Seq(Nat)
         /\ t = [slots |-> t.slots, gens |-> t.gens, free |-> t.free]
         /\ Len(t.slots) \in Nat /\ DOMAIN t.slots = 1 .. Len(t.slots)
         /\ Len(t.gens) \in Nat /\ DOMAIN t.gens = 1 .. Len(t.gens)
         /\ Len(t.free) \in Nat /\ DOMAIN t.free = 1 .. Len(t.free)
<1>1. /\ t.slots \in Seq(S \cup {Nothing}) /\ t.gens \in Seq(Nat \ {0}) /\ t.free \in Seq(Nat)
      /\ t = [slots |-> t.slots, gens |-> t.gens, free |-> t.free]
  BY DEF TableOf
<1> QED
  BY <1>1

(* What it is for an identity to name something.                           *)
LEMMA IdsOf ==
  ASSUME NEW S, NEW t \in TableOf(S), Sound(t)
  PROVE  /\ Ids(t) \subseteq Id
         /\ \A x \in Id : x \in Ids(t) <=>
              x.slot \in DOMAIN t.slots /\ t.slots[x.slot] # Nothing /\ x.gen = t.gens[x.slot]
         /\ \A x \in Ids(t) : Item(t, x) \in S /\ Given(t, x)
<1>1. DOMAIN t.slots = DOMAIN t.gens /\ DOMAIN t.slots \subseteq Nat \ {0}
  BY TableParts DEF Sound
<1>2. \A s \in DOMAIN t.slots : t.gens[s] \in Nat \ {0} /\ t.slots[s] \in S \cup {Nothing}
  <2>1. \A s \in DOMAIN t.slots : t.gens[s] \in Nat \ {0}
    <3>1. t.gens \in Seq(Nat \ {0})
      BY TableParts
    <3> QED
      BY <1>1, <3>1, Elements
  <2>2. \A s \in DOMAIN t.slots : t.slots[s] \in S \cup {Nothing}
    <3>1. t.slots \in Seq(S \cup {Nothing})
      BY TableParts
    <3> QED
      BY <3>1, Elements
  <2> QED
    BY <2>1, <2>2
<1>3. ASSUME NEW x \in Ids(t)
      PROVE  x \in Id /\ x.slot \in DOMAIN t.slots /\ t.slots[x.slot] # Nothing
             /\ x.gen = t.gens[x.slot]
  <2>1. PICK s \in DOMAIN t.slots : t.slots[s] # Nothing /\ x = [slot |-> s, gen |-> t.gens[s]]
    BY DEF Ids
  <2> QED
    BY <1>1, <1>2, <2>1 DEF Id
<1>4. ASSUME NEW x \in Id, x.slot \in DOMAIN t.slots, t.slots[x.slot] # Nothing,
             x.gen = t.gens[x.slot]
      PROVE  x \in Ids(t)
  BY <1>4, IdParts DEF Ids
<1>5. \A x \in Ids(t) : Item(t, x) \in S
  BY <1>2, <1>3 DEF Item
<1>6. \A x \in Ids(t) : Given(t, x)
  <2> SUFFICES ASSUME NEW x \in Ids(t) PROVE Given(t, x)
    OBVIOUS
  <2>1. x.gen \in Nat
    BY <1>3, IdParts
  <2> QED
    BY <1>3, <2>1 DEF Given
<1> QED
  BY <1>3, <1>4, <1>5, <1>6

LEMMA IdsFinite ==
  ASSUME NEW S, NEW t \in TableOf(S)
  PROVE  IsFiniteSet(Ids(t)) /\ Cardinality(Ids(t)) \in Nat
<1> DEFINE D == {s \in DOMAIN t.slots : t.slots[s] # Nothing}
           g == [s \in D |-> [slot |-> s, gen |-> t.gens[s]]]
<1>1. IsFiniteSet(1 .. Len(t.slots))
  <2>1. Len(t.slots) \in Nat
    BY TableParts
  <2> HIDE DEF D, g
  <2>2. 0 \in Int /\ 1 \in Int /\ Len(t.slots) \in Int
    BY <2>1
  <2> QED
    BY <2>2, FS_Interval
<1>2. IsFiniteSet(D)
  BY <1>1, TableParts, FS_Subset
<1>3. g \in Surjection(D, Ids(t))
  BY DEF Surjection, Ids
<1> QED
  BY <1>2, <1>3, FS_Surjection, FS_CardinalityType

(* A finite set as a sequence: each element once.                          *)
LEMMA SetSequence ==
  ASSUME NEW S, IsFiniteSet(S)
  PROVE  /\ SetToSeq(S) \in Seq(S) /\ IsInjective(SetToSeq(S)) /\ ToSet(SetToSeq(S)) = S
         /\ Len(SetToSeq(S)) = Cardinality(S)
<1>1. Cardinality(S) \in Nat /\ ExistsBijection(1 .. Cardinality(S), S)
  BY FS_CardinalityType
<1>2. PICK g : g \in Bijection(1 .. Cardinality(S), S)
  BY <1>1 DEF ExistsBijection
<1>3. g \in [1 .. Cardinality(S) -> S] /\ IsInjective(g)
  BY <1>2 DEF Bijection, Injection
<1> DEFINE f == SetToSeq(S)
<1>4. f \in [1 .. Cardinality(S) -> S] /\ IsInjective(f)
  BY <1>3 DEF SetToSeq
<1> HIDE DEF f
<1>5. IsFiniteSet(1 .. Cardinality(S)) /\ Cardinality(1 .. Cardinality(S)) = Cardinality(S)
  BY <1>1, FS_Interval
<1>6. f \in Injection(1 .. Cardinality(S), S)
  BY <1>4 DEF Injection
<1>7. f \in Surjection(1 .. Cardinality(S), S)
  BY <1>5, <1>6, FS_Injection
<1>8. f \in Seq(S) /\ Len(f) = Cardinality(S) /\ DOMAIN f = 1 .. Cardinality(S)
  BY <1>1, <1>4
<1>9. ToSet(f) = S
  BY <1>4, <1>7, <1>8 DEF ToSet, Surjection
<1> QED
  BY <1>4, <1>8, <1>9 DEF f

LEMMA PutNew ==
  ASSUME NEW S, NEW t \in TableOf(S), Sound(t), NEW item \in S, item # Nothing, t.free = <<>>
  PROVE  LET u == Put(t, item)  id == NextId(t)
         IN  /\ u \in TableOf(S) /\ Sound(u) /\ id \in Id
             /\ id.slot \notin DOMAIN t.slots
             /\ DOMAIN u.slots = DOMAIN t.slots \cup {id.slot}
             /\ u.slots[id.slot] = item /\ u.gens[id.slot] = id.gen
             /\ \A s \in DOMAIN t.slots : u.slots[s] = t.slots[s] /\ u.gens[s] = t.gens[s]
<1> DEFINE u == Put(t, item)
           id == NextId(t)
           L == Len(t.slots)
<1>1. /\ t.slots \in Seq(S \cup {Nothing}) /\ t.gens \in Seq(Nat \ {0}) /\ L \in Nat
      /\ Len(t.gens) = L /\ DOMAIN t.slots = 1 .. L /\ DOMAIN t.gens = 1 .. L
  BY TableParts DEF Sound
<1>2. u = [slots |-> Append(t.slots, item), gens |-> Append(t.gens, 1), free |-> <<>>]
  BY DEF Put
<1>3. id = [slot |-> L + 1, gen |-> 1]
  BY DEF NextId
<1> HIDE DEF u, id
<1>4. u.slots = Append(t.slots, item) /\ u.gens = Append(t.gens, 1) /\ u.free = <<>>
  BY <1>2
<1>5. id.slot = L + 1 /\ id.gen = 1 /\ id \in Id
  BY <1>1, <1>3 DEF Id
<1>6. /\ u.slots \in Seq(S \cup {Nothing}) /\ Len(u.slots) = L + 1
      /\ DOMAIN u.slots = 1 .. L + 1 /\ u.slots[L + 1] = item
      /\ \A s \in 1 .. L : u.slots[s] = t.slots[s]
  BY <1>1, <1>4
<1>7. /\ u.gens \in Seq(Nat \ {0}) /\ Len(u.gens) = L + 1 /\ u.gens[L + 1] = 1
      /\ \A s \in 1 .. L : u.gens[s] = t.gens[s]
  BY <1>1, <1>4
<1>8. 1 .. L + 1 = (1 .. L) \cup {L + 1} /\ L + 1 \notin 1 .. L
  BY <1>1
<1>9. u \in TableOf(S)
  <2>1. u.free \in Seq(Nat)
    BY <1>4
  <2> QED
    BY <1>2, <1>4, <1>6, <1>7, <2>1 DEF TableOf
<1>10. Sound(u)
  <2>1. ToSet(t.free) = {} /\ ToSet(u.free) = {} /\ IsInjective(u.free)
    BY <1>4 DEF ToSet, IsInjective
  <2>2. \A s \in 1 .. L : t.slots[s] # Nothing
    BY <1>1, <2>1 DEF Sound
  <2>3. \A s \in 1 .. L + 1 : u.slots[s] # Nothing
    BY <1>6, <1>8, <2>2
  <2>4. {s \in DOMAIN u.slots : u.slots[s] = Nothing} = {}
    BY <1>6, <2>3
  <2> QED
    BY <1>6, <1>7, <2>1, <2>4 DEF Sound
<1>11. DOMAIN u.slots = DOMAIN t.slots \cup {id.slot} /\ id.slot \notin DOMAIN t.slots
  BY <1>1, <1>5, <1>6, <1>8
<1>12. \A s \in DOMAIN t.slots : u.slots[s] = t.slots[s] /\ u.gens[s] = t.gens[s]
  BY <1>1, <1>6, <1>7
<1> QED
  BY <1>5, <1>6, <1>7, <1>9, <1>10, <1>11, <1>12 DEF u, id

LEMMA PutAgain ==
  ASSUME NEW S, NEW t \in TableOf(S), Sound(t), NEW item \in S, item # Nothing, t.free # <<>>
  PROVE  LET u == Put(t, item)  id == NextId(t)
         IN  /\ u \in TableOf(S) /\ Sound(u) /\ id \in Id
             /\ id.slot \in DOMAIN t.slots /\ t.slots[id.slot] = Nothing
             /\ DOMAIN u.slots = DOMAIN t.slots /\ u.gens = t.gens
             /\ u.slots[id.slot] = item /\ t.gens[id.slot] = id.gen
             /\ \A s \in DOMAIN t.slots : s # id.slot => u.slots[s] = t.slots[s]
<1> DEFINE u == Put(t, item)
           id == NextId(t)
           K == Len(t.free)
           k == Last(t.free)
<1>1. /\ t.slots \in Seq(S \cup {Nothing}) /\ t.gens \in Seq(Nat \ {0}) /\ t.free \in Seq(Nat)
      /\ Len(t.slots) \in Nat /\ Len(t.gens) = Len(t.slots)
      /\ DOMAIN t.slots = 1 .. Len(t.slots) /\ DOMAIN t.gens = 1 .. Len(t.slots)
  BY TableParts DEF Sound
<1>2. K \in Nat /\ DOMAIN t.free = 1 .. K
  BY <1>1
<1>3. K # 0
  BY <1>1
<1>4. K \in 1 .. K /\ k = t.free[K]
  BY <1>2, <1>3 DEF Last
<1>5. k \in DOMAIN t.slots /\ t.slots[k] = Nothing
  BY <1>2, <1>4 DEF Sound, ToSet
<1>6. u = [slots |-> [t.slots EXCEPT ![k] = item], gens |-> t.gens, free |-> Front(t.free)]
  <2>1. t = [slots |-> t.slots, gens |-> t.gens, free |-> t.free]
    BY TableParts
  <2>2. u = [t EXCEPT !.slots[k] = item, !.free = Front(@)]
    BY DEF Put
  <2> HIDE DEF u, k, K
  <2> QED
    BY <2>1, <2>2
<1>7. id = [slot |-> k, gen |-> t.gens[k]]
  BY DEF NextId
<1> HIDE DEF u, id
<1>8. u.slots = [t.slots EXCEPT ![k] = item] /\ u.gens = t.gens /\ u.free = Front(t.free)
  BY <1>6
<1> HIDE DEF k
<1>9. id.slot = k /\ id.gen = t.gens[k] /\ id \in Id
  <2>1. t.gens[k] \in Nat \ {0}
    BY <1>1, <1>5, Elements
  <2> QED
    BY <1>1, <1>5, <1>7, <2>1 DEF Id
<1>10. /\ u.slots \in Seq(S \cup {Nothing}) /\ Len(u.slots) = Len(t.slots)
       /\ DOMAIN u.slots = DOMAIN t.slots /\ u.slots[k] = item
       /\ \A s \in DOMAIN t.slots : s # k => u.slots[s] = t.slots[s]
  <2>1. item \in S \cup {Nothing}
    OBVIOUS
  <2>2. u.slots \in Seq(S \cup {Nothing}) /\ Len(u.slots) = Len(t.slots)
    BY <1>1, <1>5, <1>8, <2>1
  <2> QED
    BY <1>1, <1>5, <1>8, <2>2
<1>11. /\ u.free \in Seq(Nat) /\ DOMAIN u.free = 1 .. K - 1
       /\ \A i \in 1 .. K - 1 : u.free[i] = t.free[i]
  <2>1. K - 1 \in Nat
    BY <1>2, <1>3
  <2> QED
    BY <1>1, <1>2, <1>8, <2>1 DEF Front
<1>12. u \in TableOf(S)
  BY <1>1, <1>6, <1>8, <1>10, <1>11 DEF TableOf
<1>13. IsInjective(u.free)
  <2>1. \A i, j \in 1 .. K - 1 : i \in 1 .. K /\ j \in 1 .. K
    BY <1>2
  <2> QED
    BY <1>2, <1>11, <2>1 DEF IsInjective, Sound
<1>14. ToSet(u.free) = ToSet(t.free) \ {k}
  <2>1. \A i \in 1 .. K - 1 : i \in 1 .. K /\ i # K
    BY <1>2
  <2>2. \A i \in 1 .. K : i # K => i \in 1 .. K - 1
    BY <1>2
  <2>3. \A i \in 1 .. K - 1 : t.free[i] # k
    BY <1>2, <1>4, <2>1 DEF IsInjective, Sound
  <2> QED
    BY <1>2, <1>4, <1>11, <2>1, <2>2, <2>3 DEF ToSet
<1>15. Sound(u)
  <2>1. ToSet(t.free) = {s \in DOMAIN t.slots : t.slots[s] = Nothing}
    BY DEF Sound
  <2>2. ToSet(u.free) = {s \in DOMAIN u.slots : u.slots[s] = Nothing}
    BY <1>5, <1>10, <1>14, <2>1
  <2> QED
    BY <1>1, <1>8, <1>10, <1>13, <2>2 DEF Sound
<1> QED
  BY <1>5, <1>8, <1>9, <1>10, <1>12, <1>15 DEF u, id

(* The new item has an identity nothing ever had.                          *)
LEMMA PutFacts ==
  ASSUME NEW S, NEW t \in TableOf(S), Sound(t), NEW item \in S, item # Nothing
  PROVE  LET u == Put(t, item)  id == NextId(t)
         IN  /\ u \in TableOf(S) /\ Sound(u) /\ id \in Id /\ id \notin Ids(t) /\ ~Given(t, id)
             /\ Ids(u) = Ids(t) \cup {id} /\ Item(u, id) = item
             /\ \A x \in Ids(t) : Item(u, x) = Item(t, x)
             /\ \A x \in Id : Given(t, x) => Given(u, x)
<1> DEFINE u == Put(t, item)
           id == NextId(t)
<1>1. /\ u \in TableOf(S) /\ Sound(u) /\ id \in Id
      /\ DOMAIN u.slots = DOMAIN t.slots \cup {id.slot}
      /\ u.slots[id.slot] = item /\ u.gens[id.slot] = id.gen
      /\ \A s \in DOMAIN t.slots : s # id.slot => u.slots[s] = t.slots[s]
      /\ \A s \in DOMAIN t.slots : u.gens[s] = t.gens[s]
      /\ id.slot \in DOMAIN t.slots => t.slots[id.slot] = Nothing /\ t.gens[id.slot] = id.gen
  <2>1. CASE t.free = <<>>
    BY <2>1, PutNew
  <2>2. CASE t.free # <<>>
    BY <2>2, PutAgain
  <2> QED
    BY <2>1, <2>2
<1> HIDE DEF u, id
<1>2. id \notin Ids(t)
  BY <1>1, IdsOf
<1>3. ~Given(t, id)
  BY <1>1, <1>2 DEF Given
<1>4. ASSUME NEW x \in Id PROVE x \in Ids(u) <=> x \in Ids(t) \/ x = id
  <2>1. x = [slot |-> x.slot, gen |-> x.gen] /\ id = [slot |-> id.slot, gen |-> id.gen]
    BY <1>1, IdParts
  <2>2. CASE x.slot = id.slot
    <3>1. x \in Ids(u) <=> x.gen = id.gen
      BY <1>1, <2>2, IdsOf
    <3>2. x \notin Ids(t)
      BY <1>1, <2>2, IdsOf
    <3> QED
      BY <2>1, <2>2, <3>1, <3>2
  <2>3. CASE x.slot # id.slot
    <3>1. x # id
      BY <2>3
    <3>2. x \in Ids(u) <=> x.slot \in DOMAIN u.slots /\ u.slots[x.slot] # Nothing
                            /\ x.gen = u.gens[x.slot]
      BY <1>1, IdsOf
    <3>3. x \in Ids(t) <=> x.slot \in DOMAIN t.slots /\ t.slots[x.slot] # Nothing
                            /\ x.gen = t.gens[x.slot]
      BY IdsOf
    <3> QED
      BY <1>1, <2>3, <3>1, <3>2, <3>3
  <2> QED
    BY <2>2, <2>3
<1>5. Ids(t) \subseteq Id /\ Ids(u) \subseteq Id
  BY <1>1, IdsOf
<1>6. Ids(u) = Ids(t) \cup {id}
  BY <1>1, <1>4, <1>5
<1>7. Item(u, id) = item
  BY <1>1 DEF Item
<1>8. \A x \in Ids(t) : Item(u, x) = Item(t, x)
  <2> SUFFICES ASSUME NEW x \in Ids(t) PROVE Item(u, x) = Item(t, x)
    OBVIOUS
  <2>1. x.slot \in DOMAIN t.slots /\ t.slots[x.slot] # Nothing
    BY <1>5, IdsOf
  <2> QED
    BY <1>1, <2>1 DEF Item
<1>9. \A x \in Id : Given(t, x) => Given(u, x)
  <2> SUFFICES ASSUME NEW x \in Id, Given(t, x) PROVE Given(u, x)
    OBVIOUS
  <2> QED
    BY <1>1, <1>6 DEF Given
<1> QED
  BY <1>1, <1>2, <1>3, <1>6, <1>7, <1>8, <1>9 DEF u, id

LEMMA JoinedSet ==
  ASSUME NEW E, NEW s \in Seq(E), NEW t \in Seq(E)
  PROVE  ToSet(s \o t) = ToSet(s) \cup ToSet(t)
<1> DEFINE n == Len(s)
           m == Len(t)
           u == s \o t
<1>1. /\ n \in Nat /\ m \in Nat /\ DOMAIN s = 1 .. n /\ DOMAIN t = 1 .. m /\ DOMAIN u = 1 .. n + m
      /\ \A i \in 1 .. n : u[i] = s[i]
      /\ \A i \in 1 .. n + m : i > n => u[i] = t[i - n]
  OBVIOUS
<1> HIDE DEF n, m, u
<1>2. \A i \in 1 .. n : i \in 1 .. n + m
  BY <1>1
<1>3. \A i \in 1 .. m : i + n \in 1 .. n + m /\ i + n > n /\ (i + n) - n = i
  BY <1>1
<1>4. \A i \in 1 .. n + m : i \in 1 .. n \/ (i > n /\ i - n \in 1 .. m)
  BY <1>1
<1>5. ASSUME NEW x \in ToSet(u) PROVE x \in ToSet(s) \cup ToSet(t)
  <2>1. PICK i \in 1 .. n + m : x = u[i]
    BY <1>1 DEF ToSet
  <2>2. CASE i \in 1 .. n
    BY <1>1, <2>1, <2>2 DEF ToSet
  <2>3. CASE i > n /\ i - n \in 1 .. m
    <3>1. x = t[i - n]
      BY <1>1, <2>1, <2>3
    <3> QED
      BY <1>1, <2>3, <3>1 DEF ToSet
  <2> QED
    BY <1>4, <2>2, <2>3
<1>6. ToSet(s) \subseteq ToSet(u)
  BY <1>1, <1>2 DEF ToSet
<1>7. ASSUME NEW i \in 1 .. m PROVE t[i] \in ToSet(u)
  <2>1. u[i + n] = t[(i + n) - n] /\ i + n \in DOMAIN u
    BY <1>1, <1>3
  <2>2. u[i + n] = t[i]
    BY <1>3, <2>1
  <2> QED
    BY <2>1, <2>2 DEF ToSet
<1>8. ToSet(t) \subseteq ToSet(u)
  BY <1>1, <1>7 DEF ToSet
<1> QED
  BY <1>5, <1>6, <1>8 DEF u

LEMMA JoinedInjective ==
  ASSUME NEW E, NEW s \in Seq(E), NEW t \in Seq(E), IsInjective(s), IsInjective(t),
         ToSet(s) \cap ToSet(t) = {}
  PROVE  IsInjective(s \o t)
<1> DEFINE n == Len(s)
           m == Len(t)
           u == s \o t
<1>1. /\ n \in Nat /\ m \in Nat /\ DOMAIN s = 1 .. n /\ DOMAIN t = 1 .. m /\ DOMAIN u = 1 .. n + m
      /\ \A i \in 1 .. n : u[i] = s[i]
      /\ \A i \in 1 .. n + m : i > n => u[i] = t[i - n]
  OBVIOUS
<1> HIDE DEF n, m, u
<1>2. \A i \in 1 .. n + m : i \in 1 .. n \/ (i > n /\ i - n \in 1 .. m)
  BY <1>1
<1>3. \A i \in 1 .. n, k \in 1 .. m : s[i] # t[k]
  BY <1>1 DEF ToSet
<1>4. ASSUME NEW i \in 1 .. n + m, NEW k \in 1 .. n + m, u[i] = u[k] PROVE i = k
  <2>1. CASE i \in 1 .. n /\ k \in 1 .. n
    BY <1>1, <1>4, <2>1 DEF IsInjective
  <2>2. CASE i \in 1 .. n /\ (k > n /\ k - n \in 1 .. m)
    <3>1. u[i] = s[i] /\ u[k] = t[k - n]
      BY <1>1, <2>2
    <3> QED
      BY <1>3, <1>4, <2>2, <3>1
  <2>3. CASE k \in 1 .. n /\ (i > n /\ i - n \in 1 .. m)
    <3>1. u[k] = s[k] /\ u[i] = t[i - n]
      BY <1>1, <2>3
    <3> QED
      BY <1>3, <1>4, <2>3, <3>1
  <2>4. CASE i > n /\ i - n \in 1 .. m /\ k > n /\ k - n \in 1 .. m
    <3>1. t[i - n] = t[k - n]
      BY <1>1, <1>4, <2>4
    <3>2. i - n = k - n
      BY <1>1, <2>4, <3>1 DEF IsInjective
    <3> QED
      BY <1>1, <3>2
  <2> QED
    BY <1>2, <2>1, <2>2, <2>3, <2>4
<1> QED
  BY <1>1, <1>4 DEF IsInjective, u

(* What is taken out is gone for good: its slot comes back as another's.   *)
LEMMA TakeFacts ==
  ASSUME NEW S, NEW t \in TableOf(S), Sound(t), NEW ids
  PROVE  LET u == Take(t, ids)
         IN  /\ u \in TableOf(S) /\ Sound(u) /\ Ids(u) = Ids(t) \ ids
             /\ \A x \in Ids(u) : Item(u, x) = Item(t, x)
             /\ \A x \in Id : Given(t, x) => Given(u, x)
<1> DEFINE u == Take(t, ids)
           gone == ids \cap Ids(t)
           out == {id.slot : id \in gone}
           L == Len(t.slots)
<1>1. /\ t.slots \in Seq(S \cup {Nothing}) /\ t.gens \in Seq(Nat \ {0}) /\ t.free \in Seq(Nat)
      /\ L \in Nat /\ Len(t.gens) = L /\ DOMAIN t.slots = 1 .. L /\ DOMAIN t.gens = 1 .. L
  BY TableParts DEF Sound
<1>2. u = [slots |-> [s \in DOMAIN t.slots |-> IF s \in out THEN Nothing ELSE t.slots[s]],
           gens  |-> [s \in DOMAIN t.gens |-> IF s \in out THEN t.gens[s] + 1 ELSE t.gens[s]],
           free  |-> t.free \o SetToSeq(out)]
  BY DEF Take
<1>3. \A x \in gone : x \in Id /\ x.slot \in 1 .. L /\ t.slots[x.slot] # Nothing
                      /\ x.gen = t.gens[x.slot]
  BY <1>1, IdsOf
<1>4. out \subseteq 1 .. L /\ \A s \in out : t.slots[s] # Nothing
  BY <1>3
<1>5. IsFiniteSet(out)
  <2>1. IsFiniteSet(1 .. L)
    BY <1>1, FS_Interval
  <2> HIDE DEF out, L
  <2> QED
    BY <1>4, <2>1, FS_Subset
<1>6. \A x \in Ids(t) : x \in Id /\ (x.slot \in out <=> x \in ids)
  <2> SUFFICES ASSUME NEW x \in Ids(t) PROVE x \in Id /\ (x.slot \in out <=> x \in ids)
    OBVIOUS
  <2>1. x \in Id /\ x.gen = t.gens[x.slot]
    BY IdsOf
  <2>2. ASSUME x.slot \in out PROVE x \in ids
    <3>1. PICK y \in gone : y.slot = x.slot
      BY <2>2
    <3>2. y \in Id /\ y.gen = t.gens[x.slot]
      BY <1>3, <3>1
    <3>3. y = [slot |-> y.slot, gen |-> y.gen] /\ x = [slot |-> x.slot, gen |-> x.gen]
      BY <2>1, <3>2, IdParts
    <3> QED
      BY <2>1, <3>1, <3>2, <3>3
  <2> QED
    BY <2>1, <2>2
<1> HIDE DEF u
<1>7. /\ u.slots = [s \in 1 .. L |-> IF s \in out THEN Nothing ELSE t.slots[s]]
      /\ u.gens = [s \in 1 .. L |-> IF s \in out THEN t.gens[s] + 1 ELSE t.gens[s]]
      /\ u.free = t.free \o SetToSeq(out)
  BY <1>1, <1>2
<1> HIDE DEF out
<1>8. u.slots \in Seq(S \cup {Nothing}) /\ Len(u.slots) = L /\ DOMAIN u.slots = 1 .. L
  <2>1. \A s \in 1 .. L : t.slots[s] \in S \cup {Nothing}
    BY <1>1, Elements
  <2>2. u.slots \in [1 .. L -> S \cup {Nothing}]
    BY <1>7, <2>1
  <2> HIDE DEF L
  <2> QED
    BY <1>1, <2>2
<1>9. u.gens \in Seq(Nat \ {0}) /\ Len(u.gens) = L /\ DOMAIN u.gens = 1 .. L
  <2>1. \A s \in 1 .. L : t.gens[s] \in Nat \ {0} /\ t.gens[s] + 1 \in Nat \ {0}
    <3>1. \A s \in 1 .. L : t.gens[s] \in Nat \ {0}
      BY <1>1, Elements
    <3> QED
      BY <3>1
  <2>2. u.gens \in [1 .. L -> Nat \ {0}]
    BY <1>7, <2>1
  <2> HIDE DEF L
  <2> QED
    BY <1>1, <2>2
<1> DEFINE f == SetToSeq(out)
<1>10. f \in Seq(out) /\ IsInjective(f) /\ ToSet(f) = out
  BY <1>5, SetSequence
<1> HIDE DEF f
<1>11. f \in Seq(Nat)
  <2>1. out \subseteq Nat
    BY <1>1, <1>4
  <2>2. Len(f) \in Nat /\ DOMAIN f = 1 .. Len(f) /\ \A i \in DOMAIN f : f[i] \in out
    BY <1>10, Elements
  <2>3. f \in [1 .. Len(f) -> Nat]
    <3>1. f \in [1 .. Len(f) -> out]
      BY <1>10
    <3> QED
      BY <2>1, <3>1
  <2> QED
    BY <2>2, <2>3
<1>12. u.free \in Seq(Nat) /\ ToSet(u.free) = ToSet(t.free) \cup out
  <2>1. u.free = t.free \o f
    BY <1>7 DEF f
  <2>2. ToSet(t.free \o f) = ToSet(t.free) \cup ToSet(f)
    BY <1>1, <1>11, JoinedSet
  <2> QED
    BY <1>1, <1>10, <1>11, <2>1, <2>2
<1>13. IsInjective(u.free)
  <2>1. ToSet(t.free) \cap ToSet(f) = {}
    BY <1>4, <1>10 DEF Sound
  <2>2. IsInjective(t.free)
    BY DEF Sound
  <2> QED
    BY <1>1, <1>7, <1>10, <1>11, <2>1, <2>2, JoinedInjective DEF f
<1>14. u \in TableOf(S)
  BY <1>2, <1>7, <1>8, <1>9, <1>12 DEF TableOf, u
<1>15. Sound(u)
  <2>1. ToSet(t.free) = {s \in 1 .. L : t.slots[s] = Nothing}
    BY <1>1 DEF Sound
  <2>2. ToSet(u.free) = {s \in DOMAIN u.slots : u.slots[s] = Nothing}
    BY <1>4, <1>7, <1>8, <1>12, <2>1
  <2> QED
    BY <1>8, <1>9, <1>13, <2>2 DEF Sound
<1>16. Ids(t) \subseteq Id /\ Ids(u) \subseteq Id
  BY <1>14, <1>15, IdsOf
<1>17. ASSUME NEW x \in Id PROVE x \in Ids(u) <=> x \in Ids(t) /\ x \notin ids
  <2>1. x \in Ids(u) <=> x.slot \in 1 .. L /\ u.slots[x.slot] # Nothing /\ x.gen = u.gens[x.slot]
    BY <1>8, <1>14, <1>15, IdsOf
  <2>2. x \in Ids(t) <=> x.slot \in 1 .. L /\ t.slots[x.slot] # Nothing /\ x.gen = t.gens[x.slot]
    BY <1>1, IdsOf
  <2> QED
    BY <1>6, <1>7, <2>1, <2>2
<1>18. Ids(u) = Ids(t) \ ids
  BY <1>16, <1>17
<1>19. \A x \in Ids(u) : Item(u, x) = Item(t, x)
  <2> SUFFICES ASSUME NEW x \in Ids(u) PROVE Item(u, x) = Item(t, x)
    OBVIOUS
  <2>1. x \in Ids(t) /\ x \notin ids /\ x.slot \notin out
    BY <1>6, <1>18
  <2>2. x.slot \in 1 .. L
    BY <1>1, <1>16, <2>1, IdsOf
  <2> QED
    BY <1>7, <2>1, <2>2 DEF Item
<1>20. \A x \in Id : Given(t, x) => Given(u, x)
  <2> SUFFICES ASSUME NEW x \in Id, Given(t, x) PROVE Given(u, x)
    OBVIOUS
  <2>1. x.slot \in 1 .. L /\ x.gen \in Nat /\ x.gen <= t.gens[x.slot] /\ t.gens[x.slot] \in Nat
    <3>1. x.slot \in 1 .. L /\ x.gen <= t.gens[x.slot]
      BY <1>1 DEF Given
    <3>2. t.gens[x.slot] \in Nat \ {0}
      BY <1>1, <3>1, Elements
    <3> QED
      BY <3>1, <3>2, IdParts
  <2>2. CASE x.slot \in out
    <3>1. u.gens[x.slot] = t.gens[x.slot] + 1
      BY <1>7, <2>1, <2>2
    <3>2. x.gen <= u.gens[x.slot] /\ x.gen # u.gens[x.slot]
      BY <2>1, <3>1
    <3> QED
      BY <1>8, <2>1, <3>2 DEF Given
  <2>3. CASE x.slot \notin out
    <3>1. u.gens[x.slot] = t.gens[x.slot]
      BY <1>7, <2>1, <2>3
    <3>2. ASSUME x.gen = u.gens[x.slot] PROVE x \in Ids(u)
      <4>1. x \in Ids(t)
        BY <3>1, <3>2 DEF Given
      <4> QED
        BY <1>6, <1>18, <2>3, <4>1
    <3> QED
      BY <1>8, <2>1, <3>1, <3>2 DEF Given
  <2> QED
    BY <2>2, <2>3
<1> QED
  BY <1>14, <1>15, <1>18, <1>19, <1>20 DEF u

(* Changing the items of a table leaves its identities alone.              *)
LEMMA SlotsChanged ==
  ASSUME NEW S, NEW t \in TableOf(S), Sound(t), NEW slots \in Seq(S \cup {Nothing}),
         Len(slots) = Len(t.slots),
         \A s \in DOMAIN t.slots : slots[s] = Nothing <=> t.slots[s] = Nothing
  PROVE  LET u == [t EXCEPT !.slots = slots]
         IN  /\ u \in TableOf(S) /\ Sound(u) /\ Ids(u) = Ids(t)
             /\ \A x \in Ids(t) : x.slot \in DOMAIN slots /\ Item(u, x) = slots[x.slot]
             /\ \A x \in Id : Given(t, x) => Given(u, x)
<1> DEFINE u == [t EXCEPT !.slots = slots]
<1>1. /\ t = [slots |-> t.slots, gens |-> t.gens, free |-> t.free]
      /\ t.gens \in Seq(Nat \ {0}) /\ t.free \in Seq(Nat) /\ Len(t.slots) \in Nat
      /\ DOMAIN t.slots = 1 .. Len(t.slots)
  BY TableParts
<1>2. u = [slots |-> slots, gens |-> t.gens, free |-> t.free]
  BY <1>1
<1> HIDE DEF u
<1>3. u.slots = slots /\ u.gens = t.gens /\ u.free = t.free
  BY <1>2
<1>4. DOMAIN slots = DOMAIN t.slots
  BY <1>1, Elements
<1>5. u \in TableOf(S)
  BY <1>1, <1>2, <1>3 DEF TableOf
<1>6. Sound(u)
  <2>1. ToSet(u.free) = {s \in DOMAIN u.slots : u.slots[s] = Nothing}
    BY <1>3, <1>4 DEF Sound
  <2> QED
    BY <1>3, <2>1 DEF Sound
<1>7. Ids(u) = Ids(t)
  <2>1. Ids(u) \subseteq Id /\ Ids(t) \subseteq Id
    BY <1>5, <1>6, IdsOf
  <2>2. ASSUME NEW x \in Id PROVE x \in Ids(u) <=> x \in Ids(t)
    <3>1. x \in Ids(u) <=> x.slot \in DOMAIN slots /\ slots[x.slot] # Nothing
                            /\ x.gen = t.gens[x.slot]
      BY <1>3, <1>5, <1>6, IdsOf
    <3>2. x \in Ids(t) <=> x.slot \in DOMAIN t.slots /\ t.slots[x.slot] # Nothing
                            /\ x.gen = t.gens[x.slot]
      BY IdsOf
    <3> QED
      BY <1>4, <3>1, <3>2
  <2> QED
    BY <2>1, <2>2
<1>8. \A x \in Ids(t) : x.slot \in DOMAIN slots /\ Item(u, x) = slots[x.slot]
  BY <1>3, <1>4, IdsOf DEF Item
<1>9. \A x \in Id : Given(t, x) => Given(u, x)
  BY <1>3, <1>4, <1>7 DEF Given
<1> QED
  BY <1>5, <1>6, <1>7, <1>8, <1>9 DEF u

-----------------------------------------------------------------------------
(***************************************************************************)
(* The parts of a world                                                    *)
(***************************************************************************)

LEMMA Entities ==
  /\ World \notin Player /\ World \notin Npc /\ Player \cap Npc = {} /\ Npc \subseteq Nat
  /\ World \notin Entity /\ Entity = Player \cup Npc
<1>1. MaxNpc \in Nat /\ Player \cap (0 .. MaxNpc) = {}
  BY SimAssumption DEF SimAssumption
<1>2. 0 \in 0 .. MaxNpc /\ 0 \notin 1 .. MaxNpc /\ 1 .. MaxNpc \subseteq 0 .. MaxNpc
      /\ 1 .. MaxNpc \subseteq Nat
  BY <1>1
<1> QED
  BY <1>1, <1>2 DEF World, Npc, Entity

LEMMA WorldParts ==
  ASSUME NEW w \in WorldState
  PROVE  /\ w = [jobs |-> w.jobs, owned |-> w.owned, actions |-> w.actions, holds |-> w.holds,
                 spawns |-> w.spawns, body |-> w.body, npcs |-> w.npcs, cooling |-> w.cooling,
                 starts |-> w.starts, refused |-> w.refused]
         /\ w.jobs \in TableOf(JobSet) /\ w.owned \in [Entity -> SUBSET Id]
         /\ w.actions \in TableOf(ActionSet) /\ w.holds \in [Player -> Id \cup {Nothing}]
         /\ w.spawns \in TableOf(RequestSet) /\ w.body \in [Player -> {"alive", "dead", "out"}]
         /\ w.npcs \in Seq(NpcSet) /\ w.cooling \in [Player -> [Ability -> Nat]]
         /\ w.starts \in 0 .. MaxStarts /\ w.refused \in BOOLEAN
BY DEF WorldState

LEMMA TimersOf ==
  ASSUME NEW w \in WorldState, Tables(w)
  PROVE  /\ Timers(w) \subseteq Id /\ IsFiniteSet(Timers(w)) /\ Cardinality(Timers(w)) \in Nat
         /\ \A x \in Timers(w) : JobOf(w, x) \in JobSet /\ Given(w.jobs, x)
<1>1. w.jobs \in TableOf(JobSet) /\ Sound(w.jobs)
  BY WorldParts DEF Tables
<1>2. IsFiniteSet(Ids(w.jobs)) /\ Cardinality(Ids(w.jobs)) \in Nat
  BY <1>1, IdsFinite
<1>3. Ids(w.jobs) \subseteq Id /\ \A x \in Ids(w.jobs) : Item(w.jobs, x) \in JobSet /\ Given(w.jobs, x)
  BY <1>1, IdsOf
<1> QED
  BY <1>2, <1>3 DEF Timers, JobOf

LEMMA ActionsOf ==
  ASSUME NEW w \in WorldState, Tables(w)
  PROVE  /\ Ids(w.actions) \subseteq Id
         /\ \A x \in Ids(w.actions) : Action(w, x) \in ActionSet /\ Given(w.actions, x)
<1>1. w.actions \in TableOf(ActionSet) /\ Sound(w.actions)
  BY WorldParts DEF Tables
<1>2. Ids(w.actions) \subseteq Id
      /\ \A x \in Ids(w.actions) : Item(w.actions, x) \in ActionSet /\ Given(w.actions, x)
  BY <1>1, IdsOf
<1> QED
  BY <1>2 DEF Action

LEMMA RequestsOf ==
  ASSUME NEW w \in WorldState, Tables(w)
  PROVE  /\ Ids(w.spawns) \subseteq Id /\ IsFiniteSet(Ids(w.spawns))
         /\ Cardinality(Ids(w.spawns)) \in Nat
         /\ \A x \in Ids(w.spawns) : HomeOf(w, x) \in Home /\ Given(w.spawns, x)
                                     /\ Item(w.spawns, x) \in RequestSet
<1>1. w.spawns \in TableOf(RequestSet) /\ Sound(w.spawns)
  BY WorldParts DEF Tables
<1>2. Ids(w.spawns) \subseteq Id
      /\ \A x \in Ids(w.spawns) : Item(w.spawns, x) \in RequestSet /\ Given(w.spawns, x)
  BY <1>1, IdsOf
<1>3. \A x \in Ids(w.spawns) : HomeOf(w, x) \in Home
  BY <1>2 DEF HomeOf, RequestSet
<1> QED
  BY <1>1, <1>2, <1>3, IdsFinite

LEMMA NpcsOf ==
  ASSUME NEW w \in WorldState
  PROVE  /\ Len(w.npcs) \in Nat /\ DOMAIN w.npcs = 1 .. Len(w.npcs)
         /\ \A n \in DOMAIN w.npcs : /\ w.npcs[n].home \in Home
                                     /\ w.npcs[n].state \in {"alive", "dying", "gone"}
                                     /\ w.npcs[n] = [home |-> w.npcs[n].home,
                                                     state |-> w.npcs[n].state]
<1>1. w.npcs \in Seq(NpcSet)
  BY WorldParts
<1>2. Len(w.npcs) \in Nat /\ DOMAIN w.npcs = 1 .. Len(w.npcs)
      /\ \A n \in DOMAIN w.npcs : w.npcs[n] \in NpcSet
  BY <1>1, Elements
<1> QED
  BY <1>2 DEF NpcSet

LEMMA JobFields ==
  ASSUME NEW j \in JobSet
  PROVE  /\ j.due \in Int /\ j.seq \in Nat /\ j.owner \in Owner
         /\ j.lane \in Lane /\ j.kind \in Kind
         /\ j.of \in Thing
         /\ j = [due |-> j.due, seq |-> j.seq, owner |-> j.owner, lane |-> j.lane,
                 kind |-> j.kind, of |-> j.of]
BY DEF JobSet

LEMMA ActionFields ==
  ASSUME NEW a \in ActionSet
  PROVE  /\ a.owner \in Player /\ a.ability \in Ability
         /\ a.phase \in Phase
         /\ a = [owner |-> a.owner, ability |-> a.ability, phase |-> a.phase]
BY DEF ActionSet

-----------------------------------------------------------------------------
(***************************************************************************)
(* What a job names may end, but never becomes something else.             *)
(***************************************************************************)

Follows(w, u) ==
  /\ \A x \in Id : Given(w.actions, x) => Given(u.actions, x)
  /\ \A x \in Id : Given(w.spawns, x) => Given(u.spawns, x)
  /\ \A x \in Id : Given(w.actions, x) /\ x \in Ids(u.actions) =>
       x \in Ids(w.actions) /\ Action(u, x).owner = Action(w, x).owner
  /\ \A n \in DOMAIN w.npcs :
       n \in DOMAIN u.npcs /\ (w.npcs[n].state # "alive" => u.npcs[n].state # "alive")

Fewer(w, u) ==
  Timers(u) \subseteq Timers(w) /\ \A x \in Timers(u) : JobOf(u, x) = JobOf(w, x)

LEMMA RightFollows ==
  ASSUME NEW w, NEW u, Follows(w, u), NEW j, Right(w, j), j.kind \in Kind
  PROVE  Right(u, j)
<1>1. CASE j.kind = "advance"
  <2>1. /\ j.lane = "critical" /\ j.owner \in Player /\ j.of \in Id /\ Given(w.actions, j.of)
        /\ j.of \in Ids(w.actions) => Action(w, j.of).owner = j.owner
    BY <1>1 DEF Right
  <2>2. /\ Given(u.actions, j.of)
        /\ j.of \in Ids(u.actions) => Action(u, j.of).owner = j.owner
    BY <2>1 DEF Follows
  <2> QED
    BY <1>1, <2>1, <2>2 DEF Right
<1>2. CASE j.kind = "spawn"
  <2>1. j.lane = "deferred" /\ j.owner = World /\ j.of \in Id /\ Given(w.spawns, j.of)
    BY <1>2 DEF Right
  <2>2. Given(u.spawns, j.of)
    BY <2>1 DEF Follows
  <2> QED
    BY <1>2, <2>1, <2>2 DEF Right
<1>3. CASE j.kind = "despawn"
  <2>1. /\ j.lane = "deferred" /\ j.owner = j.of /\ j.of \in DOMAIN w.npcs
        /\ w.npcs[j.of].state # "alive"
    BY <1>3 DEF Right
  <2>2. j.of \in DOMAIN u.npcs /\ u.npcs[j.of].state # "alive"
    BY <2>1 DEF Follows
  <2> QED
    BY <1>3, <2>1, <2>2 DEF Right
<1> QED
  BY <1>1, <1>2, <1>3 DEF Kind

LEMMA SameTimers ==
  ASSUME NEW w, NEW u, u.jobs = w.jobs
  PROVE  /\ Timers(u) = Timers(w) /\ \A x : JobOf(u, x) = JobOf(w, x)
         /\ Fewer(w, u)
         /\ \A f, k, o : IsComing(u, f, k, o) <=> IsComing(w, f, k, o)
BY DEF Timers, JobOf, Fewer, IsComing

(* A change that schedules nothing.                                        *)
LEMMA BaseStep ==
  ASSUME NEW w, NEW f, Base(w, f), NEW u \in WorldState, Tables(u), Follows(w, u), Fewer(w, u),
         \A e \in Entity : u.owned[e] = {x \in Timers(u) : JobOf(u, x).owner = e},
         \A x \in Timers(u) : InWorld(u, JobOf(u, x).owner),
         Acting(u), Uncrowded(u)
  PROVE  Base(u, f)
<1>1. /\ w \in WorldState /\ f \in Seq(JobSet) /\ Tables(w) /\ AllRight(w, f) /\ Unique(w, f)
      /\ Bounded(w)
  BY DEF Base
<1>2. \A x \in Timers(w) : JobOf(w, x) \in JobSet
  BY <1>1, TimersOf
<1>3. AllRight(u, f)
  <2>1. ASSUME NEW x \in Timers(u) PROVE Right(u, JobOf(u, x))
    <3>1. x \in Timers(w) /\ JobOf(u, x) = JobOf(w, x)
      BY DEF Fewer
    <3>2. Right(w, JobOf(w, x)) /\ JobOf(w, x).kind \in Kind
      BY <1>1, <1>2, <3>1, JobFields DEF AllRight
    <3> QED
      BY <3>1, <3>2, RightFollows
  <2>2. ASSUME NEW i \in DOMAIN f PROVE Right(u, f[i])
    <3>1. f[i] \in JobSet
      BY <1>1, Elements
    <3>2. Right(w, f[i]) /\ f[i].kind \in Kind
      BY <1>1, <3>1, JobFields DEF AllRight
    <3> QED
      BY <3>2, RightFollows
  <2> QED
    BY <2>1, <2>2 DEF AllRight
<1>4. Unique(u, f)
  BY <1>1 DEF Unique, Fewer
<1>5. Owned(u)
  BY DEF Owned
<1>6. Bounded(u)
  <2>1. IsFiniteSet(Timers(w)) /\ Cardinality(Timers(w)) \in Nat /\ Timers(u) \subseteq Timers(w)
        /\ Cardinality(Timers(w)) <= Capacity /\ Capacity \in Nat
    BY <1>1, TimersOf, SimAssumption DEF Fewer, Bounded, SimAssumption
  <2>2. Cardinality(Timers(u)) <= Cardinality(Timers(w)) /\ Cardinality(Timers(u)) \in Nat
    BY <2>1, FS_Subset, FS_CardinalityType
  <2>3. Cardinality(Timers(u)) <= Capacity
    BY <2>1, <2>2
  <2> QED
    BY <2>3 DEF Bounded
<1> QED
  BY <1>1, <1>3, <1>4, <1>5, <1>6 DEF Base

(* What Base says, part by part.                                           *)
LEMMA BaseParts ==
  ASSUME NEW w, NEW f, Base(w, f)
  PROVE  /\ w \in WorldState /\ f \in Seq(JobSet) /\ Tables(w) /\ AllRight(w, f) /\ Unique(w, f)
         /\ Acting(w) /\ Cardinality(Timers(w)) <= Capacity
         /\ Uncrowded(w)
         /\ \A e \in Entity : w.owned[e] = {x \in Timers(w) : JobOf(w, x).owner = e}
         /\ \A x \in Timers(w) : InWorld(w, JobOf(w, x).owner)
BY DEF Base, Owned, Bounded

(* The jobs of a world stay as they are.                                   *)
LEMMA BaseSameJobs ==
  ASSUME NEW w, NEW f, Base(w, f), NEW u \in WorldState, Tables(u), Follows(w, u),
         u.jobs = w.jobs, u.owned = w.owned,
         \A x \in Timers(w) : InWorld(u, JobOf(w, x).owner),
         Acting(u), Uncrowded(u)
  PROVE  Base(u, f)
<1>1. Timers(u) = Timers(w) /\ \A x : JobOf(u, x) = JobOf(w, x)
  BY SameTimers
<1>2. Fewer(w, u)
  BY SameTimers
<1>3. \A e \in Entity : u.owned[e] = {x \in Timers(u) : JobOf(u, x).owner = e}
  BY <1>1, BaseParts
<1>4. \A x \in Timers(u) : InWorld(u, JobOf(u, x).owner)
  BY <1>1
<1> QED
  BY <1>2, <1>3, <1>4, BaseStep

-----------------------------------------------------------------------------
(***************************************************************************)
(* Actions                                                                 *)
(***************************************************************************)

LEMMA EndActionsFacts ==
  ASSUME NEW w \in WorldState, Tables(w), NEW ids
  PROVE  LET u == EndActions(w, ids)
         IN  /\ u \in WorldState /\ Tables(u) /\ Follows(w, u)
             /\ Ids(u.actions) = Ids(w.actions) \ ids
             /\ \A x \in Ids(u.actions) : Action(u, x) = Action(w, x)
             /\ \A p \in Player : u.holds[p] = IF w.holds[p] \in ids \cap Ids(w.actions)
                                               THEN Nothing ELSE w.holds[p]
             /\ u.jobs = w.jobs /\ u.owned = w.owned /\ u.spawns = w.spawns
             /\ u.body = w.body /\ u.npcs = w.npcs /\ u.cooling = w.cooling
             /\ u.starts = w.starts /\ u.refused = w.refused
<1> DEFINE u == EndActions(w, ids)
           live == ids \cap Ids(w.actions)
           a == Take(w.actions, live)
           h == [p \in Player |-> IF w.holds[p] \in live THEN Nothing ELSE w.holds[p]]
<1>1. u = [w EXCEPT !.actions = a, !.holds = h]
  BY DEF EndActions
<1>2. w.actions \in TableOf(ActionSet) /\ Sound(w.actions)
      /\ w.holds \in [Player -> Id \cup {Nothing}]
  BY WorldParts DEF Tables
<1>3. h \in [Player -> Id \cup {Nothing}]
  BY <1>2
<1> HIDE DEF live
<1>4. /\ a \in TableOf(ActionSet) /\ Sound(a) /\ Ids(a) = Ids(w.actions) \ live
      /\ \A x \in Ids(a) : Item(a, x) = Item(w.actions, x)
      /\ \A x \in Id : Given(w.actions, x) => Given(a, x)
  BY <1>2, TakeFacts
<1> HIDE DEF u, a, h
<1>5. /\ u \in WorldState /\ u.actions = a /\ u.holds = h
      /\ u.jobs = w.jobs /\ u.owned = w.owned /\ u.spawns = w.spawns
      /\ u.body = w.body /\ u.npcs = w.npcs /\ u.cooling = w.cooling
      /\ u.starts = w.starts /\ u.refused = w.refused
  <2>1. a \in TableOf(ActionSet) /\ h \in [Player -> Id \cup {Nothing}]
    BY <1>3, <1>4
  <2> QED
    BY <1>1, <2>1 DEF WorldState
<1>6. Tables(u)
  BY <1>4, <1>5 DEF Tables
<1>7. Ids(u.actions) = Ids(w.actions) \ ids
  BY <1>4, <1>5 DEF live
<1>8. \A x \in Ids(u.actions) : x \in Ids(w.actions) /\ Action(u, x) = Action(w, x)
  BY <1>4, <1>5 DEF Action
<1>9. Follows(w, u)
  BY <1>4, <1>5, <1>8 DEF Follows
<1>10. \A p \in Player : u.holds[p] = IF w.holds[p] \in ids \cap Ids(w.actions)
                                      THEN Nothing ELSE w.holds[p]
  BY <1>5 DEF h, live
<1> QED
  BY <1>5, <1>6, <1>7, <1>8, <1>9, <1>10 DEF u

(* Ending an action looks at the actions only.                             *)
LEMMA EndActionsAlike ==
  ASSUME NEW w \in WorldState, NEW v \in WorldState,
         v.actions = w.actions, v.holds = w.holds, NEW ids
  PROVE  /\ EndActions(v, ids).actions = EndActions(w, ids).actions
         /\ EndActions(v, ids).holds = EndActions(w, ids).holds
<1> DEFINE a(t) == Take(t.actions, ids \cap Ids(t.actions))
           h(t) == [p \in Player |-> IF t.holds[p] \in ids \cap Ids(t.actions)
                                     THEN Nothing ELSE t.holds[p]]
<1>1. \A t \in WorldState : EndActions(t, ids) = [t EXCEPT !.actions = a(t), !.holds = h(t)]
  BY DEF EndActions
<1>2. a(v) = a(w) /\ h(v) = h(w)
  OBVIOUS
<1> HIDE DEF a, h
<1>3. EndActions(v, ids) = [v EXCEPT !.actions = a(v), !.holds = h(v)]
      /\ EndActions(w, ids) = [w EXCEPT !.actions = a(w), !.holds = h(w)]
  BY <1>1
<1>4. EndActions(v, ids).actions = a(v) /\ EndActions(v, ids).holds = h(v)
  BY <1>3 DEF WorldState
<1>5. EndActions(w, ids).actions = a(w) /\ EndActions(w, ids).holds = h(w)
  BY <1>3 DEF WorldState
<1> QED
  BY <1>2, <1>4, <1>5

LEMMA EndActionsBase ==
  ASSUME NEW w, NEW f, Base(w, f), NEW ids
  PROVE  Base(EndActions(w, ids), f)
<1> DEFINE u == EndActions(w, ids)
<1>1. /\ w \in WorldState /\ Tables(w) /\ Acting(w)
      /\ \A x \in Timers(w) : InWorld(w, JobOf(w, x).owner)
      /\ Uncrowded(w)
  BY BaseParts
<1>2. /\ u \in WorldState /\ Tables(u) /\ Follows(w, u)
      /\ Ids(u.actions) = Ids(w.actions) \ ids
      /\ \A x \in Ids(u.actions) : Action(u, x) = Action(w, x)
      /\ \A p \in Player : u.holds[p] = IF w.holds[p] \in ids \cap Ids(w.actions)
                                        THEN Nothing ELSE w.holds[p]
      /\ u.jobs = w.jobs /\ u.owned = w.owned /\ u.spawns = w.spawns
      /\ u.body = w.body /\ u.npcs = w.npcs
  BY <1>1, EndActionsFacts
<1> HIDE DEF u
<1>3. \A x \in Timers(w) : InWorld(u, JobOf(w, x).owner)
  BY <1>1, <1>2 DEF InWorld
<1>4. Acting(u)
  <2>1. ASSUME NEW x \in Ids(u.actions)
        PROVE  u.holds[Action(u, x).owner] = x /\ u.body[Action(u, x).owner] = "alive"
    <3>1. x \in Ids(w.actions) /\ x \notin ids /\ Action(w, x) \in ActionSet
      BY <1>1, <1>2, ActionsOf
    <3>2. Action(w, x).owner \in Player
      BY <3>1, ActionFields
    <3>3. w.holds[Action(w, x).owner] = x /\ w.body[Action(w, x).owner] = "alive"
      BY <1>1, <3>1 DEF Acting
    <3> QED
      BY <1>2, <3>1, <3>2, <3>3
  <2>2. ASSUME NEW p \in Player, u.holds[p] # Nothing
        PROVE  u.holds[p] \in Ids(u.actions) /\ Action(u, u.holds[p]).owner = p
    <3>1. u.holds[p] = w.holds[p] /\ w.holds[p] \notin ids \cap Ids(w.actions)
      BY <1>2, <2>2
    <3>2. w.holds[p] \in Ids(w.actions) /\ Action(w, w.holds[p]).owner = p
      BY <1>1, <2>2, <3>1 DEF Acting
    <3> QED
      BY <1>2, <3>1, <3>2
  <2> QED
    BY <2>1, <2>2 DEF Acting
<1>5. Uncrowded(u)
  BY <1>1, <1>2 DEF Uncrowded
<1>6. Base(u, f)
  BY <1>2, <1>3, <1>4, <1>5, BaseSameJobs
<1> QED
  BY <1>6 DEF u

LEMMA SetPhaseFacts ==
  ASSUME NEW w \in WorldState, Tables(w), NEW id \in Ids(w.actions),
         NEW to \in Phase
  PROVE  LET u == SetPhase(w, id, to)
         IN  /\ u \in WorldState /\ Tables(u) /\ Follows(w, u)
             /\ Ids(u.actions) = Ids(w.actions)
             /\ \A x \in Ids(w.actions) : /\ Action(u, x).owner = Action(w, x).owner
                                          /\ Action(u, x).ability = Action(w, x).ability
             /\ u.holds = w.holds
             /\ u.jobs = w.jobs /\ u.owned = w.owned /\ u.spawns = w.spawns
             /\ u.body = w.body /\ u.npcs = w.npcs /\ u.cooling = w.cooling
             /\ u.starts = w.starts /\ u.refused = w.refused
<1> DEFINE u == SetPhase(w, id, to)
           t == w.actions
           slots == [t.slots EXCEPT ![id.slot] = [t.slots[id.slot] EXCEPT !.phase = to]]
           a == [t EXCEPT !.slots = slots]
<1>1. t \in TableOf(ActionSet) /\ Sound(t) /\ w.holds \in [Player -> Id \cup {Nothing}]
  BY WorldParts DEF Tables
<1>2. u = [w EXCEPT !.actions = a, !.holds = w.holds]
  <2>1. u = [w EXCEPT !.actions = a]
    BY DEF SetPhase
  <2>2. w.holds = w.holds /\ w = [w EXCEPT !.holds = w.holds]
    BY DEF WorldState
  <2> HIDE DEF u, a, slots
  <2>3. [w EXCEPT !.actions = a] = [w EXCEPT !.actions = a, !.holds = w.holds]
    BY DEF WorldState
  <2> QED
    BY <2>1, <2>3
<1>3. /\ t.slots \in Seq(ActionSet \cup {Nothing}) /\ Len(t.slots) \in Nat
      /\ DOMAIN t.slots = 1 .. Len(t.slots)
  BY <1>1, TableParts
<1>4. id.slot \in DOMAIN t.slots /\ Action(w, id) \in ActionSet /\ Action(w, id) = t.slots[id.slot]
  <2>1. Ids(t) \subseteq Id
    BY <1>1, IdsOf
  <2> QED
    BY <1>1, <2>1, IdsOf DEF Action, Item
<1> DEFINE old == t.slots[id.slot]
           new == [t.slots[id.slot] EXCEPT !.phase = to]
<1>5. new \in ActionSet /\ new.owner = old.owner /\ new.ability = old.ability
  <2>1. old \in ActionSet
    BY <1>4
  <2> QED
    BY <2>1 DEF ActionSet
<1>6. new # Nothing /\ old # Nothing
  BY <1>4, <1>5, NotNothing
<1>7. slots = [t.slots EXCEPT ![id.slot] = new]
  OBVIOUS
<1> HIDE DEF slots, new, u
<1>8. slots \in Seq(ActionSet \cup {Nothing}) /\ Len(slots) = Len(t.slots)
      /\ DOMAIN slots = DOMAIN t.slots
  BY <1>3, <1>4, <1>5, <1>7
<1>9. slots[id.slot] = new /\ \A s \in DOMAIN t.slots : s # id.slot => slots[s] = t.slots[s]
  BY <1>3, <1>4, <1>7
<1>10. \A s \in DOMAIN t.slots : slots[s] = Nothing <=> t.slots[s] = Nothing
  BY <1>6, <1>9
<1>11. /\ a \in TableOf(ActionSet) /\ Sound(a) /\ Ids(a) = Ids(t)
       /\ \A x \in Ids(t) : x.slot \in DOMAIN slots /\ Item(a, x) = slots[x.slot]
       /\ \A x \in Id : Given(t, x) => Given(a, x)
  BY <1>1, <1>8, <1>10, SlotsChanged
<1> HIDE DEF a
<1>12. /\ u \in WorldState /\ u.actions = a /\ u.holds = w.holds
       /\ u.jobs = w.jobs /\ u.owned = w.owned /\ u.spawns = w.spawns
       /\ u.body = w.body /\ u.npcs = w.npcs /\ u.cooling = w.cooling
       /\ u.starts = w.starts /\ u.refused = w.refused
  <2>1. a \in TableOf(ActionSet) /\ w.holds \in [Player -> Id \cup {Nothing}]
    BY <1>1, <1>11
  <2> QED
    BY <1>2, <2>1 DEF WorldState
<1>13. ASSUME NEW x \in Ids(t)
       PROVE  Action(u, x).owner = Action(w, x).owner /\ Action(u, x).ability = Action(w, x).ability
  <2>1. Action(u, x) = slots[x.slot] /\ Action(w, x) = t.slots[x.slot] /\ x.slot \in DOMAIN t.slots
    BY <1>8, <1>11, <1>12 DEF Action, Item
  <2> QED
    BY <1>5, <1>9, <2>1
<1>14. Tables(u)
  BY <1>11, <1>12 DEF Tables
<1>15. Follows(w, u)
  BY <1>11, <1>12, <1>13 DEF Follows
<1> QED
  BY <1>11, <1>12, <1>13, <1>14, <1>15 DEF u

LEMMA SetPhaseBase ==
  ASSUME NEW w, NEW f, Base(w, f), NEW id \in Ids(w.actions),
         NEW to \in Phase
  PROVE  Base(SetPhase(w, id, to), f)
<1> DEFINE u == SetPhase(w, id, to)
<1>1. /\ w \in WorldState /\ Tables(w) /\ Acting(w)
      /\ \A x \in Timers(w) : InWorld(w, JobOf(w, x).owner)
      /\ Uncrowded(w)
  BY BaseParts
<1>2. /\ u \in WorldState /\ Tables(u) /\ Follows(w, u)
      /\ Ids(u.actions) = Ids(w.actions)
      /\ \A x \in Ids(w.actions) : Action(u, x).owner = Action(w, x).owner
      /\ u.holds = w.holds /\ u.jobs = w.jobs /\ u.owned = w.owned /\ u.spawns = w.spawns
      /\ u.body = w.body /\ u.npcs = w.npcs
  BY <1>1, SetPhaseFacts
<1> HIDE DEF u
<1>3. \A x \in Timers(w) : InWorld(u, JobOf(w, x).owner)
  BY <1>1, <1>2 DEF InWorld
<1>4. Acting(u)
  BY <1>1, <1>2 DEF Acting
<1>5. Uncrowded(u)
  BY <1>1, <1>2 DEF Uncrowded
<1>6. Base(u, f)
  BY <1>2, <1>3, <1>4, <1>5, BaseSameJobs
<1> QED
  BY <1>6 DEF u

-----------------------------------------------------------------------------
(***************************************************************************)
(* The scheduler                                                           *)
(***************************************************************************)

LEMMA LeastNumber ==
  ASSUME NEW S, S # {}, S \subseteq Nat
  PROVE  \E n \in S : \A m \in S : n <= m
<1>1. IsWellFoundedOn(OpToRel(<, Nat), Nat)
  BY NatLessThanWellFounded
<1>2. PICK n \in S : \A m \in S : <<m, n>> \notin OpToRel(<, Nat)
  BY <1>1, WFMin
<1>3. ASSUME NEW m \in S PROVE n <= m
  <2>1. m \in Nat /\ n \in Nat
    OBVIOUS
  <2>2. ~(m < n)
    BY <1>2, <2>1 DEF OpToRel
  <2> QED
    BY <2>1, <2>2
<1> QED
  BY <1>3

LEMMA Greatest ==
  ASSUME NEW S, IsFiniteSet(S), S # {}, S \subseteq Nat
  PROVE  Max(S) \in S /\ \A y \in S : y <= Max(S)
<1> DEFINE Above(x) == {y \in S : y > x}
           N == {Cardinality(Above(x)) : x \in S}
<1>1. \A x \in S : IsFiniteSet(Above(x)) /\ Cardinality(Above(x)) \in Nat
  BY FS_Subset, FS_CardinalityType
<1>2. N # {} /\ N \subseteq Nat
  BY <1>1
<1>3. PICK n \in N : \A m \in N : n <= m
  <2> HIDE DEF N
  <2> QED
    BY <1>2, LeastNumber
<1>4. PICK x \in S : n = Cardinality(Above(x))
  BY <1>3
<1>5. \A y \in S : y <= x
  <2> SUFFICES ASSUME NEW y \in S, y > x PROVE FALSE
    OBVIOUS
  <2>1. Above(y) \subseteq Above(x) /\ y \in Above(x) /\ y \notin Above(y)
    <3>1. x \in Int /\ y \in Int /\ \A z \in S : z \in Int
      OBVIOUS
    <3> HIDE DEF N
    <3>2. \A z \in S : z > y => z > x
      BY <3>1
    <3>3. ~(y > y)
      BY <3>1
    <3>4. Above(y) \subseteq Above(x)
      BY <3>2
    <3>5. y \in Above(x)
      OBVIOUS
    <3>6. y \notin Above(y)
      BY <3>3
    <3> QED
      BY <3>4, <3>5, <3>6
  <2> HIDE DEF Above, N
  <2>2. Cardinality(Above(y)) <= Cardinality(Above(x))
        /\ (Cardinality(Above(x)) = Cardinality(Above(y)) => Above(x) = Above(y))
    BY <1>1, <2>1, FS_Subset
  <2>3. Cardinality(Above(y)) < Cardinality(Above(x))
    <3>1. Above(x) # Above(y)
      BY <2>1
    <3>2. Cardinality(Above(x)) \in Nat /\ Cardinality(Above(y)) \in Nat
      BY <1>1
    <3> QED
      BY <2>2, <3>1, <3>2
  <2>4. Cardinality(Above(y)) \in N
    BY DEF N
  <2>5. Cardinality(Above(x)) <= Cardinality(Above(y))
    BY <1>3, <1>4, <2>4
  <2> QED
    BY <1>1, <2>3, <2>5
<1>6. \E z \in S : \A y \in S : z >= y
  BY <1>5
<1>7. Max(S) \in S /\ \A y \in S : Max(S) >= y
  BY <1>6 DEF Max
<1> QED
  BY <1>7

(* What a job put into the scheduler changes.                              *)
Queued(w, u, id, due, owner, lane, kind, of) ==
  /\ id \in Id /\ id \notin Timers(w) /\ Timers(u) = Timers(w) \cup {id}
  /\ \A x \in Timers(w) : JobOf(u, x) = JobOf(w, x)
  /\ \A x \in Timers(w) : JobOf(w, x).seq # JobOf(u, id).seq
  /\ JobOf(u, id) \in JobSet
  /\ JobOf(u, id).due = due /\ JobOf(u, id).owner = owner /\ JobOf(u, id).lane = lane
  /\ JobOf(u, id).kind = kind /\ JobOf(u, id).of = of

Full(w) == Cardinality(Timers(w)) >= Capacity
Refuses(w, u) == Full(w) /\ u.refused /\ u.jobs = w.jobs /\ u.owned = w.owned
Takes(w, u, due, owner, lane, kind, of) ==
  /\ ~Full(w) /\ u.refused = w.refused
  /\ \E id \in Id :
       /\ Queued(w, u, id, due, owner, lane, kind, of)
       /\ \A e \in Entity : u.owned[e] = IF e = owner THEN w.owned[e] \cup {id}
                                         ELSE w.owned[e]

LEMMA ScheduleFacts ==
  ASSUME NEW w \in WorldState, Tables(w),
         NEW due \in Int, NEW owner \in Owner, NEW lane \in Lane,
         NEW kind \in Kind, NEW of \in Thing
  PROVE  LET u == Schedule(w, due, owner, lane, kind, of)
         IN  /\ u \in WorldState /\ Tables(u)
             /\ u.actions = w.actions /\ u.holds = w.holds /\ u.spawns = w.spawns
             /\ u.body = w.body /\ u.npcs = w.npcs /\ u.cooling = w.cooling
             /\ u.starts = w.starts
             /\ Refuses(w, u) \/ Takes(w, u, due, owner, lane, kind, of)
<1> DEFINE u == Schedule(w, due, owner, lane, kind, of)
           S == {0} \cup {JobOf(w, id).seq : id \in Timers(w)}
           seq == 1 + Max(S)
           job == [due |-> due, seq |-> seq, owner |-> owner, lane |-> lane,
                   kind |-> kind, of |-> of]
           id == NextId(w.jobs)
           j == Put(w.jobs, job)
           o == [e \in Entity |-> IF e = owner THEN w.owned[e] \cup {id} ELSE w.owned[e]]
<1>1. /\ Timers(w) \subseteq Id /\ IsFiniteSet(Timers(w)) /\ Cardinality(Timers(w)) \in Nat
      /\ \A x \in Timers(w) : JobOf(w, x) \in JobSet /\ JobOf(w, x).seq \in Nat
  BY TimersOf, JobFields
<1>2. seq \in Nat /\ \A x \in Timers(w) : JobOf(w, x).seq # seq
  <2>1. S \subseteq Nat /\ S # {}
    BY <1>1
  <2>2. IsFiniteSet(S)
    <3> DEFINE R == {JobOf(w, x).seq : x \in Timers(w)}
               g == [x \in Timers(w) |-> JobOf(w, x).seq]
    <3>1. g \in Surjection(Timers(w), R)
      BY DEF Surjection
    <3>2. IsFiniteSet(R)
      BY <1>1, <3>1, FS_Surjection
    <3> HIDE DEF R, g
    <3>3. IsFiniteSet(R \cup {0})
      BY <3>2, FS_AddElement
    <3> QED
      BY <3>3 DEF R
  <2>3. \A x \in Timers(w) : JobOf(w, x).seq \in S
    OBVIOUS
  <2> HIDE DEF S
  <2>4. Max(S) \in Nat /\ \A y \in S : y \in Nat /\ y <= Max(S)
    BY <2>1, <2>2, Greatest
  <2> QED
    BY <2>3, <2>4
<1> HIDE DEF seq
<1>3. job \in JobSet /\ job # Nothing
  <2>1. job \in JobSet
    BY <1>2 DEF JobSet
  <2> QED
    BY <2>1, NotNothing
<1>4. /\ w.jobs \in TableOf(JobSet) /\ Sound(w.jobs) /\ w.owned \in [Entity -> SUBSET Id]
  BY WorldParts DEF Tables
<1>5. CASE Full(w)
  <2>1. u = [w EXCEPT !.refused = TRUE]
    BY <1>5 DEF Schedule, Full
  <2> HIDE DEF u, o, j, job
  <2>2. /\ u \in WorldState
        /\ u.actions = w.actions /\ u.holds = w.holds /\ u.spawns = w.spawns
        /\ u.body = w.body /\ u.npcs = w.npcs /\ u.cooling = w.cooling
        /\ u.starts = w.starts /\ u.jobs = w.jobs /\ u.owned = w.owned /\ u.refused
    BY <2>1 DEF WorldState
  <2>3. Tables(u)
    BY <2>2 DEF Tables
  <2> QED
    BY <1>5, <2>2, <2>3 DEF u, Refuses
<1>6. CASE ~Full(w)
  <2>1. u = [w EXCEPT !.jobs = j, !.owned = o]
    BY <1>6 DEF Schedule, Full, seq
  <2> HIDE DEF job, u, j
  <2>2. /\ j \in TableOf(JobSet) /\ Sound(j) /\ id \in Id /\ id \notin Ids(w.jobs)
        /\ Ids(j) = Ids(w.jobs) \cup {id} /\ Item(j, id) = job
        /\ \A x \in Ids(w.jobs) : Item(j, x) = Item(w.jobs, x)
    BY <1>3, <1>4, PutFacts DEF j
  <2> HIDE DEF id
  <2>3. o \in [Entity -> SUBSET Id]
        /\ \A e \in Entity : o[e] = IF e = owner THEN w.owned[e] \cup {id} ELSE w.owned[e]
    BY <1>4, <2>2
  <2> HIDE DEF o
  <2>4. /\ u \in WorldState
        /\ u.actions = w.actions /\ u.holds = w.holds /\ u.spawns = w.spawns
        /\ u.body = w.body /\ u.npcs = w.npcs /\ u.cooling = w.cooling
        /\ u.starts = w.starts /\ u.jobs = j /\ u.owned = o /\ u.refused = w.refused
    BY <2>1, <2>2, <2>3 DEF WorldState
  <2>5. Tables(u)
    BY <2>2, <2>4 DEF Tables
  <2>6. /\ Timers(u) = Timers(w) \cup {id} /\ id \notin Timers(w) /\ JobOf(u, id) = job
        /\ \A x \in Timers(w) : JobOf(u, x) = JobOf(w, x)
    BY <2>2, <2>4 DEF Timers, JobOf
  <2>7. /\ job.due = due /\ job.seq = seq /\ job.owner = owner /\ job.lane = lane
        /\ job.kind = kind /\ job.of = of
    BY DEF job
  <2>8. Queued(w, u, id, due, owner, lane, kind, of)
    BY <1>2, <1>3, <2>2, <2>6, <2>7 DEF Queued
  <2>9. Takes(w, u, due, owner, lane, kind, of)
    BY <1>6, <2>2, <2>3, <2>4, <2>8 DEF Takes
  <2> QED
    BY <2>4, <2>5, <2>9 DEF u
<1> QED
  BY <1>5, <1>6

LEMMA RightFields ==
  ASSUME NEW w, NEW j, NEW k, j.kind = k.kind, j.of = k.of, j.owner = k.owner, j.lane = k.lane,
         Right(w, j), k.kind \in Kind
  PROVE  Right(w, k)
BY DEF Right

LEMMA FollowsSame ==
  ASSUME NEW w, NEW u, u.actions = w.actions, u.spawns = w.spawns, u.npcs = w.npcs
  PROVE  Follows(w, u)
BY DEF Follows, Action

LEMMA InWorldSame ==
  ASSUME NEW w, NEW u, u.body = w.body, u.npcs = w.npcs, NEW e, InWorld(w, e)
  PROVE  InWorld(u, e)
BY DEF InWorld

LEMMA ActingSame ==
  ASSUME NEW w, NEW u, u.actions = w.actions, u.holds = w.holds, u.body = w.body, Acting(w)
  PROVE  Acting(u)
BY DEF Acting, Action

(* A job that is scheduled is refused or comes, and the others still do.   *)
LEMMA ScheduleBase ==
  ASSUME NEW w, NEW f, Base(w, f),
         NEW due \in Int, NEW owner \in Owner, NEW lane \in Lane,
         NEW kind \in Kind, NEW of \in Thing,
         Right(w, [owner |-> owner, lane |-> lane, kind |-> kind, of |-> of]),
         InWorld(w, owner), ~IsComing(w, f, kind, of)
  PROVE  LET u == Schedule(w, due, owner, lane, kind, of)
         IN  /\ Base(u, f) /\ (u.refused \/ IsComing(u, f, kind, of))
             /\ (w.refused => u.refused)
             /\ \A k, o : IsComing(w, f, k, o) => IsComing(u, f, k, o)
<1> DEFINE u == Schedule(w, due, owner, lane, kind, of)
           want == [owner |-> owner, lane |-> lane, kind |-> kind, of |-> of]
<1>1. /\ w \in WorldState /\ f \in Seq(JobSet) /\ Tables(w) /\ AllRight(w, f) /\ Unique(w, f)
      /\ Acting(w) /\ Cardinality(Timers(w)) <= Capacity /\ Uncrowded(w)
      /\ \A e \in Entity : w.owned[e] = {x \in Timers(w) : JobOf(w, x).owner = e}
      /\ \A x \in Timers(w) : InWorld(w, JobOf(w, x).owner)
  BY BaseParts
<1>2. /\ u \in WorldState /\ Tables(u)
      /\ u.actions = w.actions /\ u.holds = w.holds /\ u.spawns = w.spawns
      /\ u.body = w.body /\ u.npcs = w.npcs
      /\ Refuses(w, u) \/ Takes(w, u, due, owner, lane, kind, of)
  <2>1. w \in WorldState /\ Tables(w)
    BY <1>1
  <2> QED
    BY <2>1, ScheduleFacts
<1>3. Right(w, want)
  OBVIOUS
<1> HIDE DEF u
<1>4. Follows(w, u) /\ Acting(u) /\ \A e : InWorld(w, e) => InWorld(u, e)
  BY <1>1, <1>2, FollowsSame, ActingSame, InWorldSame
<1>5. Uncrowded(u)
  BY <1>1, <1>2 DEF Uncrowded
<1>6. CASE Refuses(w, u)
  <2>1. u.refused /\ u.jobs = w.jobs /\ u.owned = w.owned
    BY <1>6 DEF Refuses
  <2>2. \A x \in Timers(w) : InWorld(u, JobOf(w, x).owner)
    BY <1>1, <1>4
  <2>3. Base(u, f)
    BY <1>2, <1>4, <1>5, <2>1, <2>2, BaseSameJobs
  <2>4. \A k, o : IsComing(w, f, k, o) => IsComing(u, f, k, o)
    BY <2>1, SameTimers
  <2> QED
    BY <2>1, <2>3, <2>4 DEF u
<1>7. CASE Takes(w, u, due, owner, lane, kind, of)
  <2>1. u.refused = w.refused /\ ~Full(w)
    BY <1>7 DEF Takes
  <2>2. PICK id \in Id :
          /\ Queued(w, u, id, due, owner, lane, kind, of)
          /\ \A e \in Entity : u.owned[e] = IF e = owner THEN w.owned[e] \cup {id}
                                            ELSE w.owned[e]
    BY <1>7 DEF Takes
  <2>3. /\ id \notin Timers(w) /\ Timers(u) = Timers(w) \cup {id}
        /\ \A x \in Timers(w) : JobOf(u, x) = JobOf(w, x)
        /\ \A x \in Timers(w) : JobOf(w, x).seq # JobOf(u, id).seq
        /\ JobOf(u, id) \in JobSet
        /\ JobOf(u, id).owner = owner /\ JobOf(u, id).lane = lane
        /\ JobOf(u, id).kind = kind /\ JobOf(u, id).of = of
    BY <2>2 DEF Queued
  <2>4. \A x \in Timers(w) : JobOf(w, x) \in JobSet
    BY <1>1, TimersOf
  <2>5. AllRight(u, f)
    <3>1. ASSUME NEW x \in Timers(w) PROVE Right(u, JobOf(u, x))
      <4>1. Right(w, JobOf(w, x)) /\ JobOf(w, x).kind \in Kind
        BY <1>1, <2>4, JobFields DEF AllRight
      <4> QED
        BY <1>4, <2>3, <4>1, RightFollows
    <3>2. Right(u, JobOf(u, id))
      <4> DEFINE j == JobOf(u, id)
      <4>1. want.kind = kind /\ want.of = of /\ want.owner = owner /\ want.lane = lane
        OBVIOUS
      <4>2. j.kind = want.kind /\ j.of = want.of /\ j.owner = want.owner /\ j.lane = want.lane
            /\ j.kind \in Kind
        BY <2>3, <4>1
      <4> HIDE DEF j, want
      <4>3. Right(w, j)
        BY <1>3, <4>2, RightFields
      <4>4. Right(u, j)
        BY <1>4, <4>2, <4>3, RightFollows
      <4> QED
        BY <4>4 DEF j
    <3>3. ASSUME NEW i \in DOMAIN f PROVE Right(u, f[i])
      <4>1. f[i] \in JobSet
        BY <1>1, Elements
      <4>2. Right(w, f[i]) /\ f[i].kind \in Kind
        BY <1>1, <4>1, JobFields DEF AllRight
      <4> QED
        BY <1>4, <4>2, RightFollows
    <3> QED
      BY <2>3, <3>1, <3>2, <3>3 DEF AllRight
  <2>6. Unique(u, f)
    <3>1. ASSUME NEW x \in Timers(w) PROVE ~Same(JobOf(w, x), JobOf(u, id))
      BY <2>3 DEF IsComing, Same
    <3>2. ASSUME NEW i \in DOMAIN f PROVE ~Same(JobOf(u, id), f[i])
      BY <2>3 DEF IsComing, Same
    <3>3. \A a, b : Same(a, b) => Same(b, a)
      BY DEF Same
    <3>4. \A a, b \in Timers(u) : Same(JobOf(u, a), JobOf(u, b)) => a = b
      BY <1>1, <2>3, <3>1, <3>3 DEF Unique
    <3>5. \A a \in Timers(u), i \in DOMAIN f : ~Same(JobOf(u, a), f[i])
      BY <1>1, <2>3, <3>2 DEF Unique
    <3>6. \A a, b \in Timers(u) : JobOf(u, a).seq = JobOf(u, b).seq => a = b
      BY <1>1, <2>3 DEF Unique
    <3> QED
      BY <1>1, <3>4, <3>5, <3>6 DEF Unique
  <2>7. Owned(u)
    <3>1. ASSUME NEW e \in Entity PROVE u.owned[e] = {x \in Timers(u) : JobOf(u, x).owner = e}
      <4>1. w.owned[e] = {x \in Timers(w) : JobOf(w, x).owner = e}
        BY <1>1
      <4>2. u.owned[e] = IF e = owner THEN w.owned[e] \cup {id} ELSE w.owned[e]
        BY <2>2
      <4>3. \A x \in Timers(w) : JobOf(u, x).owner = JobOf(w, x).owner
        BY <2>3
      <4> QED
        BY <2>3, <4>1, <4>2, <4>3
    <3>2. ASSUME NEW x \in Timers(u) PROVE InWorld(u, JobOf(u, x).owner)
      BY <1>1, <1>4, <2>3
    <3> QED
      BY <3>1, <3>2 DEF Owned
  <2>8. Cardinality(Timers(u)) <= Capacity
    <3>1. IsFiniteSet(Timers(w)) /\ Cardinality(Timers(w)) \in Nat
      BY <1>1, TimersOf
    <3>2. Cardinality(Timers(u)) = Cardinality(Timers(w)) + 1
      BY <2>3, <3>1, FS_AddElement
    <3>3. Capacity \in Nat
      BY SimAssumption DEF SimAssumption
    <3> QED
      BY <2>1, <3>1, <3>2, <3>3 DEF Full
  <2>9. Base(u, f)
    BY <1>1, <1>2, <1>4, <1>5, <2>5, <2>6, <2>7, <2>8 DEF Base, Bounded
  <2>10. IsComing(u, f, kind, of)
    BY <2>3 DEF IsComing
  <2>11. \A k, o : IsComing(w, f, k, o) => IsComing(u, f, k, o)
    BY <2>3 DEF IsComing
  <2> QED
    BY <2>1, <2>9, <2>10, <2>11 DEF u
<1> QED
  BY <1>2, <1>6, <1>7

LEMMA CancelOwnerFacts ==
  ASSUME NEW w, NEW f, Base(w, f), NEW e \in Entity
  PROVE  LET u == CancelOwner(w, e)
         IN  /\ Base(u, f)
             /\ Timers(u) = {x \in Timers(w) : JobOf(w, x).owner # e}
             /\ \A x \in Timers(u) : JobOf(u, x) = JobOf(w, x)
             /\ u.actions = w.actions /\ u.holds = w.holds /\ u.spawns = w.spawns
             /\ u.body = w.body /\ u.npcs = w.npcs /\ u.cooling = w.cooling
             /\ u.starts = w.starts /\ u.refused = w.refused
<1> DEFINE u == CancelOwner(w, e)
           j == Take(w.jobs, w.owned[e])
           o == [w.owned EXCEPT ![e] = {}]
<1>1. /\ w \in WorldState /\ Tables(w) /\ Acting(w) /\ Uncrowded(w)
      /\ \A d \in Entity : w.owned[d] = {x \in Timers(w) : JobOf(w, x).owner = d}
      /\ \A x \in Timers(w) : InWorld(w, JobOf(w, x).owner)
  BY BaseParts
<1>2. w.jobs \in TableOf(JobSet) /\ Sound(w.jobs) /\ w.owned \in [Entity -> SUBSET Id]
  BY <1>1, WorldParts DEF Tables
<1>3. u = [w EXCEPT !.jobs = j, !.owned = o]
  BY DEF CancelOwner
<1> HIDE DEF u
<1>4. /\ j \in TableOf(JobSet) /\ Sound(j) /\ Ids(j) = Ids(w.jobs) \ w.owned[e]
      /\ \A x \in Ids(j) : Item(j, x) = Item(w.jobs, x)
  BY <1>2, TakeFacts
<1>5. o \in [Entity -> SUBSET Id]
      /\ \A d \in Entity : o[d] = IF d = e THEN {} ELSE w.owned[d]
  BY <1>2
<1> HIDE DEF j, o
<1>6. /\ u \in WorldState /\ u.jobs = j /\ u.owned = o
      /\ u.actions = w.actions /\ u.holds = w.holds /\ u.spawns = w.spawns
      /\ u.body = w.body /\ u.npcs = w.npcs /\ u.cooling = w.cooling
      /\ u.starts = w.starts /\ u.refused = w.refused
  BY <1>1, <1>3, <1>4, <1>5 DEF WorldState
<1>7. Tables(u)
  BY <1>1, <1>4, <1>6 DEF Tables
<1>8. /\ Timers(u) = Timers(w) \ w.owned[e]
      /\ \A x \in Timers(u) : JobOf(u, x) = JobOf(w, x)
  BY <1>4, <1>6 DEF Timers, JobOf
<1>9. Timers(u) = {x \in Timers(w) : JobOf(w, x).owner # e}
  BY <1>1, <1>8
<1>10. Follows(w, u) /\ Acting(u) /\ \A d : InWorld(w, d) => InWorld(u, d)
  BY <1>1, <1>6, FollowsSame, ActingSame, InWorldSame
<1>11. Fewer(w, u)
  BY <1>8 DEF Fewer
<1>12. ASSUME NEW d \in Entity PROVE u.owned[d] = {x \in Timers(u) : JobOf(u, x).owner = d}
  <2>1. w.owned[d] = {x \in Timers(w) : JobOf(w, x).owner = d}
    BY <1>1
  <2>2. \A x \in Timers(u) : JobOf(u, x).owner = JobOf(w, x).owner
    BY <1>8
  <2>3. u.owned[d] = IF d = e THEN {} ELSE w.owned[d]
    BY <1>5, <1>6
  <2> QED
    BY <1>9, <2>1, <2>2, <2>3
<1>13. \A x \in Timers(u) : InWorld(u, JobOf(u, x).owner)
  BY <1>1, <1>8, <1>10
<1>14. Uncrowded(u)
  BY <1>1, <1>6 DEF Uncrowded
<1>15. Base(u, f)
  BY <1>6, <1>7, <1>10, <1>11, <1>12, <1>13, <1>14, BaseStep
<1> QED
  BY <1>6, <1>8, <1>9, <1>15 DEF u

(* A tick passes: every job is one tick nearer.                            *)
LEMMA OlderFacts ==
  ASSUME NEW w \in WorldState, Tables(w)
  PROVE  LET u == Older(w)
         IN  /\ u \in WorldState /\ Tables(u) /\ Timers(u) = Timers(w)
             /\ \A x \in Timers(w) : JobOf(u, x) = Nearer(JobOf(w, x))
             /\ u.owned = w.owned /\ u.actions = w.actions /\ u.holds = w.holds
             /\ u.spawns = w.spawns /\ u.body = w.body /\ u.npcs = w.npcs
             /\ u.starts = w.starts /\ u.refused = w.refused
<1> DEFINE u == Older(w)
           t == w.jobs
           slots == [s \in DOMAIN t.slots |-> IF t.slots[s] = Nothing THEN Nothing
                                              ELSE Nearer(t.slots[s])]
           j == [t EXCEPT !.slots = slots]
           c == [p \in Player |-> [a \in Ability |-> Later(w.cooling[p][a])]]
<1>1. t \in TableOf(JobSet) /\ Sound(t) /\ w.cooling \in [Player -> [Ability -> Nat]]
  BY WorldParts DEF Tables
<1>2. c \in [Player -> [Ability -> Nat]]
  <2>1. \A p \in Player, a \in Ability : w.cooling[p][a] \in Nat
    BY <1>1
  <2>2. \A n \in Nat : Later(n) \in Nat
    BY DEF Later
  <2> QED
    BY <2>1, <2>2
<1>3. u = [w EXCEPT !.jobs = j, !.cooling = c]
  BY DEF Older
<1>4. /\ t.slots \in Seq(JobSet \cup {Nothing}) /\ Len(t.slots) \in Nat
      /\ DOMAIN t.slots = 1 .. Len(t.slots)
  BY <1>1, TableParts
<1>5. \A k \in JobSet : Nearer(k) \in JobSet
  BY DEF JobSet, Nearer
<1>6. \A s \in DOMAIN t.slots : t.slots[s] \in JobSet \cup {Nothing}
  BY <1>4, Elements
<1>7. \A s \in DOMAIN t.slots : /\ slots[s] \in JobSet \cup {Nothing}
                                /\ slots[s] = Nothing <=> t.slots[s] = Nothing
                                /\ t.slots[s] # Nothing => slots[s] = Nearer(t.slots[s])
  BY <1>5, <1>6, NotNothing
<1>8. slots \in Seq(JobSet \cup {Nothing}) /\ Len(slots) = Len(t.slots)
  <2>1. slots \in [1 .. Len(t.slots) -> JobSet \cup {Nothing}]
    BY <1>4, <1>7
  <2> HIDE DEF slots
  <2> QED
    BY <1>4, <2>1
<1> HIDE DEF u, c, slots
<1>9. /\ j \in TableOf(JobSet) /\ Sound(j) /\ Ids(j) = Ids(t)
      /\ \A x \in Ids(t) : x.slot \in DOMAIN slots /\ Item(j, x) = slots[x.slot]
  BY <1>1, <1>7, <1>8, SlotsChanged
<1> HIDE DEF j
<1>10. /\ u \in WorldState /\ u.jobs = j
       /\ u.owned = w.owned /\ u.actions = w.actions /\ u.holds = w.holds
       /\ u.spawns = w.spawns /\ u.body = w.body /\ u.npcs = w.npcs
       /\ u.starts = w.starts /\ u.refused = w.refused
  BY <1>2, <1>3, <1>9 DEF WorldState
<1>11. Tables(u)
  BY <1>9, <1>10 DEF Tables
<1>12. Timers(u) = Timers(w)
  BY <1>9, <1>10 DEF Timers
<1>13. ASSUME NEW x \in Timers(w) PROVE JobOf(u, x) = Nearer(JobOf(w, x))
  <2>1. x \in Ids(t)
    BY DEF Timers
  <2>2. x \in Id
    BY <1>1, <2>1, IdsOf
  <2>3. x.slot \in DOMAIN t.slots /\ t.slots[x.slot] # Nothing
    BY <1>1, <2>1, <2>2, IdsOf
  <2>4. JobOf(u, x) = slots[x.slot] /\ JobOf(w, x) = t.slots[x.slot]
    BY <1>9, <1>10, <2>1 DEF JobOf, Item
  <2> QED
    BY <1>7, <2>3, <2>4
<1> QED
  BY <1>10, <1>11, <1>12, <1>13 DEF u

LEMMA NearerFields ==
  ASSUME NEW j \in JobSet
  PROVE  /\ Nearer(j) \in JobSet /\ Nearer(j).due = j.due - 1 /\ Nearer(j).seq = j.seq
         /\ Nearer(j).owner = j.owner /\ Nearer(j).lane = j.lane
         /\ Nearer(j).kind = j.kind /\ Nearer(j).of = j.of
<1>1. Nearer(j) \in JobSet
  BY DEF JobSet, Nearer
<1>2. /\ Nearer(j).due = j.due - 1 /\ Nearer(j).seq = j.seq
      /\ Nearer(j).owner = j.owner /\ Nearer(j).lane = j.lane
      /\ Nearer(j).kind = j.kind /\ Nearer(j).of = j.of
  BY DEF JobSet, Nearer
<1> QED
  BY <1>1, <1>2

LEMMA OlderBase ==
  ASSUME NEW w, NEW f, Base(w, f)
  PROVE  LET u == Older(w)
         IN  /\ Base(u, f) /\ \A k, o : IsComing(u, f, k, o) <=> IsComing(w, f, k, o)
             /\ Populated(w, f) => Populated(u, f)
             /\ u.refused = w.refused /\ u.actions = w.actions /\ u.spawns = w.spawns
             /\ u.npcs = w.npcs
<1> DEFINE u == Older(w)
<1>1. /\ w \in WorldState /\ f \in Seq(JobSet) /\ Tables(w) /\ AllRight(w, f) /\ Unique(w, f)
      /\ Acting(w) /\ Cardinality(Timers(w)) <= Capacity /\ Uncrowded(w)
      /\ \A e \in Entity : w.owned[e] = {x \in Timers(w) : JobOf(w, x).owner = e}
      /\ \A x \in Timers(w) : InWorld(w, JobOf(w, x).owner)
  BY BaseParts
<1>2. /\ u \in WorldState /\ Tables(u) /\ Timers(u) = Timers(w)
      /\ \A x \in Timers(w) : JobOf(u, x) = Nearer(JobOf(w, x))
      /\ u.owned = w.owned /\ u.actions = w.actions /\ u.holds = w.holds
      /\ u.spawns = w.spawns /\ u.body = w.body /\ u.npcs = w.npcs
      /\ u.starts = w.starts /\ u.refused = w.refused
  BY <1>1, OlderFacts
<1> HIDE DEF u
<1>3. \A x \in Timers(w) : JobOf(w, x) \in JobSet
  BY <1>1, TimersOf
<1>4. \A x \in Timers(w) :
        /\ JobOf(u, x) \in JobSet
        /\ JobOf(u, x).due = JobOf(w, x).due - 1 /\ JobOf(u, x).seq = JobOf(w, x).seq
        /\ JobOf(u, x).owner = JobOf(w, x).owner /\ JobOf(u, x).lane = JobOf(w, x).lane
        /\ JobOf(u, x).kind = JobOf(w, x).kind /\ JobOf(u, x).of = JobOf(w, x).of
  BY <1>2, <1>3, NearerFields
<1>5. Follows(w, u) /\ Acting(u) /\ \A d : InWorld(w, d) => InWorld(u, d)
  BY <1>1, <1>2, FollowsSame, ActingSame, InWorldSame
<1>6. AllRight(u, f)
  <2>1. ASSUME NEW x \in Timers(u) PROVE Right(u, JobOf(u, x))
    <3>1. x \in Timers(w) /\ Right(w, JobOf(w, x)) /\ JobOf(u, x).kind \in Kind
      BY <1>1, <1>2, <1>4, JobFields DEF AllRight
    <3>2. Right(w, JobOf(u, x))
      BY <1>4, <3>1, RightFields
    <3> QED
      BY <1>5, <3>1, <3>2, RightFollows
  <2>2. ASSUME NEW i \in DOMAIN f PROVE Right(u, f[i])
    <3>1. f[i] \in JobSet
      BY <1>1, Elements
    <3>2. Right(w, f[i]) /\ f[i].kind \in Kind
      BY <1>1, <3>1, JobFields DEF AllRight
    <3> QED
      BY <1>5, <3>2, RightFollows
  <2> QED
    BY <2>1, <2>2 DEF AllRight
<1>7. Unique(u, f)
  BY <1>1, <1>2, <1>4 DEF Unique, Same
<1>8. Owned(u)
  <2>1. ASSUME NEW e \in Entity PROVE u.owned[e] = {x \in Timers(u) : JobOf(u, x).owner = e}
    BY <1>1, <1>2, <1>4
  <2>2. \A x \in Timers(u) : InWorld(u, JobOf(u, x).owner)
    BY <1>1, <1>2, <1>4, <1>5
  <2> QED
    BY <2>1, <2>2 DEF Owned
<1>9. Bounded(u)
  BY <1>1, <1>2 DEF Bounded, Uncrowded
<1>10. Base(u, f)
  BY <1>1, <1>2, <1>5, <1>6, <1>7, <1>8, <1>9 DEF Base
<1>11. \A k, o : IsComing(u, f, k, o) <=> IsComing(w, f, k, o)
  BY <1>2, <1>4 DEF IsComing
<1>12. ASSUME NEW n, NEW a, CorpseFirst(w, f, n, a) PROVE CorpseFirst(u, f, n, a)
  <2>1. \A x \in Timers(w) : JobOf(w, x).due \in Int
    BY <1>3, JobFields
  <2>2. \A x \in Timers(w) : \A k, o : IsFor(JobOf(u, x), k, o) <=> IsFor(JobOf(w, x), k, o)
    BY <1>4 DEF IsFor
  <2>3. \A x, y \in Timers(w) :
          JobOf(w, x).due < JobOf(w, y).due => JobOf(u, x).due < JobOf(u, y).due
    BY <1>4, <2>1
  <2> QED
    BY <1>2, <1>12, <2>2, <2>3 DEF CorpseFirst
<1>13. Populated(w, f) => Populated(u, f)
  BY <1>2, <1>12 DEF Populated, AliveNpcs, Dying, HomeOf
<1> QED
  BY <1>2, <1>10, <1>11, <1>13 DEF u

(***************************************************************************)
(* The jobs that are due have one order; a pass fires the first of them.   *)
(***************************************************************************)

DueJobs(w, lane) == {id \in Timers(w) : JobOf(w, id).lane = lane /\ JobOf(w, id).due <= 0}
Prior(w, x, y) == Before(JobOf(w, x), JobOf(w, y))

LEMMA PriorIsOrder ==
  ASSUME NEW w, NEW f, Base(w, f), NEW D, D \subseteq Timers(w)
  PROVE  /\ \A x \in D : ~Prior(w, x, x)
         /\ \A x, y \in D : x = y \/ Prior(w, x, y) \/ Prior(w, y, x)
         /\ \A x, y, z \in D : Prior(w, x, y) /\ Prior(w, y, z) => Prior(w, x, z)
<1>1. w \in WorldState /\ Tables(w) /\ Unique(w, f)
  BY BaseParts
<1>2. \A x \in D : JobOf(w, x).due \in Int /\ JobOf(w, x).seq \in Int
  <2>1. \A x \in Timers(w) : JobOf(w, x) \in JobSet
    BY <1>1, TimersOf
  <2>2. \A x \in D : JobOf(w, x).due \in Int /\ JobOf(w, x).seq \in Nat
    BY <2>1, JobFields
  <2> QED
    BY <2>2
<1>3. \A x, y \in D : JobOf(w, x).seq = JobOf(w, y).seq => x = y
  BY <1>1 DEF Unique
<1>4. \A x \in D : ~Prior(w, x, x)
  BY <1>2 DEF Prior, Before
<1>5. ASSUME NEW x \in D, NEW y \in D, x # y PROVE Prior(w, x, y) \/ Prior(w, y, x)
  <2>1. JobOf(w, x).seq # JobOf(w, y).seq
    BY <1>3, <1>5
  <2> QED
    BY <1>2, <2>1 DEF Prior, Before
<1>6. \A x, y, z \in D : Prior(w, x, y) /\ Prior(w, y, z) => Prior(w, x, z)
  BY <1>2 DEF Prior, Before
<1> QED
  BY <1>4, <1>5, <1>6

(* A job's place is the number of the jobs before it.                      *)
LEMMA OrderExists ==
  ASSUME NEW w, NEW f, Base(w, f), NEW D, D \subseteq Timers(w), IsFiniteSet(D)
  PROVE  \E ids \in [1 .. Cardinality(D) -> D] :
           /\ \A i, k \in DOMAIN ids : i < k => Before(JobOf(w, ids[i]), JobOf(w, ids[k]))
<1> DEFINE n == Cardinality(D)
           P(x) == {y \in D : Prior(w, y, x)}
           r == [x \in D |-> Cardinality(P(x)) + 1]
<1>1. /\ \A x \in D : ~Prior(w, x, x)
      /\ \A x, y \in D : x = y \/ Prior(w, x, y) \/ Prior(w, y, x)
      /\ \A x, y, z \in D : Prior(w, x, y) /\ Prior(w, y, z) => Prior(w, x, z)
  BY PriorIsOrder
<1>2. n \in Nat
  BY FS_CardinalityType
<1>3. \A x \in D : IsFiniteSet(P(x)) /\ Cardinality(P(x)) \in Nat
  BY FS_Subset, FS_CardinalityType
<1>4. ASSUME NEW x \in D PROVE r[x] \in 1 .. n
  <2>1. P(x) \subseteq D \ {x}
    BY <1>1
  <2> HIDE DEF P
  <2>2. IsFiniteSet(D \ {x}) /\ Cardinality(D \ {x}) = n - 1
    BY FS_RemoveElement
  <2>3. Cardinality(P(x)) <= n - 1
    BY <2>1, <2>2, FS_Subset
  <2>4. Cardinality(P(x)) \in Nat
    BY <1>3
  <2>5. r[x] = Cardinality(P(x)) + 1
    OBVIOUS
  <2> HIDE DEF r, n
  <2> QED
    BY <1>2, <2>3, <2>4, <2>5
<1>5. ASSUME NEW x \in D, NEW y \in D, Prior(w, x, y) PROVE r[x] < r[y]
  <2>1. P(x) \subseteq P(y) /\ x \in P(y) /\ x \notin P(x)
    BY <1>1, <1>5
  <2> HIDE DEF P
  <2>2. /\ Cardinality(P(x)) <= Cardinality(P(y))
        /\ Cardinality(P(y)) = Cardinality(P(x)) => P(x) = P(y)
    BY <1>3, <2>1, FS_Subset
  <2>3. P(x) # P(y) /\ Cardinality(P(x)) \in Nat /\ Cardinality(P(y)) \in Nat
    BY <1>3, <2>1
  <2>4. r[x] = Cardinality(P(x)) + 1 /\ r[y] = Cardinality(P(y)) + 1
    OBVIOUS
  <2> HIDE DEF r, n
  <2> QED
    BY <2>2, <2>3, <2>4
<1>6. r \in [D -> 1 .. n]
  BY <1>4
<1> HIDE DEF r, P
<1>7. ASSUME NEW x \in D, NEW y \in D, r[x] = r[y] PROVE x = y
  <2>1. r[x] \in Int /\ r[y] \in Int
    BY <1>2, <1>4
  <2>2. ~Prior(w, x, y)
    BY <1>5, <1>7, <2>1
  <2>3. ~Prior(w, y, x)
    BY <1>5, <1>7, <2>1
  <2> QED
    BY <1>1, <2>2, <2>3
<1>8. r \in Injection(D, 1 .. n)
  BY <1>6, <1>7 DEF Injection, IsInjective
<1>9. IsFiniteSet(1 .. n) /\ Cardinality(1 .. n) = n
  <2>1. 1 \in Int /\ n \in Int
    BY <1>2
  <2> HIDE DEF n
  <2>2. IsFiniteSet(1 .. n) /\ Cardinality(1 .. n) = IF 1 > n THEN 0 ELSE n - 1 + 1
    BY <2>1, FS_Interval
  <2> QED
    BY <1>2, <2>2
<1>10. r \in Surjection(D, 1 .. n)
  BY <1>8, <1>9, FS_Injection
<1>11. \A i \in 1 .. n : \E x \in D : r[x] = i
  BY <1>10 DEF Surjection
<1> DEFINE ids == [i \in 1 .. n |-> CHOOSE x \in D : r[x] = i]
<1>12. ASSUME NEW i \in 1 .. n PROVE ids[i] \in D /\ r[ids[i]] = i
  BY <1>11
<1>13. ids \in [1 .. n -> D] /\ DOMAIN ids = 1 .. n
  BY <1>12
<1> HIDE DEF ids
<1>14. ASSUME NEW i \in 1 .. n, NEW k \in 1 .. n, i < k PROVE Prior(w, ids[i], ids[k])
  <2>1. i \in Int /\ k \in Int /\ i # k
    BY <1>2, <1>14
  <2>2. ids[i] # ids[k]
    BY <1>12, <2>1
  <2>3. ~Prior(w, ids[k], ids[i])
    <3>1. Prior(w, ids[k], ids[i]) => k < i
      BY <1>5, <1>12
    <3> QED
      BY <1>14, <2>1, <3>1
  <2> QED
    BY <1>1, <1>12, <2>2, <2>3
<1>15. \A i, k \in DOMAIN ids : i < k => Before(JobOf(w, ids[i]), JobOf(w, ids[k]))
  BY <1>13, <1>14 DEF Prior
<1> QED
  BY <1>13, <1>15

LEMMA DueOrderFacts ==
  ASSUME NEW w, NEW f, Base(w, f), NEW lane
  PROVE  LET ids == DueOrder(w, lane)  D == DueJobs(w, lane)
         IN  /\ IsFiniteSet(D) /\ Cardinality(D) \in Nat /\ ids \in [1 .. Cardinality(D) -> D]
             /\ \A i, k \in 1 .. Cardinality(D) : i < k => Prior(w, ids[i], ids[k])
             /\ IsInjective(ids) /\ \A x \in D : \E i \in 1 .. Cardinality(D) : ids[i] = x
<1> DEFINE ids == DueOrder(w, lane)
           D == DueJobs(w, lane)
           n == Cardinality(D)
<1>1. w \in WorldState /\ Tables(w)
  BY BaseParts
<1>2. D \subseteq Timers(w) /\ IsFiniteSet(Timers(w))
  BY <1>1, TimersOf DEF DueJobs
<1> HIDE DEF D
<1>3. IsFiniteSet(D) /\ n \in Nat
  BY <1>2, FS_Subset, FS_CardinalityType
<1>4. \E s \in [1 .. n -> D] :
        \A i, k \in DOMAIN s : i < k => Before(JobOf(w, s[i]), JobOf(w, s[k]))
  BY <1>2, <1>3, OrderExists
<1>5. ids = CHOOSE s \in [1 .. n -> D] :
              \A i, k \in DOMAIN s : i < k => Before(JobOf(w, s[i]), JobOf(w, s[k]))
  BY DEF DueOrder, D, DueJobs
<1> HIDE DEF ids, n
<1>6. /\ ids \in [1 .. n -> D]
      /\ \A i, k \in DOMAIN ids : i < k => Before(JobOf(w, ids[i]), JobOf(w, ids[k]))
  BY <1>4, <1>5
<1>7. \A i, k \in 1 .. n : i < k => Prior(w, ids[i], ids[k])
  BY <1>6 DEF Prior
<1>8. \A x \in D : ~Prior(w, x, x)
  BY <1>2, PriorIsOrder
<1>9. ASSUME NEW i \in 1 .. n, NEW k \in 1 .. n, ids[i] = ids[k] PROVE i = k
  <2>1. i \in Int /\ k \in Int /\ ids[i] \in D
    BY <1>3, <1>6
  <2>2. ~(i < k)
    BY <1>7, <1>8, <1>9, <2>1
  <2>3. ~(k < i)
    BY <1>7, <1>8, <1>9, <2>1
  <2> QED
    BY <2>1, <2>2, <2>3
<1>10. ids \in Injection(1 .. n, D)
  BY <1>6, <1>9 DEF Injection, IsInjective
<1>11. IsFiniteSet(1 .. n) /\ Cardinality(1 .. n) = n
  <2>1. 1 \in Int /\ n \in Int
    BY <1>3
  <2>2. IsFiniteSet(1 .. n) /\ Cardinality(1 .. n) = IF 1 > n THEN 0 ELSE n - 1 + 1
    BY <2>1, FS_Interval
  <2> QED
    BY <1>3, <2>2
<1>12. Cardinality(1 .. n) = Cardinality(D)
  BY <1>11 DEF n
<1>13. ids \in Surjection(1 .. n, D)
  BY <1>3, <1>10, <1>12, FS_Injection
<1>14. IsInjective(ids) /\ \A x \in D : \E i \in 1 .. n : ids[i] = x
  BY <1>10, <1>13 DEF Injection, Surjection
<1> QED
  BY <1>3, <1>6, <1>7, <1>14 DEF ids, n, D

LEMMA BatchFacts ==
  ASSUME NEW w, NEW f, Base(w, f), NEW lane \in Lane
  PROVE  LET b == Batch(w, lane)  D == DueJobs(w, lane)
         IN  /\ Len(b) \in Nat /\ DOMAIN b = 1 .. Len(b) /\ b \in [1 .. Len(b) -> D]
             /\ \A i, k \in 1 .. Len(b) : b[i] = b[k] => i = k
             /\ \A i, k \in 1 .. Len(b) : i < k => Prior(w, b[i], b[k])
             /\ \A x \in D, i \in 1 .. Len(b) :
                  x \notin ToSet(b) => Prior(w, b[i], x)
<1> DEFINE ids == DueOrder(w, lane)
           D == DueJobs(w, lane)
           n == Cardinality(D)
           m == Min({Len(ids), Limit(lane)})
           b == Batch(w, lane)
<1>1. /\ n \in Nat /\ ids \in [1 .. n -> D] /\ IsInjective(ids)
      /\ \A i, k \in 1 .. n : i < k => Prior(w, ids[i], ids[k])
      /\ \A x \in D : \E i \in 1 .. n : ids[i] = x
  BY DueOrderFacts
<1> HIDE DEF ids, D, n
<1>2. ids \in Seq(D) /\ Len(ids) = n /\ DOMAIN ids = 1 .. n
  BY <1>1
<1>3. m \in 0 .. n
  <2>1. Limit(lane) \in Nat
    BY SimAssumption DEF SimAssumption, Limit
  <2>2. \E x \in {n, Limit(lane)} : \A y \in {n, Limit(lane)} : x <= y
    BY <1>1, <2>1
  <2>3. m = Min({n, Limit(lane)})
    BY <1>2
  <2>4. m \in {n, Limit(lane)} /\ \A y \in {n, Limit(lane)} : m <= y
    BY <2>2, <2>3 DEF Min
  <2>5. m \in Nat /\ m <= n
    BY <1>1, <2>1, <2>4
  <2> HIDE DEF m
  <2> QED
    BY <1>1, <2>5
<1>4. b = SubSeq(ids, 1, m)
  BY DEF Batch, ids
<1> HIDE DEF b, m
<1>5. Len(b) = m /\ DOMAIN b = 1 .. m /\ \A i \in 1 .. m : b[i] = ids[i]
  BY <1>1, <1>2, <1>3, <1>4
<1>6. m \in Nat /\ m <= n /\ \A i \in 1 .. m : i \in 1 .. n
  BY <1>1, <1>3
<1>7. b \in [1 .. m -> D]
  <2>1. \A i \in 1 .. m : b[i] \in D
    BY <1>1, <1>5, <1>6
  <2>2. b \in Seq(D)
    BY <1>2, <1>3, <1>4
  <2> QED
    BY <1>5, <2>1, <2>2
<1>8. \A i, k \in 1 .. m : b[i] = b[k] => i = k
  BY <1>1, <1>2, <1>5, <1>6 DEF IsInjective
<1>9. \A i, k \in 1 .. m : i < k => Prior(w, b[i], b[k])
  BY <1>1, <1>5, <1>6
<1>10. ASSUME NEW x \in D, NEW i \in 1 .. m, x \notin ToSet(b) PROVE Prior(w, b[i], x)
  <2>1. PICK k \in 1 .. n : ids[k] = x
    BY <1>1
  <2>2. k \notin 1 .. m
    BY <1>5, <1>10, <2>1 DEF ToSet
  <2>3. i < k /\ i \in 1 .. n
    BY <1>1, <1>6, <2>2
  <2> QED
    BY <1>1, <1>5, <2>1, <2>3
<1> QED
  BY <1>5, <1>6, <1>7, <1>8, <1>9, <1>10 DEF b, D

LEMMA TakenOutFacts ==
  ASSUME NEW w, NEW f, Base(w, f), NEW ids
  PROVE  LET u == TakenOut(w, ids)
         IN  /\ u \in WorldState /\ Tables(u) /\ Timers(u) = Timers(w) \ ids
             /\ \A x \in Timers(u) : JobOf(u, x) = JobOf(w, x)
             /\ \A e \in Entity : u.owned[e] = w.owned[e] \ ids
             /\ u.actions = w.actions /\ u.holds = w.holds /\ u.spawns = w.spawns
             /\ u.body = w.body /\ u.npcs = w.npcs /\ u.cooling = w.cooling
             /\ u.starts = w.starts /\ u.refused = w.refused
<1> DEFINE u == TakenOut(w, ids)
           j == Take(w.jobs, ids)
           o == [e \in Entity |-> w.owned[e] \ ids]
<1>1. w \in WorldState /\ Tables(w)
  BY BaseParts
<1>2. w.jobs \in TableOf(JobSet) /\ Sound(w.jobs) /\ w.owned \in [Entity -> SUBSET Id]
  BY <1>1, WorldParts DEF Tables
<1>3. u = [w EXCEPT !.jobs = j, !.owned = o]
  BY DEF TakenOut
<1> HIDE DEF u
<1>4. /\ j \in TableOf(JobSet) /\ Sound(j) /\ Ids(j) = Ids(w.jobs) \ ids
      /\ \A x \in Ids(j) : Item(j, x) = Item(w.jobs, x)
  BY <1>2, TakeFacts
<1>5. o \in [Entity -> SUBSET Id] /\ \A e \in Entity : o[e] = w.owned[e] \ ids
  BY <1>2
<1> HIDE DEF j, o
<1>6. /\ u \in WorldState /\ u.jobs = j /\ u.owned = o
      /\ u.actions = w.actions /\ u.holds = w.holds /\ u.spawns = w.spawns
      /\ u.body = w.body /\ u.npcs = w.npcs /\ u.cooling = w.cooling
      /\ u.starts = w.starts /\ u.refused = w.refused
  BY <1>1, <1>3, <1>4, <1>5 DEF WorldState
<1>7. Tables(u)
  BY <1>1, <1>4, <1>6 DEF Tables
<1>8. /\ Timers(u) = Timers(w) \ ids
      /\ \A x \in Timers(u) : JobOf(u, x) = JobOf(w, x)
  BY <1>4, <1>6 DEF Timers, JobOf
<1> QED
  BY <1>5, <1>6, <1>7, <1>8 DEF u

LEMMA DrainBase ==
  ASSUME NEW w, Base(w, <<>>), NEW lane \in Lane
  PROVE  LET b == Batch(w, lane)
             u == TakenOut(w, ToSet(b))
             g == [i \in DOMAIN b |-> JobOf(w, b[i])]
         IN  /\ Base(u, g) /\ \A i \in DOMAIN g : g[i].lane = lane
             /\ \A k, o : IsComing(w, <<>>, k, o) => IsComing(u, g, k, o)
             /\ Populated(w, <<>>) => Populated(u, g)
             /\ u.refused = w.refused /\ u.actions = w.actions /\ u.spawns = w.spawns
             /\ u.npcs = w.npcs
<1> DEFINE b == Batch(w, lane)
           ids == ToSet(b)
           u == TakenOut(w, ids)
           g == [i \in DOMAIN b |-> JobOf(w, b[i])]
           m == Len(b)
           D == DueJobs(w, lane)
<1>1. /\ w \in WorldState /\ Tables(w) /\ AllRight(w, <<>>) /\ Unique(w, <<>>)
      /\ Acting(w) /\ Cardinality(Timers(w)) <= Capacity /\ Uncrowded(w)
      /\ \A e \in Entity : w.owned[e] = {x \in Timers(w) : JobOf(w, x).owner = e}
      /\ \A x \in Timers(w) : InWorld(w, JobOf(w, x).owner)
  BY BaseParts
<1>2. /\ m \in Nat /\ DOMAIN b = 1 .. m /\ b \in [1 .. m -> D]
      /\ \A i, k \in 1 .. m : b[i] = b[k] => i = k
      /\ \A i, k \in 1 .. m : i < k => Prior(w, b[i], b[k])
      /\ \A x \in D, i \in 1 .. m : x \notin ids => Prior(w, b[i], x)
  BY BatchFacts
<1>3. /\ u \in WorldState /\ Tables(u) /\ Timers(u) = Timers(w) \ ids
      /\ \A x \in Timers(u) : JobOf(u, x) = JobOf(w, x)
      /\ \A e \in Entity : u.owned[e] = w.owned[e] \ ids
      /\ u.actions = w.actions /\ u.holds = w.holds /\ u.spawns = w.spawns
      /\ u.body = w.body /\ u.npcs = w.npcs /\ u.refused = w.refused
  BY TakenOutFacts
<1>4. D = {x \in Timers(w) : JobOf(w, x).lane = lane /\ JobOf(w, x).due <= 0}
  BY DEF DueJobs
<1>5. ids = {b[i] : i \in 1 .. m}
  BY <1>2 DEF ToSet
<1> HIDE DEF b, u, ids, D
<1>6. DOMAIN g = 1 .. m /\ \A i \in 1 .. m : g[i] = JobOf(w, b[i])
  BY <1>2
<1>7. \A i \in 1 .. m : b[i] \in Timers(w) /\ g[i].lane = lane
  BY <1>2, <1>4, <1>6
<1>8. \A x \in Timers(w) : JobOf(w, x) \in JobSet
  BY <1>1, TimersOf
<1>9. g \in Seq(JobSet)
  <2>1. g \in [1 .. m -> JobSet]
    BY <1>2, <1>6, <1>7, <1>8
  <2> HIDE DEF g, m
  <2> QED
    BY <1>2, <2>1
<1> HIDE DEF g, m
<1>10. Follows(w, u) /\ Acting(u) /\ \A d : InWorld(w, d) => InWorld(u, d)
  BY <1>1, <1>3, FollowsSame, ActingSame, InWorldSame
<1>11. \A x \in Timers(w) : Right(w, JobOf(w, x)) /\ JobOf(w, x).kind \in Kind
  BY <1>1, <1>8, JobFields DEF AllRight
<1>12. AllRight(u, g)
  <2>1. \A x \in Timers(w) : Right(u, JobOf(w, x))
    BY <1>10, <1>11, RightFollows
  <2> QED
    BY <1>3, <1>6, <1>7, <2>1 DEF AllRight
<1>13. Unique(u, g)
  <2>1. \A x, y \in Timers(w) : Same(JobOf(w, x), JobOf(w, y)) => x = y
    BY <1>1 DEF Unique
  <2>2. \A x, y \in Timers(w) : JobOf(w, x).seq = JobOf(w, y).seq => x = y
    BY <1>1 DEF Unique
  <2>3. \A i, k \in DOMAIN g : Same(g[i], g[k]) => i = k
    BY <1>2, <1>6, <1>7, <2>1
  <2>4. \A x \in Timers(u), i \in DOMAIN g : ~Same(JobOf(u, x), g[i])
    BY <1>3, <1>5, <1>6, <1>7, <2>1
  <2>5. \A x, y \in Timers(u) : /\ Same(JobOf(u, x), JobOf(u, y)) => x = y
                                /\ JobOf(u, x).seq = JobOf(u, y).seq => x = y
    BY <1>3, <2>1, <2>2
  <2> QED
    BY <2>3, <2>4, <2>5 DEF Unique
<1>14. Owned(u)
  <2>1. ASSUME NEW e \in Entity PROVE u.owned[e] = {x \in Timers(u) : JobOf(u, x).owner = e}
    BY <1>1, <1>3
  <2>2. \A x \in Timers(u) : InWorld(u, JobOf(u, x).owner)
    BY <1>1, <1>3, <1>10
  <2> QED
    BY <2>1, <2>2 DEF Owned
<1>15. Bounded(u)
  <2>1. IsFiniteSet(Timers(w)) /\ Cardinality(Timers(w)) \in Nat /\ Timers(u) \subseteq Timers(w)
    BY <1>1, <1>3, TimersOf
  <2>2. Cardinality(Timers(u)) <= Cardinality(Timers(w)) /\ Cardinality(Timers(u)) \in Nat
    BY <2>1, FS_Subset, FS_CardinalityType
  <2>3. Capacity \in Nat /\ Cardinality(Timers(w)) <= Capacity
    BY <1>1, SimAssumption DEF SimAssumption
  <2>4. Cardinality(Timers(u)) <= Capacity
    BY <2>1, <2>2, <2>3
  <2>5. Uncrowded(u)
    BY <1>1, <1>3 DEF Uncrowded
  <2> QED
    BY <2>4, <2>5 DEF Bounded
<1>16. Base(u, g)
  BY <1>3, <1>9, <1>10, <1>12, <1>13, <1>14, <1>15 DEF Base
<1>17. ASSUME NEW k, NEW o, IsComing(w, <<>>, k, o) PROVE IsComing(u, g, k, o)
  <2>1. PICK x \in Timers(w) : JobOf(w, x).kind = k /\ JobOf(w, x).of = o
    BY <1>17 DEF IsComing
  <2>2. CASE x \in ids
    BY <1>5, <1>6, <2>1, <2>2 DEF IsComing
  <2>3. CASE x \notin ids
    BY <1>3, <2>1, <2>3 DEF IsComing
  <2> QED
    BY <2>2, <2>3
<1>18. ASSUME NEW n, NEW a, CorpseFirst(w, <<>>, n, a) PROVE CorpseFirst(u, g, n, a)
  <2>1. \A x, y \in Timers(w) :
          IsFor(JobOf(w, x), "despawn", n) /\ IsFor(JobOf(w, y), "spawn", a) =>
            JobOf(w, x).due < JobOf(w, y).due
    BY <1>18 DEF CorpseFirst
  <2>2. \A x \in Timers(w) : JobOf(w, x).due \in Int
    BY <1>8, JobFields
  <2>3. ASSUME NEW i \in 1 .. m, NEW k \in 1 .. m,
               IsFor(g[i], "despawn", n), IsFor(g[k], "spawn", a)
        PROVE  i < k
    <3>1. JobOf(w, b[i]).due < JobOf(w, b[k]).due
      BY <1>6, <1>7, <2>1, <2>3
    <3>2. ~Prior(w, b[k], b[i])
      BY <1>7, <2>2, <3>1 DEF Prior, Before
    <3>3. i \in Int /\ k \in Int
      BY <1>2
    <3>4. ~(k < i)
      BY <1>2, <3>2
    <3>5. i # k
      BY <2>3 DEF IsFor
    <3> QED
      BY <3>3, <3>4, <3>5
  <2>4. ASSUME NEW x \in Timers(u), NEW k \in 1 .. m,
               IsFor(JobOf(u, x), "despawn", n), IsFor(g[k], "spawn", a)
        PROVE  FALSE
    <3>1. x \in Timers(w) /\ x \notin ids /\ JobOf(u, x) = JobOf(w, x)
      BY <1>3
    <3>2. JobOf(w, x).due < JobOf(w, b[k]).due
      BY <1>6, <1>7, <2>1, <2>4, <3>1
    <3>3. JobOf(w, x).lane = "deferred"
      BY <1>11, <2>4, <3>1 DEF Right, IsFor
    <3>4. g[k].lane = "deferred"
      BY <1>6, <1>7, <1>11, <2>4 DEF Right, IsFor
    <3>5. JobOf(w, x).lane = lane
      BY <1>7, <3>3, <3>4
    <3>6. JobOf(w, b[k]).due <= 0
      BY <1>2, <1>4
    <3>7. JobOf(w, x).due <= 0
      BY <1>7, <2>2, <3>1, <3>2, <3>6
    <3>8. x \in D
      BY <1>4, <3>1, <3>5, <3>7
    <3>9. Prior(w, b[k], x)
      BY <1>2, <3>1, <3>8
    <3> QED
      BY <1>7, <2>2, <3>1, <3>2, <3>9 DEF Prior, Before
  <2>5. \A x, y \in Timers(u) :
          IsFor(JobOf(u, x), "despawn", n) /\ IsFor(JobOf(u, y), "spawn", a) =>
            JobOf(u, x).due < JobOf(u, y).due
    BY <1>3, <2>1
  <2> QED
    BY <1>6, <2>3, <2>4, <2>5 DEF CorpseFirst
<1>19. Populated(w, <<>>) => Populated(u, g)
  BY <1>3, <1>18 DEF Populated, AliveNpcs, Dying, HomeOf
<1>20. \A i \in DOMAIN g : g[i].lane = lane
  BY <1>6, <1>7
<1> QED
  BY <1>3, <1>16, <1>17, <1>19, <1>20 DEF u, g, b, ids

-----------------------------------------------------------------------------
(***************************************************************************)
(* What has been asked for stays on its way                                *)
(***************************************************************************)

LEMMA FewerCorpseFirst ==
  ASSUME NEW w, NEW u, NEW f, Fewer(w, u), NEW n, NEW a, CorpseFirst(w, f, n, a)
  PROVE  CorpseFirst(u, f, n, a)
BY DEF CorpseFirst, Fewer

(* Monsters and requests stay as they are, and no job for them is lost.    *)
LEMMA RestStays ==
  ASSUME NEW w, NEW f, Rest(w, f), NEW u, NEW g,
         u.npcs = w.npcs, u.spawns = w.spawns, w.refused => u.refused,
         \A o : IsComing(w, f, "spawn", o) => IsComing(u, g, "spawn", o),
         \A o : IsComing(w, f, "despawn", o) => IsComing(u, g, "despawn", o),
         \A n, a : CorpseFirst(w, f, n, a) => CorpseFirst(u, g, n, a)
  PROVE  Rest(u, g)
<1>1. Asked(u, g, Ids(u.spawns))
  BY DEF Rest, Asked
<1>2. Corpses(u, g, Dying(u))
  BY DEF Rest, Corpses, Dying
<1>3. Populated(u, g)
  <2>1. AliveNpcs(u) = AliveNpcs(w) /\ Dying(u) = Dying(w)
        /\ \A a : HomeOf(u, a) = HomeOf(w, a)
    BY DEF AliveNpcs, Dying, HomeOf
  <2>2. Populated(w, f)
    BY DEF Rest
  <2> QED
    BY <2>1, <2>2 DEF Populated
<1> QED
  BY <1>1, <1>2, <1>3 DEF Rest

LEMMA RestSame ==
  ASSUME NEW w, NEW f, Rest(w, f), NEW u,
         u.npcs = w.npcs, u.spawns = w.spawns, u.refused = w.refused, u.jobs = w.jobs
  PROVE  Rest(u, f)
<1>1. Fewer(w, u) /\ \A k, o : IsComing(u, f, k, o) <=> IsComing(w, f, k, o)
  BY SameTimers
<1>2. \A n, a : CorpseFirst(w, f, n, a) => CorpseFirst(u, f, n, a)
  BY <1>1, FewerCorpseFirst
<1> QED
  BY <1>1, <1>2, RestStays

LEMMA TimedSame ==
  ASSUME NEW w, NEW f, NEW ids, Timed(w, f, ids), NEW u, NEW g, NEW rest, rest \subseteq ids,
         w.refused => u.refused,
         \A o : IsComing(w, f, "advance", o) => IsComing(u, g, "advance", o)
  PROVE  Timed(u, g, rest)
BY DEF Timed

LEMMA EndActionsOwing ==
  ASSUME NEW w, NEW f, NEW some, Owing(w, f, some), NEW ids, NEW rest, some \subseteq rest \cup ids
  PROVE  Owing(EndActions(w, ids), f, rest)
<1> DEFINE u == EndActions(w, ids)
<1>1. Base(w, f) /\ Timed(w, f, Ids(w.actions) \ some) /\ Rest(w, f)
  BY DEF Owing
<1>2. w \in WorldState /\ Tables(w)
  BY <1>1, BaseParts
<1>3. /\ Ids(u.actions) = Ids(w.actions) \ ids
      /\ u.jobs = w.jobs /\ u.spawns = w.spawns /\ u.npcs = w.npcs /\ u.refused = w.refused
  BY <1>2, EndActionsFacts
<1>4. Base(u, f)
  BY <1>1, EndActionsBase
<1> HIDE DEF u
<1>5. \A k, o : IsComing(u, f, k, o) <=> IsComing(w, f, k, o)
  BY <1>3, SameTimers
<1>6. Ids(u.actions) \ rest \subseteq Ids(w.actions) \ some
  BY <1>3
<1>7. Timed(u, f, Ids(u.actions) \ rest)
  BY <1>1, <1>3, <1>5, <1>6, TimedSame
<1>8. Rest(u, f)
  BY <1>1, <1>3, RestSame
<1> QED
  BY <1>4, <1>7, <1>8 DEF Owing, u

LEMMA SetPhaseOwing ==
  ASSUME NEW w, NEW f, NEW some, Owing(w, f, some), NEW id \in Ids(w.actions), NEW to \in Phase
  PROVE  Owing(SetPhase(w, id, to), f, some)
<1> DEFINE u == SetPhase(w, id, to)
<1>1. Base(w, f) /\ Timed(w, f, Ids(w.actions) \ some) /\ Rest(w, f)
  BY DEF Owing
<1>2. w \in WorldState /\ Tables(w)
  BY <1>1, BaseParts
<1>3. /\ Ids(u.actions) = Ids(w.actions)
      /\ u.jobs = w.jobs /\ u.spawns = w.spawns /\ u.npcs = w.npcs /\ u.refused = w.refused
  BY <1>2, SetPhaseFacts
<1>4. Base(u, f)
  BY <1>1, SetPhaseBase
<1> HIDE DEF u
<1>5. \A k, o : IsComing(u, f, k, o) <=> IsComing(w, f, k, o)
  BY <1>3, SameTimers
<1>6. Timed(u, f, Ids(u.actions) \ some)
  BY <1>1, <1>3, <1>5, TimedSame
<1>7. Rest(u, f)
  BY <1>1, <1>3, RestSame
<1> QED
  BY <1>4, <1>6, <1>7 DEF Owing, u

(* The timer of the next phase.                                            *)
LEMMA AdvanceOwing ==
  ASSUME NEW w, NEW f, NEW id \in Ids(w.actions), Owing(w, f, {id}), NEW ticks \in Int,
         ~IsComing(w, f, "advance", id)
  PROVE  Owing(Advance(w, id, ticks), f, {})
<1> DEFINE owner == Action(w, id).owner
           u == Advance(w, id, ticks)
<1>1. Base(w, f) /\ Timed(w, f, Ids(w.actions) \ {id}) /\ Rest(w, f)
  BY DEF Owing
<1>2. w \in WorldState /\ Tables(w) /\ Acting(w)
  BY <1>1, BaseParts
<1>3. Action(w, id) \in ActionSet /\ Given(w.actions, id) /\ id \in Id
  BY <1>2, ActionsOf
<1>4. owner \in Player
  BY <1>3, ActionFields
<1>5. w.body[owner] = "alive"
  BY <1>2 DEF Acting
<1>6. u = Schedule(w, ticks, owner, "critical", "advance", id)
  BY DEF Advance
<1>7. owner \in Owner /\ "critical" \in Lane /\ "advance" \in Kind /\ id \in Thing
  BY <1>3, <1>4 DEF Owner, Lane, Kind, Thing, Entity
<1> DEFINE want == [owner |-> owner, lane |-> "critical", kind |-> "advance", of |-> id]
<1>8. Right(w, want)
  <2>1. want.owner = owner /\ want.lane = "critical" /\ want.kind = "advance" /\ want.of = id
    OBVIOUS
  <2>2. id \in Ids(w.actions) => Action(w, id).owner = owner
    OBVIOUS
  <2> HIDE DEF want, owner
  <2> QED
    BY <1>3, <1>4, <2>1, <2>2 DEF Right
<1>9. InWorld(w, owner)
  BY <1>4, <1>5, Entities DEF InWorld
<1> HIDE DEF owner, u
<1>10. /\ Base(u, f) /\ (u.refused \/ IsComing(u, f, "advance", id))
       /\ (w.refused => u.refused)
       /\ \A k, o : IsComing(w, f, k, o) => IsComing(u, f, k, o)
  BY <1>1, <1>6, <1>7, <1>8, <1>9, ScheduleBase
<1>11. /\ u.actions = w.actions /\ u.spawns = w.spawns /\ u.npcs = w.npcs
       /\ Refuses(w, u) \/ Takes(w, u, ticks, owner, "critical", "advance", id)
  BY <1>2, <1>6, <1>7, ScheduleFacts
<1>12. Timed(u, f, Ids(u.actions))
  BY <1>1, <1>10, <1>11 DEF Timed
<1>13. ASSUME NEW n, NEW a, CorpseFirst(w, f, n, a) PROVE CorpseFirst(u, f, n, a)
  <2>1. CASE Refuses(w, u)
    <3>1. Fewer(w, u)
      BY <2>1, SameTimers DEF Refuses
    <3> QED
      BY <1>13, <3>1, FewerCorpseFirst
  <2>2. CASE Takes(w, u, ticks, owner, "critical", "advance", id)
    <3>1. PICK x \in Id : Queued(w, u, x, ticks, owner, "critical", "advance", id)
      BY <2>2 DEF Takes
    <3>2. /\ Timers(u) = Timers(w) \cup {x} /\ JobOf(u, x).kind = "advance"
          /\ \A y \in Timers(w) : JobOf(u, y) = JobOf(w, y)
      BY <3>1 DEF Queued
    <3> QED
      BY <1>13, <3>2 DEF CorpseFirst, IsFor
  <2> QED
    BY <1>11, <2>1, <2>2
<1>14. Rest(u, f)
  BY <1>1, <1>10, <1>11, <1>13, RestStays
<1> QED
  BY <1>10, <1>12, <1>14 DEF Owing, u

LEMMA RecoverOwing ==
  ASSUME NEW w, NEW f, NEW id \in Ids(w.actions), Owing(w, f, {id}),
         ~IsComing(w, f, "advance", id)
  PROVE  Owing(Recover(w, id), f, {})
<1> DEFINE ticks == Timing[Action(w, id).ability].recovery
           v == SetPhase(w, id, "recovery")
<1>1. w \in WorldState /\ Tables(w)
  BY BaseParts DEF Owing
<1>2. ticks \in Nat
  <2>1. Action(w, id).ability \in Ability
    BY <1>1, ActionsOf, ActionFields
  <2>2. Timing \in [Ability -> [windup : Nat, active : Nat, recovery : Nat,
                                cooldown : Nat, dash : BOOLEAN]]
    BY SimAssumption DEF SimAssumption
  <2> QED
    BY <2>1, <2>2
<1>3. CASE ticks = 0
  <2>1. Recover(w, id) = EndActions(w, {id})
    BY <1>3 DEF Recover
  <2>2. Owing(EndActions(w, {id}), f, {})
    BY EndActionsOwing
  <2> QED
    BY <2>1, <2>2
<1>4. CASE ticks # 0
  <2>1. Recover(w, id) = Advance(v, id, ticks)
    BY <1>4 DEF Recover
  <2>2. "recovery" \in Phase
    BY DEF Phase
  <2>3. Owing(v, f, {id})
    BY <2>2, SetPhaseOwing
  <2>4. Ids(v.actions) = Ids(w.actions) /\ v.jobs = w.jobs
    BY <1>1, <2>2, SetPhaseFacts
  <2> HIDE DEF v, ticks
  <2>5. ~IsComing(v, f, "advance", id) /\ id \in Ids(v.actions)
    BY <2>4, SameTimers
  <2>6. Owing(Advance(v, id, ticks), f, {})
    BY <1>2, <2>3, <2>5, AdvanceOwing
  <2> QED
    BY <2>1, <2>6
<1> QED
  BY <1>3, <1>4

-----------------------------------------------------------------------------
(***************************************************************************)
(* Blows                                                                   *)
(***************************************************************************)

LEMMA InterruptedFacts ==
  ASSUME NEW w \in WorldState, Tables(w), Acting(w), NEW p \in Player
  PROVE  LET u == Interrupted(w, {p})
         IN  /\ u = EndActions(w, {w.holds[p]}) /\ u \in WorldState /\ Tables(u)
             /\ u.holds[p] = Nothing
             /\ \A x \in Ids(u.actions) : x \in Ids(w.actions) /\ Action(u, x) = Action(w, x)
             /\ \A x \in Ids(w.actions) : Action(w, x).owner # p => x \in Ids(u.actions)
             /\ u.jobs = w.jobs /\ u.owned = w.owned /\ u.spawns = w.spawns
             /\ u.body = w.body /\ u.npcs = w.npcs /\ u.cooling = w.cooling
             /\ u.starts = w.starts /\ u.refused = w.refused
<1> DEFINE u == Interrupted(w, {p})
           ids == {w.holds[p]}
<1>1. u = EndActions(w, ids)
  <2>1. {w.holds[q] : q \in {p}} = ids
    OBVIOUS
  <2> HIDE DEF ids
  <2> QED
    BY <2>1 DEF Interrupted
<1> HIDE DEF u, ids
<1>2. /\ u \in WorldState /\ Tables(u)
      /\ Ids(u.actions) = Ids(w.actions) \ ids
      /\ \A x \in Ids(u.actions) : Action(u, x) = Action(w, x)
      /\ \A q \in Player : u.holds[q] = IF w.holds[q] \in ids \cap Ids(w.actions)
                                        THEN Nothing ELSE w.holds[q]
      /\ u.jobs = w.jobs /\ u.owned = w.owned /\ u.spawns = w.spawns
      /\ u.body = w.body /\ u.npcs = w.npcs /\ u.cooling = w.cooling
      /\ u.starts = w.starts /\ u.refused = w.refused
  BY <1>1, EndActionsFacts
<1>3. u.holds[p] = Nothing
  <2>1. w.holds[p] # Nothing => w.holds[p] \in Ids(w.actions)
    BY DEF Acting
  <2> QED
    BY <1>2, <2>1 DEF ids
<1>4. ASSUME NEW x \in Ids(w.actions), Action(w, x).owner # p PROVE x \in Ids(u.actions)
  <2>1. x # Nothing
    BY ActionsOf, IdParts
  <2>2. w.holds[p] # x
    BY <1>4, <2>1 DEF Acting
  <2> QED
    BY <1>2, <2>2 DEF ids
<1> QED
  BY <1>1, <1>2, <1>3, <1>4 DEF u, ids

(* A player that does nothing, and owns no timer if it goes, may change.    *)
LEMMA BodyOwing ==
  ASSUME NEW w, NEW f, NEW some, Owing(w, f, some), NEW p \in Player, w.holds[p] = Nothing,
         NEW b, b = "out" => \A x \in Timers(w) : JobOf(w, x).owner # p,
         NEW u \in WorldState, \A q \in Player : u.body[q] = IF q = p THEN b ELSE w.body[q],
         u.jobs = w.jobs, u.owned = w.owned, u.actions = w.actions, u.holds = w.holds,
         u.spawns = w.spawns, u.npcs = w.npcs, u.refused = w.refused
  PROVE  Owing(u, f, some)
<1>1. Base(w, f) /\ Timed(w, f, Ids(w.actions) \ some) /\ Rest(w, f)
  BY DEF Owing
<1>2. /\ w \in WorldState /\ Tables(w) /\ Acting(w) /\ Uncrowded(w)
      /\ \A x \in Timers(w) : InWorld(w, JobOf(w, x).owner)
  BY <1>1, BaseParts
<1>3. Tables(u) /\ Follows(w, u)
  BY <1>2, FollowsSame DEF Tables
<1>4. Acting(u)
  <2>1. ASSUME NEW x \in Ids(u.actions)
        PROVE  u.holds[Action(u, x).owner] = x /\ u.body[Action(u, x).owner] = "alive"
    <3>1. x \in Ids(w.actions) /\ Action(u, x) = Action(w, x)
      BY DEF Action
    <3>2. x # Nothing /\ Action(w, x).owner \in Player
      BY <1>2, <3>1, ActionsOf, ActionFields, IdParts
    <3>3. w.holds[Action(w, x).owner] = x /\ w.body[Action(w, x).owner] = "alive"
      BY <1>2, <3>1 DEF Acting
    <3> QED
      BY <3>1, <3>2, <3>3
  <2>2. ASSUME NEW q \in Player, u.holds[q] # Nothing
        PROVE  u.holds[q] \in Ids(u.actions) /\ Action(u, u.holds[q]).owner = q
    BY <1>2, <2>2 DEF Acting, Action
  <2> QED
    BY <2>1, <2>2 DEF Acting
<1>5. ASSUME NEW x \in Timers(w) PROVE InWorld(u, JobOf(w, x).owner)
  <2>1. InWorld(w, JobOf(w, x).owner)
    BY <1>2
  <2>2. JobOf(w, x).owner \in Player => u.body[JobOf(w, x).owner] # "out"
    BY <2>1 DEF InWorld
  <2> QED
    BY <2>1, <2>2 DEF InWorld
<1>6. Uncrowded(u)
  BY <1>2 DEF Uncrowded
<1>7. Base(u, f)
  BY <1>1, <1>3, <1>4, <1>5, <1>6, BaseSameJobs
<1>8. Rest(u, f)
  BY <1>1, RestSame
<1>9. Timed(u, f, Ids(u.actions) \ some)
  <2>1. \A k, o : IsComing(u, f, k, o) <=> IsComing(w, f, k, o)
    BY SameTimers
  <2> QED
    BY <1>1, <2>1, TimedSame
<1> QED
  BY <1>7, <1>8, <1>9 DEF Owing

(* Whoever is not struck goes on with what it does.                        *)
Spares(w, u, f, p) ==
  /\ \A x \in Ids(w.actions) :
       Action(w, x).owner # p => x \in Ids(u.actions) /\ Action(u, x) = Action(w, x)
  /\ \A o : IsComing(u, f, "advance", o) => IsComing(w, f, "advance", o)

LEMMA HurtPlayerOwing ==
  ASSUME NEW w, NEW f, NEW some, Owing(w, f, some), NEW p \in Player, NEW kills \in BOOLEAN
  PROVE  LET u == HurtPlayer(w, p, kills)
         IN  Owing(u, f, some) /\ Spares(w, u, f, p)
<1> DEFINE u == HurtPlayer(w, p, kills)
           v == Interrupted(w, {p})
<1>1. w \in WorldState /\ Tables(w) /\ Acting(w)
  BY BaseParts DEF Owing
<1>2. /\ v = EndActions(w, {w.holds[p]}) /\ v \in WorldState /\ Tables(v)
      /\ v.holds[p] = Nothing
      /\ \A x \in Ids(v.actions) : x \in Ids(w.actions) /\ Action(v, x) = Action(w, x)
      /\ \A x \in Ids(w.actions) : Action(w, x).owner # p => x \in Ids(v.actions)
      /\ v.jobs = w.jobs /\ v.owned = w.owned /\ v.spawns = w.spawns
      /\ v.body = w.body /\ v.npcs = w.npcs /\ v.cooling = w.cooling
      /\ v.starts = w.starts /\ v.refused = w.refused
  BY <1>1, InterruptedFacts
<1>3. Owing(v, f, some)
  BY <1>2, EndActionsOwing
<1>4. Spares(w, v, f, p)
  <2>1. \A k, o : IsComing(v, f, k, o) <=> IsComing(w, f, k, o)
    BY <1>2, SameTimers
  <2> QED
    BY <1>2, <2>1 DEF Spares
<1>5. CASE kills
  <2> DEFINE w1 == [w EXCEPT !.body[p] = "dead"]
  <2>1. w.body \in [Player -> {"alive", "dead", "out"}]
    BY <1>1, WorldParts
  <2> DEFINE b == [w.body EXCEPT ![p] = "dead"]
  <2>2. b \in [Player -> {"alive", "dead", "out"}]
    BY <2>1
  <2>3. w1 = [w EXCEPT !.body = b]
    OBVIOUS
  <2> HIDE DEF b, w1
  <2>4. /\ w1 \in WorldState /\ w1.body = b
        /\ w1.jobs = w.jobs /\ w1.owned = w.owned /\ w1.actions = w.actions
        /\ w1.holds = w.holds /\ w1.spawns = w.spawns /\ w1.npcs = w.npcs
        /\ w1.refused = w.refused
    BY <1>1, <2>2, <2>3 DEF WorldState
  <2>5. Tables(w1)
    BY <1>1, <2>4 DEF Tables
  <2>6. u = EndActions(w1, {w1.holds[p]})
    <3>1. u = Interrupted(w1, {p})
      BY <1>5 DEF HurtPlayer, w1
    <3>2. {w1.holds[q] : q \in {p}} = {w1.holds[p]}
      OBVIOUS
    <3> HIDE DEF u
    <3> QED
      BY <3>1, <3>2 DEF Interrupted
  <2> HIDE DEF u
  <2>7. /\ u \in WorldState /\ Tables(u)
        /\ u.jobs = w1.jobs /\ u.owned = w1.owned /\ u.spawns = w1.spawns
        /\ u.body = w1.body /\ u.npcs = w1.npcs /\ u.refused = w1.refused
    BY <2>4, <2>5, <2>6, EndActionsFacts
  <2>8. u = EndActions(w1, {w.holds[p]})
    BY <2>4, <2>6
  <2>9. u.actions = v.actions /\ u.holds = v.holds
    BY <1>1, <1>2, <2>4, <2>8, EndActionsAlike
  <2> HIDE DEF v
  <2>10. /\ u.jobs = v.jobs /\ u.owned = v.owned /\ u.spawns = v.spawns
         /\ u.npcs = v.npcs /\ u.refused = v.refused
    BY <1>2, <2>4, <2>7
  <2>11. \A q \in Player : u.body[q] = IF q = p THEN "dead" ELSE v.body[q]
    BY <1>2, <2>1, <2>4, <2>7 DEF b
  <2>12. Owing(u, f, some)
    <3>1. v.holds[p] = Nothing /\ u \in WorldState
      BY <1>2, <2>7
    <3>2. "dead" = "out" => \A x \in Timers(v) : JobOf(v, x).owner # p
      OBVIOUS
    <3> QED
      BY <1>3, <2>9, <2>10, <2>11, <3>1, <3>2, BodyOwing
  <2>13. Spares(w, u, f, p)
    <3>1. \A k, o : IsComing(u, f, k, o) <=> IsComing(v, f, k, o)
      BY <2>10, SameTimers
    <3> QED
      BY <1>4, <2>9, <3>1 DEF Spares, Action
  <2> QED
    BY <2>12, <2>13 DEF u
<1>6. CASE ~kills /\ \E id \in ActiveOf(w, p) : IsDash(w, id)
  <2>1. u = v
    BY <1>6 DEF HurtPlayer
  <2> QED
    BY <1>3, <1>4, <2>1
<1>7. CASE ~kills /\ ~\E id \in ActiveOf(w, p) : IsDash(w, id)
  <2>1. u = w
    BY <1>7 DEF HurtPlayer
  <2>2. Spares(w, w, f, p)
    BY DEF Spares
  <2> QED
    BY <2>1, <2>2
<1> QED
  BY <1>5, <1>6, <1>7

(* The first of the drained jobs is taken.                                 *)
Split(f, j, g) == f # <<>> /\ j = Head(f) /\ g = Tail(f)

LEMMA TailBase ==
  ASSUME NEW w, NEW f, Base(w, f), NEW j, NEW g, Split(f, j, g)
  PROVE  /\ Base(w, g) /\ j \in JobSet /\ Right(w, j) /\ ~IsComing(w, g, j.kind, j.of)
         /\ \A k, o : IsComing(w, f, k, o) =>
              IsComing(w, g, k, o) \/ (k = j.kind /\ o = j.of)
         /\ \A n, a : CorpseFirst(w, f, n, a) => CorpseFirst(w, g, n, a)
         /\ \A i \in DOMAIN g : \E k \in DOMAIN f : g[i] = f[k]
<1> DEFINE m == Len(f)
<1>1. /\ w \in WorldState /\ f \in Seq(JobSet) /\ Tables(w) /\ AllRight(w, f) /\ Unique(w, f)
      /\ Owned(w) /\ Acting(w) /\ Bounded(w)
  BY DEF Base
<1>2. m \in Nat /\ DOMAIN f = 1 .. m /\ \A i \in DOMAIN f : f[i] \in JobSet
  BY <1>1, Elements
<1>3. m # 0
  BY <1>1 DEF Split
<1>4. g \in Seq(JobSet) /\ Len(g) = m - 1 /\ j = f[1]
  BY <1>1 DEF Split
<1>5. DOMAIN g = 1 .. m - 1
  BY <1>4, Elements
<1>6. \A i \in 1 .. m - 1 : g[i] = f[i + 1]
  BY <1>1, <1>2, <1>3 DEF Split
<1> HIDE DEF m
<1>7. /\ \A i \in DOMAIN g : i + 1 \in DOMAIN f /\ g[i] = f[i + 1] /\ i + 1 # 1
      /\ \A k \in DOMAIN f : k # 1 => k - 1 \in DOMAIN g /\ g[k - 1] = f[k]
      /\ 1 \in DOMAIN f
  <2>1. \A i \in 1 .. m - 1 : i + 1 \in 1 .. m /\ i + 1 # 1
    BY <1>2
  <2>2. \A k \in 1 .. m : k # 1 => k - 1 \in 1 .. m - 1 /\ (k - 1) + 1 = k
    BY <1>2
  <2>3. 1 \in 1 .. m
    BY <1>2, <1>3
  <2> QED
    BY <1>2, <1>5, <1>6, <2>1, <2>2, <2>3
<1>8. AllRight(w, g)
  BY <1>1, <1>7 DEF AllRight
<1>9. Unique(w, g)
  <2>1. \A i, k \in DOMAIN g : Same(g[i], g[k]) => i = k
    <3>1. ASSUME NEW i \in DOMAIN g, NEW k \in DOMAIN g, Same(g[i], g[k]) PROVE i = k
      <4>1. i + 1 = k + 1
        BY <1>1, <1>7, <3>1 DEF Unique
      <4> QED
        BY <1>2, <1>5, <4>1
    <3> QED
      BY <3>1
  <2>2. \A a \in Timers(w), i \in DOMAIN g : ~Same(JobOf(w, a), g[i])
    BY <1>1, <1>7 DEF Unique
  <2> QED
    BY <1>1, <2>1, <2>2 DEF Unique
<1>10. Base(w, g)
  BY <1>1, <1>4, <1>8, <1>9 DEF Base
<1>11. ~IsComing(w, g, j.kind, j.of)
  <2>1. \A x \in Timers(w) : ~Same(JobOf(w, x), j)
    BY <1>1, <1>4, <1>7 DEF Unique
  <2>2. \A i \in DOMAIN g : ~Same(g[i], j)
    BY <1>1, <1>4, <1>7 DEF Unique
  <2> QED
    BY <2>1, <2>2 DEF IsComing, Same
<1>12. ASSUME NEW k, NEW o, IsComing(w, f, k, o)
       PROVE  IsComing(w, g, k, o) \/ (k = j.kind /\ o = j.of)
  <2>1. CASE \E x \in Timers(w) : JobOf(w, x).kind = k /\ JobOf(w, x).of = o
    BY <2>1 DEF IsComing
  <2>2. CASE \E i \in DOMAIN f : f[i].kind = k /\ f[i].of = o
    <3>1. PICK i \in DOMAIN f : f[i].kind = k /\ f[i].of = o
      BY <2>2
    <3>2. CASE i = 1
      BY <1>4, <3>1, <3>2
    <3>3. CASE i # 1
      BY <1>7, <3>1, <3>3 DEF IsComing
    <3> QED
      BY <3>2, <3>3
  <2> QED
    BY <1>12, <2>1, <2>2 DEF IsComing
<1>13. ASSUME NEW n, NEW a, CorpseFirst(w, f, n, a) PROVE CorpseFirst(w, g, n, a)
  <2>1. ASSUME NEW i \in DOMAIN g, NEW k \in DOMAIN g,
               IsFor(g[i], "despawn", n), IsFor(g[k], "spawn", a)
        PROVE  i < k
    <3>1. i + 1 < k + 1
      BY <1>7, <1>13, <2>1 DEF CorpseFirst
    <3> QED
      BY <1>2, <1>5, <3>1
  <2>2. \A x \in Timers(w), k \in DOMAIN g :
          ~(IsFor(JobOf(w, x), "despawn", n) /\ IsFor(g[k], "spawn", a))
    BY <1>7, <1>13 DEF CorpseFirst
  <2> QED
    BY <1>13, <2>1, <2>2 DEF CorpseFirst
<1>14. Right(w, j) /\ j \in JobSet
  BY <1>1, <1>2, <1>4, <1>7 DEF AllRight
<1>15. \A i \in DOMAIN g : \E k \in DOMAIN f : g[i] = f[k]
  BY <1>7
<1> QED
  BY <1>10, <1>11, <1>12, <1>13, <1>14, <1>15

(* Scheduling brings its own job and nothing else.                         *)
Concerns(kind, of, n, a) == (kind = "despawn" /\ of = n) \/ (kind = "spawn" /\ of = a)

LEMMA ScheduleMore ==
  ASSUME NEW w \in WorldState, Tables(w), NEW f,
         NEW due \in Int, NEW owner \in Owner, NEW lane \in Lane,
         NEW kind \in Kind, NEW of \in Thing
  PROVE  LET u == Schedule(w, due, owner, lane, kind, of)
         IN  /\ \A k, o : IsComing(u, f, k, o) => IsComing(w, f, k, o) \/ (k = kind /\ o = of)
             /\ \A n, a : CorpseFirst(w, f, n, a) /\ ~Concerns(kind, of, n, a) => CorpseFirst(u, f, n, a)
             /\ \A x \in Timers(u) : \/ x \in Timers(w) /\ JobOf(u, x) = JobOf(w, x)
                                     \/ IsFor(JobOf(u, x), kind, of) /\ JobOf(u, x).due = due
             /\ Full(w) => u.refused
             /\ ~Full(w) => u.refused = w.refused /\ IsComing(u, f, kind, of)
<1> DEFINE u == Schedule(w, due, owner, lane, kind, of)
<1>1. Refuses(w, u) \/ Takes(w, u, due, owner, lane, kind, of)
  BY ScheduleFacts
<1> HIDE DEF u
<1>2. CASE Refuses(w, u)
  <2>1. /\ Timers(u) = Timers(w) /\ \A x : JobOf(u, x) = JobOf(w, x)
        /\ Fewer(w, u)
        /\ \A g, k, o : IsComing(u, g, k, o) <=> IsComing(w, g, k, o)
    BY <1>2, SameTimers DEF Refuses
  <2>2. \A n, a : CorpseFirst(w, f, n, a) => CorpseFirst(u, f, n, a)
    BY <2>1, FewerCorpseFirst
  <2>3. Full(w) /\ u.refused
    BY <1>2 DEF Refuses
  <2> QED
    BY <2>1, <2>2, <2>3 DEF u
<1>3. CASE Takes(w, u, due, owner, lane, kind, of)
  <2>1. PICK y \in Id : Queued(w, u, y, due, owner, lane, kind, of)
    BY <1>3 DEF Takes
  <2>2. /\ Timers(u) = Timers(w) \cup {y}
        /\ \A x \in Timers(w) : JobOf(u, x) = JobOf(w, x)
        /\ JobOf(u, y).due = due /\ JobOf(u, y).kind = kind /\ JobOf(u, y).of = of
    BY <2>1 DEF Queued
  <2>3. ~Full(w) /\ u.refused = w.refused
    BY <1>3 DEF Takes
  <2>4. IsFor(JobOf(u, y), kind, of)
    BY <2>2 DEF IsFor
  <2>5. \A k, o : IsComing(u, f, k, o) => IsComing(w, f, k, o) \/ (k = kind /\ o = of)
    BY <2>2 DEF IsComing
  <2>6. ASSUME NEW n, NEW a, CorpseFirst(w, f, n, a), ~Concerns(kind, of, n, a)
        PROVE  CorpseFirst(u, f, n, a)
    <3>1. ~IsFor(JobOf(u, y), "despawn", n) /\ ~IsFor(JobOf(u, y), "spawn", a)
      BY <2>2, <2>6 DEF IsFor, Concerns
    <3> QED
      BY <2>2, <2>6, <3>1 DEF CorpseFirst
  <2>7. IsComing(u, f, kind, of)
    BY <2>2 DEF IsComing
  <2>8. \A x \in Timers(u) : \/ x \in Timers(w) /\ JobOf(u, x) = JobOf(w, x)
                             \/ IsFor(JobOf(u, x), kind, of) /\ JobOf(u, x).due = due
    BY <2>2, <2>4
  <2> QED
    BY <2>3, <2>5, <2>6, <2>7, <2>8 DEF u
<1> QED
  BY <1>1, <1>2, <1>3

-----------------------------------------------------------------------------
(***************************************************************************)
(* The death of a monster                                                  *)
(***************************************************************************)

(* A monster of the world changes its state, and owns nothing afterwards   *)
(* unless it is dying.                                                     *)
Becomes(w, u, n, state) ==
  /\ DOMAIN u.npcs = DOMAIN w.npcs /\ Len(u.npcs) = Len(w.npcs)
  /\ \A m \in DOMAIN w.npcs :
       /\ u.npcs[m].home = w.npcs[m].home
       /\ u.npcs[m].state = IF m = n THEN state ELSE w.npcs[m].state

LEMMA BecomesFacts ==
  ASSUME NEW w \in WorldState, NEW n \in DOMAIN w.npcs, NEW state \in {"dying", "gone"}
  PROVE  LET u == [w EXCEPT !.npcs[n].state = state]
         IN  /\ u \in WorldState /\ Becomes(w, u, n, state)
             /\ u.jobs = w.jobs /\ u.owned = w.owned /\ u.actions = w.actions
             /\ u.holds = w.holds /\ u.spawns = w.spawns /\ u.body = w.body
             /\ u.cooling = w.cooling /\ u.starts = w.starts /\ u.refused = w.refused
<1> DEFINE u == [w EXCEPT !.npcs[n].state = state]
           npcs == [w.npcs EXCEPT ![n].state = state]
<1>1. /\ Len(w.npcs) \in Nat /\ DOMAIN w.npcs = 1 .. Len(w.npcs)
      /\ \A m \in DOMAIN w.npcs : /\ w.npcs[m].home \in Home
                                  /\ w.npcs[m].state \in {"alive", "dying", "gone"}
                                  /\ w.npcs[m] = [home |-> w.npcs[m].home,
                                                  state |-> w.npcs[m].state]
  BY NpcsOf
<1>2. w.npcs \in Seq(NpcSet)
  BY WorldParts
<1>3. /\ DOMAIN npcs = DOMAIN w.npcs
      /\ \A m \in DOMAIN w.npcs :
           /\ npcs[m] \in NpcSet
           /\ npcs[m].home = w.npcs[m].home
           /\ npcs[m].state = IF m = n THEN state ELSE w.npcs[m].state
  <2>1. DOMAIN npcs = DOMAIN w.npcs
    OBVIOUS
  <2>2. ASSUME NEW m \in DOMAIN w.npcs
        PROVE  /\ npcs[m] \in NpcSet
               /\ npcs[m].home = w.npcs[m].home
               /\ npcs[m].state = IF m = n THEN state ELSE w.npcs[m].state
    <3>1. w.npcs[m] \in NpcSet
      BY <1>2, Elements
    <3>2. CASE m = n
      <4>1. npcs[m] = [w.npcs[m] EXCEPT !.state = state]
        BY <3>2
      <4>2. npcs[m] = [home |-> w.npcs[m].home, state |-> state]
        BY <1>1, <4>1
      <4> QED
        BY <1>1, <3>2, <4>2 DEF NpcSet
    <3>3. CASE m # n
      <4>1. npcs[m] = w.npcs[m]
        BY <3>3
      <4> QED
        BY <3>1, <3>3, <4>1
    <3> QED
      BY <3>2, <3>3
  <2> QED
    BY <2>1, <2>2
<1>4. u = [w EXCEPT !.npcs = npcs]
  OBVIOUS
<1> HIDE DEF npcs, u
<1>5. npcs \in Seq(NpcSet) /\ Len(npcs) = Len(w.npcs)
  <2> DEFINE k == Len(w.npcs)
  <2>1. npcs = [m \in 1 .. k |-> npcs[m]]
    <3>1. npcs = [m \in DOMAIN w.npcs |-> npcs[m]]
      BY <1>3, <1>4 DEF npcs
    <3> QED
      BY <1>1, <3>1
  <2>2. \A m \in 1 .. k : npcs[m] \in NpcSet
    BY <1>1, <1>3
  <2> HIDE DEF k
  <2>3. k \in Nat
    BY <1>1 DEF k
  <2>4. npcs \in [1 .. k -> NpcSet]
    BY <2>1, <2>2
  <2>5. npcs \in Seq(NpcSet)
    BY <2>3, <2>4
  <2>6. Len(npcs) = k
    BY <2>3, <2>4, <2>5
  <2> QED
    BY <2>5, <2>6 DEF k
<1>6. /\ u \in WorldState /\ u.npcs = npcs
      /\ u.jobs = w.jobs /\ u.owned = w.owned /\ u.actions = w.actions
      /\ u.holds = w.holds /\ u.spawns = w.spawns /\ u.body = w.body
      /\ u.cooling = w.cooling /\ u.starts = w.starts /\ u.refused = w.refused
  BY <1>4, <1>5 DEF WorldState
<1>7. Becomes(w, u, n, state)
  BY <1>3, <1>5, <1>6 DEF Becomes
<1> QED
  BY <1>6, <1>7 DEF u

LEMMA BecomesBase ==
  ASSUME NEW w, NEW f, Base(w, f), NEW n \in DOMAIN w.npcs, NEW state \in {"dying", "gone"},
         NEW u \in WorldState, Becomes(w, u, n, state),
         u.jobs = w.jobs, u.owned = w.owned, u.actions = w.actions, u.holds = w.holds,
         u.spawns = w.spawns, u.body = w.body,
         state = "gone" => \A x \in Timers(w) : JobOf(w, x).owner # n
  PROVE  Base(u, f)
<1>1. /\ w \in WorldState /\ Tables(w) /\ Acting(w) /\ Uncrowded(w)
      /\ \A x \in Timers(w) : InWorld(w, JobOf(w, x).owner)
  BY BaseParts
<1>2. Tables(u)
  BY <1>1 DEF Tables
<1>3. /\ DOMAIN u.npcs = DOMAIN w.npcs /\ Len(u.npcs) = Len(w.npcs)
      /\ \A m \in DOMAIN w.npcs :
           u.npcs[m].state = IF m = n THEN state ELSE w.npcs[m].state
  BY DEF Becomes
<1>4. Follows(w, u)
  BY <1>3 DEF Follows, Action
<1>5. ASSUME NEW x \in Timers(w) PROVE InWorld(u, JobOf(w, x).owner)
  <2> DEFINE e == JobOf(w, x).owner
  <2>1. InWorld(w, e)
    BY <1>1
  <2>2. state = "gone" => e # n
    OBVIOUS
  <2> HIDE DEF e
  <2>3. e \in Npc => e \in DOMAIN u.npcs /\ u.npcs[e].state = "dying"
    BY <1>3, <2>1, <2>2 DEF InWorld
  <2>4. InWorld(u, e)
    BY <2>1, <2>3 DEF InWorld
  <2> QED
    BY <2>4 DEF e
<1>6. Acting(u)
  BY <1>1, ActingSame
<1>7. Uncrowded(u)
  BY <1>1, <1>3 DEF Uncrowded
<1> QED
  BY <1>2, <1>4, <1>5, <1>6, <1>7, BaseSameJobs

(* Requests come and go.                                                   *)
LEMMA PutRequest ==
  ASSUME NEW w, NEW f, Base(w, f), NEW h \in Home,
         Len(w.npcs) + 1 + Cardinality(Ids(w.spawns)) <= MaxNpc
  PROVE  LET u == [w EXCEPT !.spawns = Put(@, [home |-> h])]
             id == NextId(w.spawns)
         IN  /\ Base(u, f) /\ id \in Id /\ id \notin Ids(w.spawns)
             /\ Ids(u.spawns) = Ids(w.spawns) \cup {id} /\ HomeOf(u, id) = h
             /\ \A a \in Ids(w.spawns) : HomeOf(u, a) = HomeOf(w, a)
             /\ Given(u.spawns, id) /\ ~IsComing(w, f, "spawn", id)
             /\ u.jobs = w.jobs /\ u.owned = w.owned /\ u.actions = w.actions
             /\ u.holds = w.holds /\ u.body = w.body /\ u.npcs = w.npcs
             /\ u.cooling = w.cooling /\ u.starts = w.starts /\ u.refused = w.refused
<1> DEFINE u == [w EXCEPT !.spawns = Put(@, [home |-> h])]
           item == [home |-> h]
           t == Put(w.spawns, item)
           id == NextId(w.spawns)
<1>1. /\ w \in WorldState /\ f \in Seq(JobSet) /\ Tables(w) /\ AllRight(w, f)
      /\ Acting(w) /\ Uncrowded(w)
      /\ \A x \in Timers(w) : InWorld(w, JobOf(w, x).owner)
  BY BaseParts
<1>2. w.spawns \in TableOf(RequestSet) /\ Sound(w.spawns)
  BY <1>1, WorldParts DEF Tables
<1>3. item \in RequestSet
  BY DEF RequestSet
<1>4. item # Nothing
  BY <1>3, NotNothing
<1>5. u = [w EXCEPT !.spawns = t]
  OBVIOUS
<1> HIDE DEF item
<1>6. /\ t \in TableOf(RequestSet) /\ Sound(t) /\ id \in Id /\ id \notin Ids(w.spawns)
      /\ ~Given(w.spawns, id)
      /\ Ids(t) = Ids(w.spawns) \cup {id} /\ Item(t, id) = item
      /\ \A x \in Ids(w.spawns) : Item(t, x) = Item(w.spawns, x)
      /\ \A x \in Id : Given(w.spawns, x) => Given(t, x)
  BY <1>2, <1>3, <1>4, PutFacts
<1> HIDE DEF t, id, u
<1>7. /\ u \in WorldState /\ u.spawns = t
      /\ u.jobs = w.jobs /\ u.owned = w.owned /\ u.actions = w.actions
      /\ u.holds = w.holds /\ u.body = w.body /\ u.npcs = w.npcs
      /\ u.cooling = w.cooling /\ u.starts = w.starts /\ u.refused = w.refused
  BY <1>1, <1>5, <1>6 DEF WorldState
<1>8. Tables(u)
  BY <1>1, <1>6, <1>7 DEF Tables
<1>9. Follows(w, u)
  BY <1>6, <1>7 DEF Follows, Action
<1>10. \A x \in Timers(w) : InWorld(u, JobOf(w, x).owner)
  BY <1>1, <1>7, InWorldSame
<1>11. Acting(u)
  BY <1>1, <1>7, ActingSame
<1>12. Uncrowded(u)
  <2>1. IsFiniteSet(Ids(w.spawns)) /\ Cardinality(Ids(w.spawns)) \in Nat
    BY <1>1, RequestsOf
  <2>2. Cardinality(Ids(u.spawns)) = Cardinality(Ids(w.spawns)) + 1
    BY <1>6, <1>7, <2>1, FS_AddElement
  <2>3. Len(w.npcs) \in Nat /\ MaxNpc \in Nat
    BY <1>1, NpcsOf, SimAssumption DEF SimAssumption
  <2> QED
    BY <1>7, <2>1, <2>2, <2>3 DEF Uncrowded
<1>13. Base(u, f)
  BY <1>7, <1>8, <1>9, <1>10, <1>11, <1>12, BaseSameJobs
<1>14. ~IsComing(w, f, "spawn", id)
  <2>1. ASSUME NEW x \in Timers(w), JobOf(w, x).kind = "spawn" PROVE JobOf(w, x).of # id
    BY <1>1, <1>6, <2>1 DEF AllRight, Right
  <2>2. ASSUME NEW i \in DOMAIN f, f[i].kind = "spawn" PROVE f[i].of # id
    BY <1>1, <1>6, <2>2 DEF AllRight, Right
  <2> QED
    BY <2>1, <2>2 DEF IsComing
<1>15. HomeOf(u, id) = h /\ \A a \in Ids(w.spawns) : HomeOf(u, a) = HomeOf(w, a)
  BY <1>6, <1>7 DEF HomeOf, item
<1>16. Given(u.spawns, id)
  <2>1. \A x \in Ids(t) : Given(t, x)
    BY <1>6, IdsOf
  <2> QED
    BY <1>6, <1>7, <2>1
<1> QED
  BY <1>6, <1>7, <1>13, <1>14, <1>15, <1>16 DEF u, id

LEMMA TakeRequest ==
  ASSUME NEW w \in WorldState, Tables(w), NEW ids
  PROVE  LET t == Take(w.spawns, ids)
         IN  /\ t \in TableOf(RequestSet) /\ Sound(t)
             /\ Ids(t) = Ids(w.spawns) \ ids
             /\ \A a \in Ids(t) : Item(t, a) = Item(w.spawns, a)
             /\ \A x \in Id : Given(w.spawns, x) => Given(t, x)
<1>1. w.spawns \in TableOf(RequestSet) /\ Sound(w.spawns)
  BY WorldParts DEF Tables
<1> QED
  BY <1>1, TakeFacts

LEMMA TakeRequestBase ==
  ASSUME NEW w, NEW f, Base(w, f), NEW ids,
         NEW u \in WorldState, u.spawns = Take(w.spawns, ids),
         u.jobs = w.jobs, u.owned = w.owned, u.actions = w.actions, u.holds = w.holds,
         u.body = w.body, u.npcs = w.npcs
  PROVE  /\ Base(u, f) /\ Ids(u.spawns) = Ids(w.spawns) \ ids
         /\ \A a \in Ids(u.spawns) : HomeOf(u, a) = HomeOf(w, a)
<1> DEFINE t == Take(w.spawns, ids)
<1>1. /\ w \in WorldState /\ Tables(w) /\ Acting(w) /\ Uncrowded(w)
      /\ \A x \in Timers(w) : InWorld(w, JobOf(w, x).owner)
  BY BaseParts
<1>2. /\ t \in TableOf(RequestSet) /\ Sound(t) /\ Ids(t) = Ids(w.spawns) \ ids
      /\ \A a \in Ids(t) : Item(t, a) = Item(w.spawns, a)
      /\ \A x \in Id : Given(w.spawns, x) => Given(t, x)
  BY <1>1, TakeRequest
<1>3. u.spawns = t
  OBVIOUS
<1> HIDE DEF t
<1>5. Tables(u)
  BY <1>1, <1>2, <1>3 DEF Tables
<1>6. Follows(w, u)
  BY <1>2, <1>3 DEF Follows, Action
<1>7. \A x \in Timers(w) : InWorld(u, JobOf(w, x).owner)
  BY <1>1, <1>3, InWorldSame
<1>8. Acting(u)
  BY <1>1, <1>3, ActingSame
<1>9. Uncrowded(u)
  <2>1. IsFiniteSet(Ids(w.spawns)) /\ Cardinality(Ids(w.spawns)) \in Nat
        /\ Ids(u.spawns) \subseteq Ids(w.spawns)
    BY <1>1, <1>2, <1>3, RequestsOf
  <2>2. Cardinality(Ids(u.spawns)) <= Cardinality(Ids(w.spawns)) /\ Cardinality(Ids(u.spawns)) \in Nat
    BY <2>1, FS_Subset, FS_CardinalityType
  <2>3. Len(w.npcs) \in Nat /\ MaxNpc \in Nat
    BY <1>1, NpcsOf, SimAssumption DEF SimAssumption
  <2> QED
    BY <1>1, <1>3, <2>1, <2>2, <2>3 DEF Uncrowded
<1>10. Base(u, f)
  BY <1>3, <1>5, <1>6, <1>7, <1>8, <1>9, BaseSameJobs
<1>11. \A a \in Ids(u.spawns) : HomeOf(u, a) = HomeOf(w, a)
  BY <1>2, <1>3 DEF HomeOf
<1> QED
  BY <1>2, <1>3, <1>10, <1>11

CanDie(w, n) == n \in AliveNpcs(w) /\ FreshNpc(w) + Cardinality(Ids(w.spawns)) <= MaxNpc

LEMMA KilledOwing ==
  ASSUME NEW w, NEW f, NEW some, Owing(w, f, some), NEW n, CanDie(w, n)
  PROVE  LET u == Killed(w, n)
         IN  Owing(u, f, some) /\ Spares(w, u, f, n)
<1> DEFINE dying == [w EXCEPT !.npcs[n].state = "dying"]
           gone  == Schedule(dying, RespawnDelay, n, "deferred", "despawn", n)
           id    == NextId(gone.spawns)
           home  == w.npcs[n].home
           asked == [gone EXCEPT !.spawns = Put(@, [home |-> home])]
           timed == Schedule(asked, RespawnDelay + 1, World, "deferred", "spawn", id)
           back  == [timed EXCEPT !.spawns = Take(@, {id})]
           u     == Killed(w, n)
<1>1. u = IF Cardinality(Timers(asked)) >= Capacity THEN back ELSE timed
  BY DEF Killed
<1> HIDE DEF u
<1>2. Base(w, f) /\ Timed(w, f, Ids(w.actions) \ some) /\ Rest(w, f)
  BY DEF Owing
<1>3. /\ w \in WorldState /\ f \in Seq(JobSet) /\ Tables(w) /\ AllRight(w, f) /\ Acting(w)
      /\ Uncrowded(w)
  BY <1>2, BaseParts
<1>4. /\ Len(w.npcs) \in Nat /\ DOMAIN w.npcs = 1 .. Len(w.npcs)
      /\ \A m \in DOMAIN w.npcs : w.npcs[m].home \in Home
  BY <1>3, NpcsOf
<1>5. n \in DOMAIN w.npcs /\ w.npcs[n].state = "alive"
  BY DEF CanDie, AliveNpcs
<1>6. Len(w.npcs) + 1 + Cardinality(Ids(w.spawns)) <= MaxNpc
  BY DEF CanDie, FreshNpc
<1>7. n \in Npc
  <2>1. MaxNpc \in Nat /\ Cardinality(Ids(w.spawns)) \in Nat
    BY <1>3, RequestsOf, SimAssumption DEF SimAssumption
  <2> QED
    BY <1>4, <1>5, <1>6, <2>1 DEF Npc
<1>8. RespawnDelay \in Int /\ RespawnDelay + 1 \in Int /\ RespawnDelay < RespawnDelay + 1
  BY SimAssumption DEF SimAssumption
<1>9. /\ dying \in WorldState /\ Becomes(w, dying, n, "dying")
      /\ dying.jobs = w.jobs /\ dying.owned = w.owned /\ dying.actions = w.actions
      /\ dying.holds = w.holds /\ dying.spawns = w.spawns /\ dying.body = w.body
      /\ dying.refused = w.refused
  BY <1>3, <1>5, BecomesFacts
<1> HIDE DEF dying
<1>10. /\ DOMAIN dying.npcs = DOMAIN w.npcs /\ Len(dying.npcs) = Len(w.npcs)
       /\ \A m \in DOMAIN w.npcs :
            /\ dying.npcs[m].home = w.npcs[m].home
            /\ dying.npcs[m].state = IF m = n THEN "dying" ELSE w.npcs[m].state
  BY <1>9 DEF Becomes
<1>11. Base(dying, f)
  <2>1. "dying" = "gone" => \A x \in Timers(w) : JobOf(w, x).owner # n
    OBVIOUS
  <2> QED
    BY <1>2, <1>5, <1>9, <2>1, BecomesBase
<1>12. /\ \A k, o : IsComing(dying, f, k, o) <=> IsComing(w, f, k, o)
       /\ \A m, a : CorpseFirst(w, f, m, a) => CorpseFirst(dying, f, m, a)
  <2>1. /\ Fewer(w, dying)
        /\ \A g, k, o : IsComing(dying, g, k, o) <=> IsComing(w, g, k, o)
    BY <1>9, SameTimers
  <2> QED
    BY <2>1, FewerCorpseFirst
<1>13. ~IsComing(w, f, "despawn", n)
  <2>1. ASSUME NEW x \in Timers(w), JobOf(w, x).kind = "despawn" PROVE JobOf(w, x).of # n
    BY <1>3, <1>5, <2>1 DEF AllRight, Right
  <2>2. ASSUME NEW i \in DOMAIN f, f[i].kind = "despawn" PROVE f[i].of # n
    BY <1>3, <1>5, <2>2 DEF AllRight, Right
  <2> QED
    BY <2>1, <2>2 DEF IsComing
<1>14. /\ n \in Owner /\ "deferred" \in Lane /\ "despawn" \in Kind /\ n \in Thing
       /\ World \in Owner /\ "spawn" \in Kind
  BY <1>7 DEF Owner, Entity, Lane, Kind, Thing
<1>15. dying \in WorldState /\ Tables(dying)
  BY <1>11, BaseParts
<1>16. /\ gone \in WorldState /\ Tables(gone)
       /\ gone.actions = dying.actions /\ gone.holds = dying.holds /\ gone.spawns = dying.spawns
       /\ gone.body = dying.body /\ gone.npcs = dying.npcs
  BY <1>8, <1>14, <1>15, ScheduleFacts
<1>17. /\ Base(gone, f) /\ (gone.refused \/ IsComing(gone, f, "despawn", n))
       /\ (dying.refused => gone.refused)
       /\ \A k, o : IsComing(dying, f, k, o) => IsComing(gone, f, k, o)
  <2> DEFINE want == [owner |-> n, lane |-> "deferred", kind |-> "despawn", of |-> n]
  <2>1. want.owner = n /\ want.lane = "deferred" /\ want.kind = "despawn" /\ want.of = n
    OBVIOUS
  <2>2. dying.npcs[n].state = "dying" /\ n \in DOMAIN dying.npcs
    BY <1>5, <1>10
  <2> HIDE DEF want, gone
  <2>3. Right(dying, want)
    BY <2>1, <2>2 DEF Right
  <2>4. InWorld(dying, n)
    BY <1>7, <2>2, Entities DEF InWorld
  <2>5. ~IsComing(dying, f, "despawn", n)
    BY <1>12, <1>13
  <2> USE DEF gone, want
  <2> QED
    BY <1>8, <1>11, <1>14, <2>3, <2>4, <2>5, ScheduleBase
<1>18. /\ \A k, o : IsComing(gone, f, k, o) => IsComing(dying, f, k, o) \/ (k = "despawn" /\ o = n)
       /\ \A m, a : CorpseFirst(dying, f, m, a) /\ ~Concerns("despawn", n, m, a) =>
                      CorpseFirst(gone, f, m, a)
       /\ \A x \in Timers(gone) : \/ x \in Timers(dying) /\ JobOf(gone, x) = JobOf(dying, x)
                                  \/ IsFor(JobOf(gone, x), "despawn", n)
                                       /\ JobOf(gone, x).due = RespawnDelay
       /\ Full(dying) => gone.refused
       /\ ~Full(dying) => gone.refused = dying.refused /\ IsComing(gone, f, "despawn", n)
  BY <1>8, <1>14, <1>15, ScheduleMore
<1> HIDE DEF gone
<1>19. home \in Home
  BY <1>4, <1>5
<1>20. Len(gone.npcs) + 1 + Cardinality(Ids(gone.spawns)) <= MaxNpc
  BY <1>6, <1>9, <1>10, <1>16
<1> HIDE DEF home
<1>21. /\ Base(asked, f) /\ id \in Id /\ id \notin Ids(gone.spawns)
       /\ Ids(asked.spawns) = Ids(gone.spawns) \cup {id} /\ HomeOf(asked, id) = home
       /\ \A a \in Ids(gone.spawns) : HomeOf(asked, a) = HomeOf(gone, a)
       /\ Given(asked.spawns, id) /\ ~IsComing(gone, f, "spawn", id)
       /\ asked.jobs = gone.jobs /\ asked.owned = gone.owned /\ asked.actions = gone.actions
       /\ asked.holds = gone.holds /\ asked.body = gone.body /\ asked.npcs = gone.npcs
       /\ asked.refused = gone.refused
  BY <1>17, <1>19, <1>20, PutRequest
<1> HIDE DEF asked, id
<1>22. /\ Timers(asked) = Timers(gone) /\ \A x : JobOf(asked, x) = JobOf(gone, x)
       /\ \A k, o : IsComing(asked, f, k, o) <=> IsComing(gone, f, k, o)
       /\ \A m, a : CorpseFirst(gone, f, m, a) => CorpseFirst(asked, f, m, a)
  <2>1. /\ Fewer(gone, asked)
        /\ \A g, k, o : IsComing(asked, g, k, o) <=> IsComing(gone, g, k, o)
        /\ Timers(asked) = Timers(gone) /\ \A x : JobOf(asked, x) = JobOf(gone, x)
    BY <1>21, SameTimers
  <2> QED
    BY <2>1, FewerCorpseFirst
<1>23. asked \in WorldState /\ Tables(asked) /\ id \in Thing
  BY <1>21, BaseParts DEF Thing
<1>24. /\ timed \in WorldState /\ Tables(timed)
       /\ timed.actions = asked.actions /\ timed.holds = asked.holds
       /\ timed.spawns = asked.spawns /\ timed.body = asked.body /\ timed.npcs = asked.npcs
  BY <1>8, <1>14, <1>23, ScheduleFacts
<1>25. /\ Base(timed, f) /\ (asked.refused => timed.refused)
       /\ \A k, o : IsComing(asked, f, k, o) => IsComing(timed, f, k, o)
  <2> DEFINE want == [owner |-> World, lane |-> "deferred", kind |-> "spawn", of |-> id]
  <2>1. want.owner = World /\ want.lane = "deferred" /\ want.kind = "spawn" /\ want.of = id
    OBVIOUS
  <2> HIDE DEF want, timed
  <2>2. Right(asked, want)
    BY <1>21, <2>1 DEF Right
  <2>3. InWorld(asked, World)
    BY Entities DEF InWorld
  <2>4. ~IsComing(asked, f, "spawn", id)
    BY <1>21, <1>22
  <2> USE DEF timed, want
  <2> QED
    BY <1>8, <1>14, <1>21, <1>23, <2>2, <2>3, <2>4, ScheduleBase
<1>26. /\ \A k, o : IsComing(timed, f, k, o) => IsComing(asked, f, k, o) \/ (k = "spawn" /\ o = id)
       /\ \A m, a : CorpseFirst(asked, f, m, a) /\ ~Concerns("spawn", id, m, a) =>
                      CorpseFirst(timed, f, m, a)
       /\ \A x \in Timers(timed) : \/ x \in Timers(asked) /\ JobOf(timed, x) = JobOf(asked, x)
                                   \/ IsFor(JobOf(timed, x), "spawn", id)
                                        /\ JobOf(timed, x).due = RespawnDelay + 1
       /\ Full(asked) => timed.refused
       /\ ~Full(asked) => timed.refused = asked.refused /\ IsComing(timed, f, "spawn", id)
  BY <1>8, <1>14, <1>23, ScheduleMore
<1> HIDE DEF timed
<1>27. /\ \A k, o : IsComing(w, f, k, o) => IsComing(timed, f, k, o)
       /\ \A k, o : IsComing(timed, f, k, o) =>
            IsComing(w, f, k, o) \/ (k = "despawn" /\ o = n) \/ (k = "spawn" /\ o = id)
       /\ \A m, a : CorpseFirst(w, f, m, a) /\ m # n /\ a # id => CorpseFirst(timed, f, m, a)
  <2>1. \A m, a : m # n /\ a # id => ~Concerns("despawn", n, m, a) /\ ~Concerns("spawn", id, m, a)
    BY DEF Concerns
  <2> QED
    BY <1>12, <1>17, <1>18, <1>22, <1>25, <1>26, <2>1
<1>28. /\ timed.actions = w.actions /\ timed.npcs = dying.npcs
       /\ (w.refused => timed.refused)
       /\ Ids(timed.spawns) = Ids(w.spawns) \cup {id} /\ id \notin Ids(w.spawns)
       /\ HomeOf(timed, id) = home
       /\ \A a \in Ids(w.spawns) : HomeOf(timed, a) = HomeOf(w, a)
  BY <1>9, <1>16, <1>17, <1>21, <1>24, <1>25 DEF HomeOf
<1>29. CASE Full(asked)
  <2>1. u = back
    BY <1>1, <1>29 DEF Full
  <2>2. /\ Base(back, f) /\ Ids(back.spawns) = Ids(timed.spawns) \ {id}
        /\ back.jobs = timed.jobs /\ back.actions = timed.actions /\ back.npcs = timed.npcs
        /\ back.refused = timed.refused
    <3> DEFINE one == {id}
               left == Take(timed.spawns, one)
    <3>1. back = [timed EXCEPT !.spawns = left]
      OBVIOUS
    <3>2. left \in TableOf(RequestSet)
      BY <1>24, TakeRequest
    <3>3. left = Take(timed.spawns, one)
      OBVIOUS
    <3> HIDE DEF one, back, left
    <3>4. /\ back \in WorldState /\ back.spawns = left
          /\ back.jobs = timed.jobs /\ back.owned = timed.owned
          /\ back.actions = timed.actions /\ back.holds = timed.holds
          /\ back.body = timed.body /\ back.npcs = timed.npcs /\ back.refused = timed.refused
      BY <1>24, <3>1, <3>2 DEF WorldState
    <3>5. Base(timed, f) /\ back.spawns = Take(timed.spawns, one)
      BY <1>25, <3>3, <3>4
    <3>6. Base(back, f) /\ Ids(back.spawns) = Ids(timed.spawns) \ one
      BY <3>4, <3>5, TakeRequestBase
    <3> QED
      BY <3>4, <3>6 DEF one
  <2> HIDE DEF back
  <2>3. \A k, o : IsComing(back, f, k, o) <=> IsComing(timed, f, k, o)
    BY <2>2, SameTimers
  <2>4. back.refused /\ Ids(back.spawns) = Ids(w.spawns)
    BY <1>26, <1>28, <1>29, <2>2
  <2>5. Timed(back, f, Ids(back.actions) \ some) /\ Corpses(back, f, Dying(back))
        /\ Populated(back, f)
    BY <2>4 DEF Timed, Corpses, Populated
  <2>6. Asked(back, f, Ids(back.spawns))
    BY <1>2, <1>27, <2>3, <2>4 DEF Asked, Rest
  <2>7. Owing(back, f, some)
    BY <2>2, <2>5, <2>6 DEF Owing, Rest
  <2>8. Spares(w, back, f, n)
    BY <1>27, <1>28, <2>2, <2>3 DEF Spares, Action
  <2> QED
    BY <2>1, <2>7, <2>8 DEF u
<1>30. CASE ~Full(asked)
  <2>1. u = timed
    BY <1>1, <1>30 DEF Full
  <2>2. timed.refused = gone.refused /\ IsComing(timed, f, "spawn", id)
    BY <1>21, <1>26, <1>30
  <2>3. Timed(timed, f, Ids(timed.actions) \ some)
    BY <1>2, <1>27, <1>28 DEF Timed
  <2>4. Asked(timed, f, Ids(timed.spawns))
    BY <1>2, <1>27, <1>28, <2>2 DEF Asked, Rest
  <2>5. Dying(timed) = Dying(w) \cup {n} /\ AliveNpcs(timed) = AliveNpcs(w) \ {n}
        /\ DOMAIN timed.npcs = DOMAIN w.npcs
        /\ \A m \in DOMAIN w.npcs : timed.npcs[m].home = w.npcs[m].home
    BY <1>5, <1>10, <1>28 DEF Dying, AliveNpcs
  <2>6. Corpses(timed, f, Dying(timed))
    <3>1. timed.refused \/ IsComing(timed, f, "despawn", n)
      BY <1>17, <1>22, <1>25, <2>2
    <3>2. \A m \in Dying(w) : timed.refused \/ IsComing(timed, f, "despawn", m)
      BY <1>2, <1>27, <1>28 DEF Rest, Corpses
    <3> QED
      BY <2>5, <3>1, <3>2 DEF Corpses
  <2>7. Populated(timed, f)
    <3> SUFFICES ASSUME ~timed.refused PROVE Populated(timed, f)
      BY DEF Populated
    <3>1. /\ \A l, m \in DOMAIN w.npcs :
               w.npcs[l].state # "gone" /\ w.npcs[m].state # "gone"
                 /\ w.npcs[l].home = w.npcs[m].home => l = m
          /\ \A a, b \in Ids(w.spawns) : HomeOf(w, a) = HomeOf(w, b) => a = b
          /\ \A m \in AliveNpcs(w), a \in Ids(w.spawns) : w.npcs[m].home # HomeOf(w, a)
          /\ \A h \in Home : \/ \E m \in AliveNpcs(w) : w.npcs[m].home = h
                             \/ \E a \in Ids(w.spawns) : HomeOf(w, a) = h
          /\ \A m \in Dying(w), a \in Ids(w.spawns) :
               w.npcs[m].home = HomeOf(w, a) => CorpseFirst(w, f, m, a)
      BY <1>2, <1>28 DEF Rest, Populated
    <3>2. n \in AliveNpcs(w) /\ w.npcs[n].home = home
      BY <1>5 DEF AliveNpcs, home
    <3>3. \A m \in DOMAIN w.npcs :
            timed.npcs[m].state # "gone" => w.npcs[m].state # "gone"
      BY <1>5, <1>10, <1>28
    <3>4. \A l, m \in DOMAIN timed.npcs :
            timed.npcs[l].state # "gone" /\ timed.npcs[m].state # "gone"
              /\ timed.npcs[l].home = timed.npcs[m].home => l = m
      BY <2>5, <3>1, <3>3
    <3>5. \A a, b \in Ids(timed.spawns) : HomeOf(timed, a) = HomeOf(timed, b) => a = b
      BY <1>28, <3>1, <3>2
    <3>6. \A m \in AliveNpcs(w) : m \in DOMAIN w.npcs /\ w.npcs[m].state = "alive"
      BY DEF AliveNpcs
    <3>7. \A m \in Dying(w) : m \in DOMAIN w.npcs /\ w.npcs[m].state = "dying"
      BY DEF Dying
    <3>8. \A m \in AliveNpcs(timed), a \in Ids(timed.spawns) : timed.npcs[m].home # HomeOf(timed, a)
      <4>1. ASSUME NEW m \in AliveNpcs(w), m # n PROVE w.npcs[m].home # home
        BY <1>5, <3>1, <3>2, <3>6, <4>1
      <4> QED
        BY <1>28, <2>5, <3>1, <3>6, <4>1
    <3>9. \A h \in Home : \/ \E m \in AliveNpcs(timed) : timed.npcs[m].home = h
                          \/ \E a \in Ids(timed.spawns) : HomeOf(timed, a) = h
      <4>1. ASSUME NEW h \in Home, NEW m \in AliveNpcs(w), w.npcs[m].home = h
            PROVE  \/ \E l \in AliveNpcs(timed) : timed.npcs[l].home = h
                   \/ \E a \in Ids(timed.spawns) : HomeOf(timed, a) = h
        <5>1. CASE m = n
          BY <1>28, <3>2, <4>1, <5>1
        <5>2. CASE m # n
          BY <2>5, <3>6, <4>1, <5>2
        <5> QED
          BY <5>1, <5>2
      <4>2. ASSUME NEW h \in Home, NEW a \in Ids(w.spawns), HomeOf(w, a) = h
            PROVE  \E b \in Ids(timed.spawns) : HomeOf(timed, b) = h
        BY <1>28, <4>2
      <4> QED
        BY <3>1, <4>1, <4>2
    <3>10. CorpseFirst(timed, f, n, id)
      <4>1. ~IsComing(w, f, "spawn", id)
        BY <1>12, <1>17, <1>21
      <4>2. \A x \in Timers(w) : /\ ~IsFor(JobOf(w, x), "despawn", n)
                                 /\ ~IsFor(JobOf(w, x), "spawn", id)
        BY <1>13, <4>1 DEF IsComing, IsFor
      <4>3. \A i \in DOMAIN f : ~IsFor(f[i], "despawn", n) /\ ~IsFor(f[i], "spawn", id)
        BY <1>13, <4>1 DEF IsComing, IsFor
      <4>4. Timers(dying) = Timers(w) /\ \A x : JobOf(dying, x) = JobOf(w, x)
        BY <1>9, SameTimers
      <4>5. \A j : ~(IsFor(j, "despawn", n) /\ IsFor(j, "spawn", id))
        BY DEF IsFor
      <4>6. ASSUME NEW x \in Timers(timed), IsFor(JobOf(timed, x), "despawn", n)
            PROVE  JobOf(timed, x).due = RespawnDelay
        <5>1. x \in Timers(asked) /\ JobOf(timed, x) = JobOf(asked, x)
          BY <1>26, <4>5, <4>6
        <5>2. x \in Timers(gone) /\ JobOf(timed, x) = JobOf(gone, x)
          BY <1>22, <5>1
        <5> QED
          BY <1>18, <4>2, <4>4, <4>6, <5>2
      <4>7. ASSUME NEW x \in Timers(timed), IsFor(JobOf(timed, x), "spawn", id)
            PROVE  JobOf(timed, x).due = RespawnDelay + 1
        <5>1. CASE x \in Timers(asked) /\ JobOf(timed, x) = JobOf(asked, x)
          <6>1. x \in Timers(gone) /\ JobOf(timed, x) = JobOf(gone, x)
            BY <1>22, <5>1
          <6> QED
            BY <1>18, <4>2, <4>4, <4>5, <4>7, <6>1
        <5> QED
          BY <1>26, <5>1
      <4>8. \A x, y \in Timers(timed) :
              IsFor(JobOf(timed, x), "despawn", n) /\ IsFor(JobOf(timed, y), "spawn", id) =>
                JobOf(timed, x).due < JobOf(timed, y).due
        BY <1>8, <4>6, <4>7
      <4> QED
        BY <4>3, <4>8 DEF CorpseFirst
    <3>11. \A m \in Dying(timed), a \in Ids(timed.spawns) :
             timed.npcs[m].home = HomeOf(timed, a) => CorpseFirst(timed, f, m, a)
      <4>1. ASSUME NEW m \in Dying(w), NEW a \in Ids(w.spawns), w.npcs[m].home = HomeOf(w, a)
            PROVE  CorpseFirst(timed, f, m, a)
        <5>1. m # n /\ a # id
          BY <1>5, <1>28, <3>7
        <5> QED
          BY <1>27, <3>1, <4>1, <5>1
      <4>2. ASSUME NEW m \in Dying(w) PROVE w.npcs[m].home # home
        BY <1>5, <3>1, <3>2, <3>7
      <4>3. ASSUME NEW a \in Ids(w.spawns) PROVE home # HomeOf(w, a)
        BY <3>1, <3>2
      <4> QED
        BY <1>5, <1>28, <2>5, <3>2, <3>7, <3>10, <4>1, <4>2, <4>3
    <3> QED
      BY <3>4, <3>5, <3>8, <3>9, <3>11 DEF Populated
  <2>8. Owing(timed, f, some)
    BY <1>25, <2>3, <2>4, <2>6, <2>7 DEF Owing, Rest
  <2>9. Spares(w, timed, f, n)
    BY <1>27, <1>28 DEF Spares, Action
  <2> QED
    BY <2>1, <2>8, <2>9 DEF u
<1> QED
  BY <1>29, <1>30

-----------------------------------------------------------------------------
(***************************************************************************)
(* The phases of an ability                                                *)
(***************************************************************************)

(* Hits on others than p, as many as there are.                            *)
Sparing(blows, p) ==
  /\ Len(blows) \in Nat
  /\ \A i \in 1 .. Len(blows) : blows[i].kills \in BOOLEAN /\ blows[i].on # p

(* What p does goes on, and its timer is the only one.                     *)
Unhurt(w, u, f, p) ==
  /\ \A x \in Ids(w.actions) :
       Action(w, x).owner = p => x \in Ids(u.actions) /\ Action(u, x) = Action(w, x)
  /\ \A o : IsComing(u, f, "advance", o) => IsComing(w, f, "advance", o)

LEMMA AlivePlayersAndMonsters ==
  ASSUME NEW w \in WorldState, Uncrowded(w)
  PROVE  /\ AliveNpcs(w) \subseteq Npc /\ Dying(w) \subseteq Npc /\ DOMAIN w.npcs \subseteq Npc
         /\ FreshNpc(w) \notin DOMAIN w.npcs
<1>1. Len(w.npcs) \in Nat /\ DOMAIN w.npcs = 1 .. Len(w.npcs)
  BY NpcsOf
<1>2. Len(w.npcs) <= MaxNpc /\ MaxNpc \in Nat
  <2>1. IsFiniteSet(Ids(w.spawns)) /\ Cardinality(Ids(w.spawns)) \in Nat
    BY WorldParts, IdsFinite
  <2>2. MaxNpc \in Nat
    BY SimAssumption DEF SimAssumption
  <2> QED
    BY <1>1, <2>1, <2>2 DEF Uncrowded
<1>3. DOMAIN w.npcs \subseteq Npc
  BY <1>1, <1>2 DEF Npc
<1>4. FreshNpc(w) \notin DOMAIN w.npcs
  BY <1>1 DEF FreshNpc
<1> QED
  BY <1>3, <1>4 DEF AliveNpcs, Dying

LEMMA HitOwing ==
  ASSUME NEW w, NEW f, NEW some, Owing(w, f, some), NEW blow, blow.kills \in BOOLEAN
  PROVE  LET u == Hit(w, blow)
         IN  Owing(u, f, some) /\ Spares(w, u, f, blow.on)
<1> DEFINE u == Hit(w, blow)
           room == FreshNpc(w) + Cardinality(Ids(w.spawns)) <= MaxNpc
<1>1. Spares(w, w, f, blow.on)
  BY DEF Spares
<1>2. CASE blow.on \in AlivePlayers(w)
  <2>1. blow.on \in Player
    BY <1>2 DEF AlivePlayers
  <2>2. u = HurtPlayer(w, blow.on, blow.kills)
    BY <1>2 DEF Hit
  <2> HIDE DEF u
  <2>3. Owing(u, f, some) /\ Spares(w, u, f, blow.on)
    BY <2>1, <2>2, HurtPlayerOwing
  <2> QED
    BY <2>3 DEF u
<1>3. CASE blow.on \notin AlivePlayers(w) /\ blow.kills /\ blow.on \in AliveNpcs(w) /\ room
  <2>1. CanDie(w, blow.on)
    BY <1>3 DEF CanDie
  <2>2. u = Killed(w, blow.on)
    BY <1>3 DEF Hit
  <2> HIDE DEF u
  <2>3. Owing(u, f, some) /\ Spares(w, u, f, blow.on)
    BY <2>1, <2>2, KilledOwing
  <2> QED
    BY <2>3 DEF u
<1>4. CASE blow.on \notin AlivePlayers(w) /\ ~(blow.kills /\ blow.on \in AliveNpcs(w) /\ room)
  <2>1. u = w
    BY <1>4 DEF Hit
  <2> QED
    BY <1>1, <2>1
<1> QED
  BY <1>2, <1>3, <1>4

(* The worlds a line of hits passes through.                               *)
LineOf(w, blows, N, line) ==
  line = [n \in 0 .. N |-> IF n = 0 THEN w ELSE Hit(line[n - 1], blows[n])]

LEMMA LineLonger ==
  ASSUME NEW w, NEW blows, NEW N \in Nat, N # 0, NEW g, LineOf(w, blows, N - 1, g)
  PROVE  \E h : LineOf(w, blows, N, h)
<1> DEFINE h == [k \in 0 .. N |-> IF k = N THEN Hit(g[N - 1], blows[N]) ELSE g[k]]
<1>1. \A k \in 0 .. N - 1 : g[k] = IF k = 0 THEN w ELSE Hit(g[k - 1], blows[k])
  BY DEF LineOf
<1>2. \A k \in 0 .. N : k = N \/ k \in 0 .. N - 1
  OBVIOUS
<1>3. ASSUME NEW k \in 0 .. N
      PROVE  h[k] = IF k = 0 THEN w ELSE Hit(h[k - 1], blows[k])
  <2>1. CASE k = N
    <3>1. h[k - 1] = g[k - 1] /\ k # 0
      BY <2>1
    <3> QED
      BY <2>1, <3>1
  <2>2. CASE k # N /\ k = 0
    BY <1>1, <1>2, <2>2
  <2>3. CASE k # N /\ k # 0
    <3>1. k \in 0 .. N - 1 /\ k - 1 \in 0 .. N /\ k - 1 # N
      BY <2>3
    <3>2. h[k] = g[k] /\ h[k - 1] = g[k - 1]
      BY <2>3, <3>1
    <3> HIDE DEF h
    <3> QED
      BY <1>1, <2>3, <3>1, <3>2
  <2> QED
    BY <2>1, <2>2, <2>3
<1>4. h = [k \in 0 .. N |-> h[k]]
  OBVIOUS
<1> HIDE DEF h
<1>5. LineOf(w, blows, N, h)
  BY <1>3, <1>4 DEF LineOf
<1> QED
  BY <1>5

LEMMA SomeLine ==
  ASSUME NEW w, NEW blows, NEW N \in Nat
  PROVE  \E g : LineOf(w, blows, N, g)
<1> DEFINE T == {n \in Nat : ~\E g : LineOf(w, blows, n, g)}
<1>1. ASSUME T # {} PROVE FALSE
  <2>1. T \in SUBSET Nat
    OBVIOUS
  <2> HIDE DEF T
  <2>2. PICK x \in T : \A y \in T : x <= y
    BY <1>1, <2>1, LeastNumber
  <2>3. x \in Nat /\ ~\E g : LineOf(w, blows, x, g)
    BY <2>2 DEF T
  <2>4. CASE x = 0
    <3>1. LineOf(w, blows, 0, [k \in 0 .. 0 |-> w])
      BY DEF LineOf
    <3> QED
      BY <2>3, <2>4, <3>1
  <2>5. CASE x # 0
    <3>1. x - 1 \in Nat /\ ~(x <= x - 1)
      BY <2>3, <2>5
    <3>2. x - 1 \notin T
      BY <2>2, <3>1
    <3>3. PICK g : LineOf(w, blows, x - 1, g)
      BY <3>1, <3>2 DEF T
    <3> QED
      BY <2>3, <2>5, <3>3, LineLonger
  <2> QED
    BY <2>4, <2>5
<1> QED
  BY <1>1

LEMMA StruckLine ==
  ASSUME NEW w, NEW blows, Len(blows) \in Nat
  PROVE  \E line : LineOf(w, blows, Len(blows), line) /\ Struck(w, blows) = line[Len(blows)]
<1> DEFINE line == CHOOSE g : LineOf(w, blows, Len(blows), g)
<1>1. LineOf(w, blows, Len(blows), line)
  BY SomeLine
<1>2. Struck(w, blows) = line[Len(blows)]
  BY DEF Struck, LineOf
<1> QED
  BY <1>1, <1>2

(* The hits of a line leave what is owed as it was, and spare whom they do *)
(* not name.                                                               *)
LEMMA StruckOwing ==
  ASSUME NEW w, NEW f, NEW some, Owing(w, f, some), NEW p, NEW blows, Sparing(blows, p)
  PROVE  LET u == Struck(w, blows)
         IN  Owing(u, f, some) /\ Unhurt(w, u, f, p)
<1>1. Len(blows) \in Nat
  BY DEF Sparing
<1>2. PICK line : LineOf(w, blows, Len(blows), line) /\ Struck(w, blows) = line[Len(blows)]
  BY <1>1, StruckLine
<1> DEFINE Good(n) == Owing(line[n], f, some) /\ Unhurt(w, line[n], f, p)
           T == {n \in 0 .. Len(blows) : ~Good(n)}
<1>3. \A n \in 0 .. Len(blows) : line[n] = IF n = 0 THEN w ELSE Hit(line[n - 1], blows[n])
  BY <1>2 DEF LineOf
<1>4. ASSUME T # {} PROVE FALSE
  <2>1. T \in SUBSET Nat
    OBVIOUS
  <2> HIDE DEF T
  <2>2. PICK x \in T : \A y \in T : x <= y
    BY <1>4, <2>1, LeastNumber
  <2>3. x \in 0 .. Len(blows) /\ ~Good(x)
    BY <2>2 DEF T
  <2>4. CASE x = 0
    <3>1. line[x] = w
      BY <1>3, <2>3, <2>4
    <3>2. Unhurt(w, w, f, p)
      BY DEF Unhurt
    <3> QED
      BY <2>3, <3>1, <3>2
  <2>5. CASE x # 0
    <3>1. x - 1 \in 0 .. Len(blows) /\ x \in 1 .. Len(blows) /\ ~(x <= x - 1)
      BY <1>1, <2>3, <2>5
    <3>2. x - 1 \notin T
      BY <2>2, <3>1
    <3>3. Good(x - 1)
      BY <3>1, <3>2 DEF T
    <3> DEFINE v == line[x - 1]
               blow == blows[x]
    <3>4. line[x] = Hit(v, blow)
      BY <1>3, <2>3, <2>5
    <3>5. blow.kills \in BOOLEAN /\ blow.on # p
      BY <3>1 DEF Sparing
    <3>6. Owing(v, f, some) /\ Unhurt(w, v, f, p)
      BY <3>3
    <3> HIDE DEF v, blow
    <3>7. Owing(line[x], f, some) /\ Spares(v, line[x], f, blow.on)
      BY <3>4, <3>5, <3>6, HitOwing
    <3>8. Unhurt(w, line[x], f, p)
      BY <3>5, <3>6, <3>7 DEF Unhurt, Spares
    <3> QED
      BY <2>3, <3>7, <3>8
  <2> QED
    BY <2>4, <2>5
<1>5. Len(blows) \in 0 .. Len(blows)
  BY <1>1
<1>6. Good(Len(blows))
  BY <1>4, <1>5
<1> QED
  BY <1>2, <1>6

LEMMA VolleyHits ==
  ASSUME NEW S, IsFiniteSet(S), NEW blows \in Volleys(S)
  PROVE  /\ Len(blows) \in Nat
         /\ \A i \in 1 .. Len(blows) : blows[i].on \in S /\ blows[i].kills \in BOOLEAN
<1>1. Cardinality(S) \in Nat
  BY FS_CardinalityType
<1>2. PICK n \in 0 .. Cardinality(S) : blows \in [1 .. n -> [on : S, kills : BOOLEAN]]
  BY DEF Volleys
<1>3. n \in Nat
  BY <1>1, <1>2
<1>4. blows \in Seq([on : S, kills : BOOLEAN])
  <2> DEFINE E == [on : S, kills : BOOLEAN]
  <2>1. blows \in [1 .. n -> E] /\ n \in Nat
    BY <1>2, <1>3
  <2> HIDE DEF E
  <2>2. blows \in Seq(E)
    BY <2>1
  <2> QED
    BY <2>2 DEF E
<1>5. Len(blows) \in Nat /\ DOMAIN blows = 1 .. Len(blows) /\ DOMAIN blows = 1 .. n
  BY <1>2, <1>4
<1>6. ASSUME NEW i \in 1 .. Len(blows)
      PROVE  blows[i].on \in S /\ blows[i].kills \in BOOLEAN
  <2>1. blows[i] \in [on : S, kills : BOOLEAN]
    BY <1>2, <1>5
  <2> QED
    BY <2>1
<1> QED
  BY <1>5, <1>6

(* An ability of a player hits others.                                     *)
LEMMA BlowsSpare ==
  ASSUME NEW w \in WorldState, Uncrowded(w), NEW p \in Player, NEW a, NEW blows \in Blows(w, p, a)
  PROVE  Sparing(blows, p)
<1> DEFINE S == IF Timing[a].dash THEN {} ELSE (AlivePlayers(w) \ {p}) \cup AliveNpcs(w)
<1>1. AliveNpcs(w) \subseteq Npc
  BY AlivePlayersAndMonsters
<1>2. p \notin S
  BY <1>1, Entities
<1>3. IsFiniteSet(S)
  <2>1. IsFiniteSet(Player)
    BY SimAssumption DEF SimAssumption
  <2>2. IsFiniteSet(AlivePlayers(w) \ {p})
    BY <2>1, FS_Subset DEF AlivePlayers
  <2>3. IsFiniteSet(1 .. MaxNpc)
    BY SimAssumption, FS_Interval DEF SimAssumption
  <2>4. IsFiniteSet(AliveNpcs(w))
    BY <1>1, <2>3, FS_Subset DEF Npc
  <2>5. IsFiniteSet((AlivePlayers(w) \ {p}) \cup AliveNpcs(w))
    BY <2>2, <2>4, FS_Union
  <2>6. IsFiniteSet({})
    BY FS_EmptySet
  <2> QED
    BY <2>5, <2>6
<1>4. blows \in Volleys(S)
  BY DEF Blows
<1> HIDE DEF S
<1>5. /\ Len(blows) \in Nat
      /\ \A i \in 1 .. Len(blows) : blows[i].on \in S /\ blows[i].kills \in BOOLEAN
  BY <1>3, <1>4, VolleyHits
<1> QED
  BY <1>2, <1>5 DEF Sparing

LEMMA Ticks ==
  ASSUME NEW a \in Ability
  PROVE  /\ Timing[a].windup \in Nat /\ Timing[a].active \in Nat /\ Timing[a].recovery \in Nat
         /\ Timing[a].cooldown \in Nat
<1>1. Timing \in [Ability -> [windup : Nat, active : Nat, recovery : Nat,
                              cooldown : Nat, dash : BOOLEAN]]
  BY SimAssumption DEF SimAssumption
<1> QED
  BY <1>1

LEMMA ActivatedOwing ==
  ASSUME NEW w, NEW f, NEW id \in Ids(w.actions), Owing(w, f, {id}),
         ~IsComing(w, f, "advance", id), NEW blows, Sparing(blows, Action(w, id).owner)
  PROVE  Owing(Activated(w, id, blows), f, {})
<1> DEFINE v == SetPhase(w, id, "active")
           struck == Struck(v, blows)
           ticks == Timing[Action(w, id).ability].active
           u == Activated(w, id, blows)
<1>1. u = IF ticks = 0 THEN Recover(struck, id) ELSE Advance(struck, id, ticks)
  BY DEF Activated
<1> HIDE DEF u
<1>2. w \in WorldState /\ Tables(w)
  BY BaseParts DEF Owing
<1>3. ticks \in Nat
  BY <1>2, ActionsOf, ActionFields, Ticks
<1>4. "active" \in Phase
  BY DEF Phase
<1>5. Owing(v, f, {id})
  BY <1>4, SetPhaseOwing
<1>6. /\ Ids(v.actions) = Ids(w.actions) /\ v.jobs = w.jobs /\ v.spawns = w.spawns
      /\ v.npcs = w.npcs /\ Action(v, id).owner = Action(w, id).owner
  BY <1>2, <1>4, SetPhaseFacts
<1> HIDE DEF v, ticks
<1>8. ~IsComing(v, f, "advance", id)
  BY <1>6, SameTimers
<1>9. Owing(struck, f, {id}) /\ Unhurt(v, struck, f, Action(w, id).owner)
  BY <1>5, StruckOwing
<1> HIDE DEF struck
<1>10. id \in Ids(struck.actions) /\ ~IsComing(struck, f, "advance", id)
  BY <1>6, <1>8, <1>9 DEF Unhurt
<1>11. CASE ticks = 0
  <2>1. Owing(Recover(struck, id), f, {})
    BY <1>9, <1>10, RecoverOwing
  <2> QED
    BY <1>1, <1>11, <2>1 DEF u
<1>12. CASE ticks # 0
  <2>1. ticks \in Int
    BY <1>3
  <2>2. Owing(Advance(struck, id, ticks), f, {})
    BY <1>9, <1>10, <2>1, AdvanceOwing
  <2> QED
    BY <1>1, <1>12, <2>2 DEF u
<1> QED
  BY <1>11, <1>12

LEMMA PhaseDueOwing ==
  ASSUME NEW w, NEW f, NEW id \in Ids(w.actions), Owing(w, f, {id}),
         ~IsComing(w, f, "advance", id), NEW blows,
         Action(w, id).phase = "windup" => Sparing(blows, Action(w, id).owner)
  PROVE  Owing(PhaseDue(w, id, blows), f, {})
<1>1. w \in WorldState /\ Tables(w)
  BY BaseParts DEF Owing
<1>2. Action(w, id).phase \in Phase
  BY <1>1, ActionsOf, ActionFields
<1>3. CASE Action(w, id).phase = "windup"
  <2>1. PhaseDue(w, id, blows) = Activated(w, id, blows)
    BY <1>3 DEF PhaseDue
  <2>2. Owing(Activated(w, id, blows), f, {})
    BY <1>3, ActivatedOwing
  <2> QED
    BY <2>1, <2>2
<1>4. CASE Action(w, id).phase = "active"
  <2>1. PhaseDue(w, id, blows) = Recover(w, id)
    BY <1>4 DEF PhaseDue
  <2>2. Owing(Recover(w, id), f, {})
    BY RecoverOwing
  <2> QED
    BY <2>1, <2>2
<1>5. CASE Action(w, id).phase = "recovery"
  <2>1. PhaseDue(w, id, blows) = EndActions(w, {id})
    BY <1>5 DEF PhaseDue
  <2>2. Owing(EndActions(w, {id}), f, {})
    BY EndActionsOwing
  <2> QED
    BY <2>1, <2>2
<1> QED
  BY <1>2, <1>3, <1>4, <1>5 DEF Phase

(* An ability begins: its action has a new identity and no timer yet.       *)
Begun(w, p, a, at) ==
  [w EXCEPT !.actions = Put(@, [owner |-> p, ability |-> a, phase |-> at]),
            !.holds[p] = NextId(w.actions), !.cooling[p][a] = Timing[a].cooldown,
            !.starts = @ + 1]

LEMMA BegunOwing ==
  ASSUME NEW w, NEW f, Owing(w, f, {}), NEW p \in Player, NEW a \in Ability,
         NEW at \in Phase, w.starts < MaxStarts, w.body[p] = "alive", ActiveOf(w, p) = {}
  PROVE  LET u == Begun(w, p, a, at)  id == NextId(w.actions)
         IN  /\ Owing(u, f, {id}) /\ id \in Ids(u.actions) /\ Action(u, id).owner = p
             /\ ~IsComing(u, f, "advance", id) /\ u.npcs = w.npcs /\ u.spawns = w.spawns
<1> DEFINE u == Begun(w, p, a, at)
           id == NextId(w.actions)
           item == [owner |-> p, ability |-> a, phase |-> at]
           t == Put(w.actions, item)
           holds == [w.holds EXCEPT ![p] = id]
           cooling == [w.cooling EXCEPT ![p][a] = Timing[a].cooldown]
           starts == w.starts + 1
<1>1. Base(w, f) /\ Timed(w, f, Ids(w.actions) \ {}) /\ Rest(w, f)
  BY DEF Owing
<1>2. /\ w \in WorldState /\ f \in Seq(JobSet) /\ Tables(w) /\ AllRight(w, f)
      /\ Acting(w) /\ Uncrowded(w)
      /\ \A x \in Timers(w) : InWorld(w, JobOf(w, x).owner)
  BY <1>1, BaseParts
<1>3. /\ w.actions \in TableOf(ActionSet) /\ w.holds \in [Player -> Id \cup {Nothing}]
      /\ w.cooling \in [Player -> [Ability -> Nat]] /\ w.starts \in 0 .. MaxStarts
  BY <1>2, WorldParts
<1>4. Sound(w.actions)
  BY <1>2 DEF Tables
<1>5. item \in ActionSet
  BY DEF ActionSet
<1>6. item # Nothing
  BY <1>5, NotNothing
<1>7. item.owner = p
  OBVIOUS
<1>8. u = [w EXCEPT !.actions = t, !.holds = holds, !.cooling = cooling, !.starts = starts]
  BY DEF Begun
<1>9. cooling \in [Player -> [Ability -> Nat]]
  BY <1>3, Ticks
<1>10. starts \in 0 .. MaxStarts
  <2>1. MaxStarts \in Nat
    BY SimAssumption DEF SimAssumption
  <2> QED
    BY <1>3, <2>1
<1> HIDE DEF item, cooling, starts
<1>11. /\ t \in TableOf(ActionSet) /\ Sound(t) /\ id \in Id /\ id \notin Ids(w.actions)
       /\ ~Given(w.actions, id)
       /\ Ids(t) = Ids(w.actions) \cup {id} /\ Item(t, id) = item
       /\ \A x \in Ids(w.actions) : Item(t, x) = Item(w.actions, x)
       /\ \A x \in Id : Given(w.actions, x) => Given(t, x)
  BY <1>3, <1>4, <1>5, <1>6, PutFacts
<1> HIDE DEF t, id
<1>12. /\ holds \in [Player -> Id \cup {Nothing}]
       /\ \A q \in Player : holds[q] = IF q = p THEN id ELSE w.holds[q]
  BY <1>3, <1>11
<1> HIDE DEF holds, u
<1>13. /\ u \in WorldState /\ u.actions = t /\ u.holds = holds
       /\ u.jobs = w.jobs /\ u.owned = w.owned /\ u.spawns = w.spawns
       /\ u.body = w.body /\ u.npcs = w.npcs /\ u.refused = w.refused
  BY <1>2, <1>8, <1>9, <1>10, <1>11, <1>12 DEF WorldState
<1>14. Tables(u)
  BY <1>2, <1>11, <1>13 DEF Tables
<1>15. Follows(w, u)
  BY <1>11, <1>13 DEF Follows, Action
<1>16. \A x \in Timers(w) : InWorld(u, JobOf(w, x).owner)
  BY <1>2, <1>13, InWorldSame
<1>17. w.holds[p] = Nothing
  BY <1>2 DEF Acting, ActiveOf
<1>18. Acting(u)
  <2>1. ASSUME NEW x \in Ids(w.actions)
        PROVE  /\ Action(u, x) = Action(w, x) /\ Action(w, x).owner \in Player
               /\ Action(w, x).owner # p
    <3>1. Action(u, x) = Action(w, x)
      BY <1>11, <1>13 DEF Action
    <3>2. Action(w, x).owner \in Player /\ x # Nothing
      BY <1>2, ActionsOf, ActionFields, IdParts
    <3>3. w.holds[Action(w, x).owner] = x
      BY <1>2 DEF Acting
    <3> QED
      BY <1>17, <3>1, <3>2, <3>3
  <2>2. Action(u, id).owner = p
    BY <1>7, <1>11, <1>13 DEF Action
  <2>3. ASSUME NEW x \in Ids(u.actions)
        PROVE  u.holds[Action(u, x).owner] = x /\ u.body[Action(u, x).owner] = "alive"
    <3>1. CASE x = id
      BY <1>12, <1>13, <2>2, <3>1
    <3>2. CASE x \in Ids(w.actions)
      BY <1>2, <1>12, <1>13, <2>1, <3>2 DEF Acting
    <3> QED
      BY <1>11, <1>13, <3>1, <3>2
  <2>4. ASSUME NEW q \in Player, u.holds[q] # Nothing
        PROVE  u.holds[q] \in Ids(u.actions) /\ Action(u, u.holds[q]).owner = q
    <3>1. CASE q = p
      BY <1>11, <1>12, <1>13, <2>2, <3>1
    <3>2. CASE q # p
      BY <1>2, <1>11, <1>12, <1>13, <2>1, <2>4, <3>2 DEF Acting
    <3> QED
      BY <3>1, <3>2
  <2> QED
    BY <2>3, <2>4 DEF Acting
<1>19. Uncrowded(u)
  BY <1>2, <1>13 DEF Uncrowded
<1>20. Base(u, f)
  BY <1>1, <1>13, <1>14, <1>15, <1>16, <1>18, <1>19, BaseSameJobs
<1>21. \A k, o : IsComing(u, f, k, o) <=> IsComing(w, f, k, o)
  BY <1>13, SameTimers
<1>22. ~IsComing(w, f, "advance", id)
  <2>1. ASSUME NEW x \in Timers(w), JobOf(w, x).kind = "advance" PROVE JobOf(w, x).of # id
    BY <1>2, <1>11, <2>1 DEF AllRight, Right
  <2>2. ASSUME NEW i \in DOMAIN f, f[i].kind = "advance" PROVE f[i].of # id
    BY <1>2, <1>11, <2>2 DEF AllRight, Right
  <2> QED
    BY <2>1, <2>2 DEF IsComing
<1>23. Timed(u, f, Ids(u.actions) \ {id})
  BY <1>1, <1>11, <1>13, <1>21 DEF Timed
<1>24. Rest(u, f)
  BY <1>1, <1>13, RestSame
<1>25. Owing(u, f, {id})
  BY <1>20, <1>23, <1>24 DEF Owing
<1>26. id \in Ids(u.actions) /\ Action(u, id).owner = p
  BY <1>7, <1>11, <1>13 DEF Action
<1> QED
  BY <1>13, <1>21, <1>22, <1>25, <1>26 DEF u, id

-----------------------------------------------------------------------------
(***************************************************************************)
(* Those who come and go                                                   *)
(***************************************************************************)

(* Who owns a job of which kind.                                           *)
LEMMA OwnersOfKinds ==
  ASSUME NEW w, NEW f, Base(w, f), NEW x \in Timers(w)
  PROVE  /\ JobOf(w, x).kind \in Kind
         /\ JobOf(w, x).kind = "advance" => JobOf(w, x).owner \in Player
         /\ JobOf(w, x).kind = "advance" /\ JobOf(w, x).of \in Ids(w.actions) =>
              JobOf(w, x).owner = Action(w, JobOf(w, x).of).owner
         /\ JobOf(w, x).kind = "spawn" => JobOf(w, x).owner = World
         /\ JobOf(w, x).kind = "despawn" =>
              JobOf(w, x).owner = JobOf(w, x).of /\ JobOf(w, x).of \in Npc
<1>1. w \in WorldState /\ Tables(w) /\ AllRight(w, f) /\ Uncrowded(w)
  BY BaseParts
<1>2. JobOf(w, x).kind \in Kind
  BY <1>1, TimersOf, JobFields
<1>3. Right(w, JobOf(w, x))
  BY <1>1 DEF AllRight
<1>4. DOMAIN w.npcs \subseteq Npc
  BY <1>1, AlivePlayersAndMonsters
<1>5. JobOf(w, x).kind = "advance" =>
        /\ JobOf(w, x).owner \in Player
        /\ JobOf(w, x).of \in Ids(w.actions) =>
             JobOf(w, x).owner = Action(w, JobOf(w, x).of).owner
  BY <1>3 DEF Right
<1>6. JobOf(w, x).kind = "spawn" => JobOf(w, x).owner = World
  BY <1>3 DEF Right
<1>7. JobOf(w, x).kind = "despawn" =>
        JobOf(w, x).owner = JobOf(w, x).of /\ JobOf(w, x).of \in Npc
  BY <1>3, <1>4 DEF Right
<1> QED
  BY <1>2, <1>5, <1>6, <1>7

(* Of a player's timers only that of its own action is missed.             *)
LEMMA CancelOwnerOwing ==
  ASSUME NEW w, NEW f, Owing(w, f, {}), NEW p \in Player
  PROVE  Owing(CancelOwner(w, p), f, {w.holds[p]})
<1> DEFINE u == CancelOwner(w, p)
<1>1. Base(w, f) /\ Timed(w, f, Ids(w.actions) \ {}) /\ Rest(w, f)
  BY DEF Owing
<1>2. w \in WorldState /\ Tables(w) /\ Acting(w)
  BY <1>1, BaseParts
<1>3. p \in Entity /\ p # World /\ p \notin Npc
  BY Entities DEF Entity
<1>4. /\ Base(u, f)
      /\ Timers(u) = {x \in Timers(w) : JobOf(w, x).owner # p}
      /\ \A x \in Timers(u) : JobOf(u, x) = JobOf(w, x)
      /\ u.actions = w.actions /\ u.holds = w.holds /\ u.spawns = w.spawns
      /\ u.body = w.body /\ u.npcs = w.npcs /\ u.cooling = w.cooling
      /\ u.starts = w.starts /\ u.refused = w.refused
  BY <1>1, <1>3, CancelOwnerFacts
<1> HIDE DEF u
<1>5. Fewer(w, u)
  BY <1>4 DEF Fewer
<1>6. ASSUME NEW k, NEW o, IsComing(w, f, k, o),
             \A x \in Timers(w) :
               JobOf(w, x).kind = k /\ JobOf(w, x).of = o => JobOf(w, x).owner # p
      PROVE  IsComing(u, f, k, o)
  <2>1. CASE \E x \in Timers(w) : JobOf(w, x).kind = k /\ JobOf(w, x).of = o
    <3>1. PICK x \in Timers(w) : JobOf(w, x).kind = k /\ JobOf(w, x).of = o
      BY <2>1
    <3>2. x \in Timers(u) /\ JobOf(u, x) = JobOf(w, x)
      BY <1>4, <1>6, <3>1
    <3> QED
      BY <3>1, <3>2 DEF IsComing
  <2>2. CASE \E i \in DOMAIN f : f[i].kind = k /\ f[i].of = o
    BY <2>2 DEF IsComing
  <2> QED
    BY <1>6, <2>1, <2>2 DEF IsComing
<1>7. ASSUME NEW o, IsComing(w, f, "spawn", o) PROVE IsComing(u, f, "spawn", o)
  <2>1. \A x \in Timers(w) : JobOf(w, x).kind = "spawn" => JobOf(w, x).owner # p
    BY <1>1, <1>3, OwnersOfKinds
  <2> QED
    BY <1>6, <1>7, <2>1
<1>8. ASSUME NEW o, IsComing(w, f, "despawn", o) PROVE IsComing(u, f, "despawn", o)
  <2>1. \A x \in Timers(w) : JobOf(w, x).kind = "despawn" => JobOf(w, x).owner # p
    BY <1>1, <1>3, OwnersOfKinds
  <2> QED
    BY <1>6, <1>8, <2>1
<1>9. \A n, a : CorpseFirst(w, f, n, a) => CorpseFirst(u, f, n, a)
  BY <1>5, FewerCorpseFirst
<1>10. Rest(u, f)
  BY <1>1, <1>4, <1>7, <1>8, <1>9, RestStays
<1>11. ASSUME NEW id \in Ids(u.actions) \ {w.holds[p]}
       PROVE  u.refused \/ IsComing(u, f, "advance", id)
  <2>1. id \in Ids(w.actions) /\ id # w.holds[p]
    BY <1>4
  <2>2. w.refused \/ IsComing(w, f, "advance", id)
    BY <1>1, <2>1 DEF Timed
  <2>3. Action(w, id).owner # p
    BY <1>2, <2>1 DEF Acting
  <2>4. \A x \in Timers(w) :
          JobOf(w, x).kind = "advance" /\ JobOf(w, x).of = id => JobOf(w, x).owner # p
    BY <1>1, <2>1, <2>3, OwnersOfKinds
  <2> QED
    BY <1>4, <1>6, <2>2, <2>4
<1>12. Timed(u, f, Ids(u.actions) \ {w.holds[p]})
  BY <1>11 DEF Timed
<1> QED
  BY <1>4, <1>10, <1>12 DEF Owing, u

LEMMA CleanupOwing ==
  ASSUME NEW w, NEW f, Owing(w, f, {}), NEW p \in Player
  PROVE  LET u == Cleanup(w, p)
         IN  /\ Owing(u, f, {}) /\ u.holds[p] = Nothing /\ u.body = w.body
             /\ \A x \in Timers(u) : JobOf(u, x).owner # p
<1> DEFINE v == CancelOwner(w, p)
           u == Cleanup(w, p)
<1>1. Base(w, f)
  BY DEF Owing
<1>2. p \in Entity
  BY DEF Entity
<1>3. /\ Base(v, f)
      /\ Timers(v) = {x \in Timers(w) : JobOf(w, x).owner # p}
      /\ \A x \in Timers(v) : JobOf(v, x) = JobOf(w, x)
      /\ v.actions = w.actions /\ v.holds = w.holds /\ v.spawns = w.spawns
      /\ v.body = w.body /\ v.npcs = w.npcs /\ v.cooling = w.cooling
      /\ v.starts = w.starts /\ v.refused = w.refused
  BY <1>1, <1>2, CancelOwnerFacts
<1>4. Owing(v, f, {w.holds[p]})
  BY CancelOwnerOwing
<1>5. u = Interrupted(v, {p})
  BY DEF Cleanup
<1> HIDE DEF v, u
<1>6. v \in WorldState /\ Tables(v) /\ Acting(v)
  BY <1>3, BaseParts
<1>7. /\ Interrupted(v, {p}) = EndActions(v, {v.holds[p]}) /\ Interrupted(v, {p}).holds[p] = Nothing
      /\ Interrupted(v, {p}).jobs = v.jobs /\ Interrupted(v, {p}).body = v.body
  BY <1>6, InterruptedFacts
<1>8. u = EndActions(v, {v.holds[p]}) /\ u.holds[p] = Nothing
      /\ u.jobs = v.jobs /\ u.body = v.body
  BY <1>5, <1>7
<1>9. Owing(u, f, {})
  <2> DEFINE one == {w.holds[p]}
  <2>1. Owing(v, f, one) /\ one \subseteq {} \cup one /\ u = EndActions(v, one)
    BY <1>3, <1>4, <1>8
  <2> HIDE DEF one
  <2> QED
    BY <2>1, EndActionsOwing
<1>10. \A x \in Timers(u) : JobOf(u, x).owner # p
  <2>1. Timers(u) = Timers(v) /\ \A x : JobOf(u, x) = JobOf(v, x)
    BY <1>8, SameTimers
  <2> QED
    BY <1>3, <2>1
<1> QED
  BY <1>3, <1>8, <1>9, <1>10 DEF u

(* The entity of a player comes, goes, dies or gets up.                     *)
LEMMA BodySet ==
  ASSUME NEW w \in WorldState, NEW p \in Player, NEW b \in {"alive", "dead", "out"}
  PROVE  LET u == [w EXCEPT !.body[p] = b]
         IN  /\ u \in WorldState /\ \A q \in Player : u.body[q] = IF q = p THEN b ELSE w.body[q]
             /\ u.jobs = w.jobs /\ u.owned = w.owned /\ u.actions = w.actions
             /\ u.holds = w.holds /\ u.spawns = w.spawns /\ u.npcs = w.npcs
             /\ u.refused = w.refused
<1> DEFINE u == [w EXCEPT !.body[p] = b]
           body == [w.body EXCEPT ![p] = b]
<1>1. w.body \in [Player -> {"alive", "dead", "out"}]
  BY WorldParts
<1>2. body \in [Player -> {"alive", "dead", "out"}]
      /\ \A q \in Player : body[q] = IF q = p THEN b ELSE w.body[q]
  BY <1>1
<1>3. u = [w EXCEPT !.body = body]
  OBVIOUS
<1> HIDE DEF body, u
<1>4. /\ u \in WorldState /\ u.body = body
      /\ u.jobs = w.jobs /\ u.owned = w.owned /\ u.actions = w.actions
      /\ u.holds = w.holds /\ u.spawns = w.spawns /\ u.npcs = w.npcs
      /\ u.refused = w.refused
  BY <1>2, <1>3 DEF WorldState
<1> QED
  BY <1>2, <1>4 DEF u

LEMMA RespawnOwing ==
  ASSUME NEW w, NEW f, Owing(w, f, {}), NEW p \in Player
  PROVE  Owing([Cleanup(w, p) EXCEPT !.body[p] = "alive"], f, {})
<1> DEFINE v == Cleanup(w, p)
           u == [v EXCEPT !.body[p] = "alive"]
<1>1. Owing(v, f, {}) /\ v.holds[p] = Nothing
  BY CleanupOwing
<1> HIDE DEF v
<1>2. v \in WorldState
  BY <1>1, BaseParts DEF Owing
<1>3. /\ u \in WorldState /\ \A q \in Player : u.body[q] = IF q = p THEN "alive" ELSE v.body[q]
      /\ u.jobs = v.jobs /\ u.owned = v.owned /\ u.actions = v.actions
      /\ u.holds = v.holds /\ u.spawns = v.spawns /\ u.npcs = v.npcs
      /\ u.refused = v.refused
  BY <1>2, BodySet
<1> HIDE DEF u
<1>4. "alive" = "out" => \A x \in Timers(v) : JobOf(v, x).owner # p
  OBVIOUS
<1>5. Owing(u, f, {})
  BY <1>1, <1>3, <1>4, BodyOwing
<1> QED
  BY <1>5 DEF u, v

LEMMA EnterOwing ==
  ASSUME NEW w, NEW f, Owing(w, f, {}), NEW p \in Player, w.body[p] = "out"
  PROVE  Owing([w EXCEPT !.body[p] = "alive"], f, {})
<1> DEFINE u == [w EXCEPT !.body[p] = "alive"]
<1>1. w \in WorldState /\ Acting(w)
  BY BaseParts DEF Owing
<1>2. w.holds[p] = Nothing
  BY <1>1 DEF Acting
<1>3. /\ u \in WorldState /\ \A q \in Player : u.body[q] = IF q = p THEN "alive" ELSE w.body[q]
      /\ u.jobs = w.jobs /\ u.owned = w.owned /\ u.actions = w.actions
      /\ u.holds = w.holds /\ u.spawns = w.spawns /\ u.npcs = w.npcs
      /\ u.refused = w.refused
  BY <1>1, BodySet
<1> HIDE DEF u
<1>4. "alive" = "out" => \A x \in Timers(w) : JobOf(w, x).owner # p
  OBVIOUS
<1>5. Owing(u, f, {})
  BY <1>2, <1>3, <1>4, BodyOwing
<1> QED
  BY <1>5 DEF u

LEMMA LeaveOwing ==
  ASSUME NEW w, NEW f, Owing(w, f, {}), NEW p \in Player
  PROVE  Owing([Ready(Cleanup(w, p), p) EXCEPT !.body[p] = "out"], f, {})
<1> DEFINE c == Cleanup(w, p)
           v == Ready(c, p)
           u == [v EXCEPT !.body[p] = "out"]
<1>1. Owing(c, f, {}) /\ c.holds[p] = Nothing /\ \A x \in Timers(c) : JobOf(c, x).owner # p
  BY CleanupOwing
<1> HIDE DEF c
<1>2. c \in WorldState
  BY <1>1, BaseParts DEF Owing
<1>3. /\ v \in WorldState /\ v.jobs = c.jobs /\ v.owned = c.owned /\ v.actions = c.actions
      /\ v.holds = c.holds /\ v.spawns = c.spawns /\ v.npcs = c.npcs
      /\ v.refused = c.refused /\ v.body = c.body
  <2> DEFINE cooling == [c.cooling EXCEPT ![p] = [a \in Ability |-> 0]]
  <2>1. c.cooling \in [Player -> [Ability -> Nat]]
    BY <1>2, WorldParts
  <2>2. cooling \in [Player -> [Ability -> Nat]]
    BY <2>1
  <2>3. v = [c EXCEPT !.cooling = cooling]
    BY DEF Ready
  <2> HIDE DEF cooling, v
  <2> QED
    BY <1>2, <2>2, <2>3 DEF WorldState
<1> HIDE DEF v
<1>4. /\ u \in WorldState /\ \A q \in Player : u.body[q] = IF q = p THEN "out" ELSE v.body[q]
      /\ u.jobs = v.jobs /\ u.owned = v.owned /\ u.actions = v.actions
      /\ u.holds = v.holds /\ u.spawns = v.spawns /\ u.npcs = v.npcs
      /\ u.refused = v.refused
  BY <1>3, BodySet
<1> HIDE DEF u
<1>5. "out" = "out" => \A x \in Timers(c) : JobOf(c, x).owner # p
  BY <1>1
<1>6. /\ \A q \in Player : u.body[q] = IF q = p THEN "out" ELSE c.body[q]
      /\ u.jobs = c.jobs /\ u.owned = c.owned /\ u.actions = c.actions
      /\ u.holds = c.holds /\ u.spawns = c.spawns /\ u.npcs = c.npcs
      /\ u.refused = c.refused
  BY <1>3, <1>4
<1>7. Owing(u, f, {})
  BY <1>1, <1>4, <1>5, <1>6, BodyOwing
<1> QED
  BY <1>7 DEF u, v, c

-----------------------------------------------------------------------------
(***************************************************************************)
(* Replacements and corpses                                                *)
(***************************************************************************)

(* What the first of the drained jobs leaves owing.                        *)
LEMMA TailOwing ==
  ASSUME NEW w, NEW f, Owing(w, f, {}), f # <<>>
  PROVE  LET g == Tail(f)  j == Head(f)
         IN  /\ Base(w, g) /\ j \in JobSet /\ Right(w, j) /\ ~IsComing(w, g, j.kind, j.of)
             /\ \A o : IsComing(w, f, "advance", o) /\ ~(j.kind = "advance" /\ o = j.of) =>
                  IsComing(w, g, "advance", o)
             /\ \A o : IsComing(w, f, "spawn", o) /\ ~(j.kind = "spawn" /\ o = j.of) =>
                  IsComing(w, g, "spawn", o)
             /\ \A o : IsComing(w, f, "despawn", o) /\ ~(j.kind = "despawn" /\ o = j.of) =>
                  IsComing(w, g, "despawn", o)
             /\ \A n, a : CorpseFirst(w, f, n, a) => CorpseFirst(w, g, n, a)
             /\ Populated(w, g)
             /\ Timed(w, f, Ids(w.actions)) /\ Asked(w, f, Ids(w.spawns))
             /\ Corpses(w, f, Dying(w)) /\ Populated(w, f)
<1> DEFINE g == Tail(f)
           j == Head(f)
<1>1. Base(w, f) /\ Timed(w, f, Ids(w.actions) \ {}) /\ Rest(w, f)
  BY DEF Owing
<1>2. /\ Base(w, g) /\ j \in JobSet /\ Right(w, j) /\ ~IsComing(w, g, j.kind, j.of)
      /\ \A k, o : IsComing(w, f, k, o) =>
           IsComing(w, g, k, o) \/ (k = j.kind /\ o = j.of)
      /\ \A n, a : CorpseFirst(w, f, n, a) => CorpseFirst(w, g, n, a)
      /\ \A i \in DOMAIN g : \E k \in DOMAIN f : g[i] = f[k]
  <2>1. Base(w, f) /\ Split(f, j, g)
    BY <1>1 DEF Split
  <2> HIDE DEF g, j
  <2> QED
    BY <2>1, TailBase
<1> HIDE DEF g, j
<1>3. Populated(w, g)
  BY <1>1, <1>2 DEF Rest, Populated
<1>4. Timed(w, f, Ids(w.actions))
  BY <1>1 DEF Timed
<1> QED
  BY <1>1, <1>2, <1>3, <1>4 DEF Rest, g, j

(* An applied job that names a thing no longer there changes nothing.      *)
LEMMA StaleOwing ==
  ASSUME NEW w, NEW f, Owing(w, f, {}), f # <<>>,
         Head(f).kind = "advance" => Head(f).of \notin Ids(w.actions),
         Head(f).kind = "spawn" => Head(f).of \notin Ids(w.spawns),
         Head(f).kind = "despawn" => Head(f).of \notin Dying(w)
  PROVE  Owing(w, Tail(f), {})
<1> DEFINE g == Tail(f)
           j == Head(f)
<1>1. /\ Base(w, g)
      /\ \A o : IsComing(w, f, "advance", o) /\ ~(j.kind = "advance" /\ o = j.of) =>
           IsComing(w, g, "advance", o)
      /\ \A o : IsComing(w, f, "spawn", o) /\ ~(j.kind = "spawn" /\ o = j.of) =>
           IsComing(w, g, "spawn", o)
      /\ \A o : IsComing(w, f, "despawn", o) /\ ~(j.kind = "despawn" /\ o = j.of) =>
           IsComing(w, g, "despawn", o)
      /\ Populated(w, g)
      /\ Timed(w, f, Ids(w.actions)) /\ Asked(w, f, Ids(w.spawns))
      /\ Corpses(w, f, Dying(w))
  BY TailOwing
<1>2. /\ j.kind = "advance" => j.of \notin Ids(w.actions)
      /\ j.kind = "spawn" => j.of \notin Ids(w.spawns)
      /\ j.kind = "despawn" => j.of \notin Dying(w)
  OBVIOUS
<1> HIDE DEF g, j
<1>3. Timed(w, g, Ids(w.actions) \ {})
  BY <1>1, <1>2 DEF Timed
<1>4. Asked(w, g, Ids(w.spawns))
  BY <1>1, <1>2 DEF Asked
<1>5. Corpses(w, g, Dying(w))
  BY <1>1, <1>2 DEF Corpses
<1>6. Owing(w, g, {})
  BY <1>1, <1>3, <1>4, <1>5 DEF Owing, Rest
<1> QED
  BY <1>6 DEF g

(* A timer that fires leaves its action owing.                             *)
LEMMA FiredOwing ==
  ASSUME NEW w, NEW f, Owing(w, f, {}), f # <<>>, Head(f).kind = "advance"
  PROVE  Owing(w, Tail(f), {Head(f).of}) /\ ~IsComing(w, Tail(f), "advance", Head(f).of)
         /\ (Head(f).of \in Ids(w.actions) => Head(f).owner = Action(w, Head(f).of).owner)
<1> DEFINE g == Tail(f)
           j == Head(f)
<1>1. /\ Base(w, g) /\ Right(w, j) /\ ~IsComing(w, g, j.kind, j.of)
      /\ \A o : IsComing(w, f, "advance", o) /\ ~(j.kind = "advance" /\ o = j.of) =>
           IsComing(w, g, "advance", o)
      /\ \A o : IsComing(w, f, "spawn", o) /\ ~(j.kind = "spawn" /\ o = j.of) =>
           IsComing(w, g, "spawn", o)
      /\ \A o : IsComing(w, f, "despawn", o) /\ ~(j.kind = "despawn" /\ o = j.of) =>
           IsComing(w, g, "despawn", o)
      /\ Populated(w, g)
      /\ Timed(w, f, Ids(w.actions)) /\ Asked(w, f, Ids(w.spawns))
      /\ Corpses(w, f, Dying(w))
  BY TailOwing
<1>2. j.kind = "advance"
  OBVIOUS
<1> HIDE DEF g, j
<1>3. Timed(w, g, Ids(w.actions) \ {j.of})
  BY <1>1, <1>2 DEF Timed
<1>4. Asked(w, g, Ids(w.spawns))
  BY <1>1, <1>2 DEF Asked
<1>5. Corpses(w, g, Dying(w))
  BY <1>1, <1>2 DEF Corpses
<1>6. Owing(w, g, {j.of})
  BY <1>1, <1>3, <1>4, <1>5 DEF Owing, Rest
<1>7. j.of \in Ids(w.actions) => j.owner = Action(w, j.of).owner
  BY <1>1, <1>2 DEF Right
<1>8. ~IsComing(w, g, "advance", j.of)
  BY <1>1, <1>2
<1> QED
  BY <1>6, <1>7, <1>8 DEF g, j

LEMMA SpawnedOwing ==
  ASSUME NEW w, NEW f, Owing(w, f, {}), f # <<>>, Head(f).kind = "spawn"
  PROVE  Owing(Spawned(w, Head(f).of), Tail(f), {})
<1> DEFINE g == Tail(f)
           j == Head(f)
           id == j.of
           fresh == [home |-> Item(w.spawns, id).home, state |-> "alive"]
           npcs == Append(w.npcs, fresh)
           t == Take(w.spawns, {id})
           u == Spawned(w, id)
           k == Len(w.npcs) + 1
<1>1. CASE id \notin Ids(w.spawns)
  <2>1. u = w
    BY <1>1 DEF Spawned
  <2>2. Owing(w, g, {})
    BY <1>1, StaleOwing
  <2> QED
    BY <2>1, <2>2
<1>2. CASE id \in Ids(w.spawns)
  <2>1. /\ Base(w, g)
        /\ \A o : IsComing(w, f, "advance", o) /\ ~(j.kind = "advance" /\ o = j.of) =>
             IsComing(w, g, "advance", o)
        /\ \A o : IsComing(w, f, "spawn", o) /\ ~(j.kind = "spawn" /\ o = j.of) =>
             IsComing(w, g, "spawn", o)
        /\ \A o : IsComing(w, f, "despawn", o) /\ ~(j.kind = "despawn" /\ o = j.of) =>
             IsComing(w, g, "despawn", o)
        /\ \A n, a : CorpseFirst(w, f, n, a) => CorpseFirst(w, g, n, a)
        /\ Timed(w, f, Ids(w.actions)) /\ Asked(w, f, Ids(w.spawns))
        /\ Corpses(w, f, Dying(w)) /\ Populated(w, f)
    BY TailOwing
  <2>2. j.kind = "spawn"
    OBVIOUS
  <2>3. /\ w \in WorldState /\ Tables(w) /\ Acting(w) /\ Uncrowded(w)
        /\ \A x \in Timers(w) : InWorld(w, JobOf(w, x).owner)
    BY <2>1, BaseParts
  <2>4. Base(w, f) /\ f \in Seq(JobSet)
    BY BaseParts DEF Owing
  <2>5. /\ Len(w.npcs) \in Nat /\ DOMAIN w.npcs = 1 .. Len(w.npcs)
    BY <2>3, NpcsOf
  <2>6. w.npcs \in Seq(NpcSet)
    BY <2>3, WorldParts
  <2>7. HomeOf(w, id) \in Home
    BY <1>2, <2>3, RequestsOf
  <2>8. fresh \in NpcSet /\ fresh.home = HomeOf(w, id) /\ fresh.state = "alive"
    BY <2>7 DEF NpcSet, HomeOf
  <2>9. /\ t \in TableOf(RequestSet) /\ Sound(t) /\ Ids(t) = Ids(w.spawns) \ {id}
        /\ \A a \in Ids(t) : Item(t, a) = Item(w.spawns, a)
        /\ \A x \in Id : Given(w.spawns, x) => Given(t, x)
    BY <2>3, TakeRequest
  <2>10. u = [w EXCEPT !.spawns = t, !.npcs = npcs]
    BY <1>2 DEF Spawned
  <2> HIDE DEF fresh
  <2>11. /\ npcs \in Seq(NpcSet) /\ Len(npcs) = k
         /\ npcs[k] = fresh /\ \A m \in 1 .. Len(w.npcs) : npcs[m] = w.npcs[m]
    BY <2>6, <2>8
  <2>12. DOMAIN npcs = 1 .. k
    BY <2>11, Elements
  <2> HIDE DEF npcs, t
  <2>13. DOMAIN npcs = DOMAIN w.npcs \cup {k} /\ k \notin DOMAIN w.npcs
    BY <2>5, <2>12
  <2> HIDE DEF k, u
  <2>14. /\ u \in WorldState /\ u.spawns = t /\ u.npcs = npcs
         /\ u.jobs = w.jobs /\ u.owned = w.owned /\ u.actions = w.actions
         /\ u.holds = w.holds /\ u.body = w.body /\ u.refused = w.refused
    BY <2>3, <2>9, <2>10, <2>11 DEF WorldState
  <2>15. Tables(u)
    BY <2>3, <2>9, <2>14 DEF Tables
  <2>16. \A m \in DOMAIN w.npcs : m \in DOMAIN u.npcs /\ u.npcs[m] = w.npcs[m]
    BY <2>5, <2>11, <2>13, <2>14
  <2>17. Follows(w, u)
    BY <2>9, <2>14, <2>16 DEF Follows, Action
  <2>18. ASSUME NEW x \in Timers(w) PROVE InWorld(u, JobOf(w, x).owner)
    <3> DEFINE e == JobOf(w, x).owner
    <3>1. InWorld(w, e)
      BY <2>3
    <3> HIDE DEF e
    <3>2. InWorld(u, e)
      BY <2>14, <2>16, <3>1 DEF InWorld
    <3> QED
      BY <3>2 DEF e
  <2>19. Acting(u)
    BY <2>3, <2>14, ActingSame
  <2>20. Uncrowded(u)
    <3>1. IsFiniteSet(Ids(w.spawns)) /\ Cardinality(Ids(w.spawns)) \in Nat
      BY <2>3, RequestsOf
    <3>2. Cardinality(Ids(u.spawns)) = Cardinality(Ids(w.spawns)) - 1
      BY <1>2, <2>9, <2>14, <3>1, FS_RemoveElement
    <3>3. Len(w.npcs) + Cardinality(Ids(w.spawns)) <= MaxNpc /\ MaxNpc \in Nat
      BY <2>3, SimAssumption DEF SimAssumption, Uncrowded
    <3>4. Len(u.npcs) = Len(w.npcs) + 1
      BY <2>11, <2>14 DEF k
    <3> QED
      BY <2>5, <3>1, <3>2, <3>3, <3>4 DEF Uncrowded
  <2>21. Base(u, g)
    BY <2>1, <2>14, <2>15, <2>17, <2>18, <2>19, <2>20, BaseSameJobs
  <2>22. \A kk, o : IsComing(u, g, kk, o) <=> IsComing(w, g, kk, o)
    BY <2>14, SameTimers
  <2>23. Ids(u.spawns) = Ids(w.spawns) \ {id}
         /\ \A a \in Ids(u.spawns) : HomeOf(u, a) = HomeOf(w, a)
    BY <2>9, <2>14 DEF HomeOf
  <2>24. /\ AliveNpcs(u) = AliveNpcs(w) \cup {k} /\ Dying(u) = Dying(w)
         /\ DOMAIN u.npcs = DOMAIN w.npcs \cup {k} /\ u.npcs[k].home = HomeOf(w, id)
    <3>1. DOMAIN u.npcs = DOMAIN w.npcs \cup {k}
      BY <2>13, <2>14
    <3>2. u.npcs[k].home = HomeOf(w, id) /\ u.npcs[k].state = "alive"
      BY <2>8, <2>11, <2>14
    <3>3. \A m \in DOMAIN w.npcs : u.npcs[m].state = w.npcs[m].state
      BY <2>16
    <3>4. AliveNpcs(u) = AliveNpcs(w) \cup {k}
      BY <3>1, <3>2, <3>3 DEF AliveNpcs
    <3>5. Dying(u) = Dying(w)
      BY <3>1, <3>2, <3>3 DEF Dying
    <3> QED
      BY <3>1, <3>2, <3>4, <3>5
  <2>25. Timed(u, g, Ids(u.actions) \ {})
    BY <2>1, <2>2, <2>14, <2>22 DEF Timed
  <2>26. Asked(u, g, Ids(u.spawns))
    BY <2>1, <2>2, <2>22, <2>23 DEF Asked
  <2>27. Corpses(u, g, Dying(u))
    BY <2>1, <2>2, <2>14, <2>22, <2>24 DEF Corpses
  <2>28. Populated(u, g)
    <3> SUFFICES ASSUME ~u.refused PROVE Populated(u, g)
      BY DEF Populated
    <3>1. /\ \A l, m \in DOMAIN w.npcs :
               w.npcs[l].state # "gone" /\ w.npcs[m].state # "gone"
                 /\ w.npcs[l].home = w.npcs[m].home => l = m
          /\ \A a, b \in Ids(w.spawns) : HomeOf(w, a) = HomeOf(w, b) => a = b
          /\ \A m \in AliveNpcs(w), a \in Ids(w.spawns) : w.npcs[m].home # HomeOf(w, a)
          /\ \A h \in Home : \/ \E m \in AliveNpcs(w) : w.npcs[m].home = h
                             \/ \E a \in Ids(w.spawns) : HomeOf(w, a) = h
          /\ \A m \in Dying(w), a \in Ids(w.spawns) :
               w.npcs[m].home = HomeOf(w, a) => CorpseFirst(w, f, m, a)
      BY <2>1, <2>14 DEF Populated
    <3>2. ASSUME NEW m \in Dying(w) PROVE w.npcs[m].home # HomeOf(w, id)
      <4> SUFFICES ASSUME w.npcs[m].home = HomeOf(w, id) PROVE FALSE
        OBVIOUS
      <4>1. CorpseFirst(w, f, m, id)
        BY <1>2, <3>1
      <4>2. IsComing(w, f, "despawn", m)
        BY <2>1, <2>14 DEF Corpses
      <4>3. 1 \in DOMAIN f /\ j = f[1]
        BY <2>4
      <4>4. IsFor(f[1], "spawn", id)
        BY <2>2, <4>3 DEF IsFor
      <4>5. CASE \E x \in Timers(w) : JobOf(w, x).kind = "despawn" /\ JobOf(w, x).of = m
        BY <4>1, <4>3, <4>4, <4>5 DEF CorpseFirst, IsFor
      <4>6. CASE \E i \in DOMAIN f : f[i].kind = "despawn" /\ f[i].of = m
        <5>1. PICK i \in DOMAIN f : f[i].kind = "despawn" /\ f[i].of = m
          BY <4>6
        <5>2. i < 1
          BY <4>1, <4>3, <4>4, <5>1 DEF CorpseFirst, IsFor
        <5> QED
          BY <2>4, <5>2
      <4> QED
        BY <4>2, <4>5, <4>6 DEF IsComing
    <3>3. \A m \in DOMAIN w.npcs : u.npcs[m] = w.npcs[m]
      BY <2>16
    <3>4. ASSUME NEW m \in DOMAIN w.npcs, w.npcs[m].state # "gone"
          PROVE  w.npcs[m].home # HomeOf(w, id)
      <4>1. w.npcs[m].state \in {"alive", "dying", "gone"}
        BY <2>3, NpcsOf
      <4> QED
        BY <1>2, <3>1, <3>2, <3>4, <4>1 DEF AliveNpcs, Dying
    <3>5. \A l, m \in DOMAIN u.npcs :
            u.npcs[l].state # "gone" /\ u.npcs[m].state # "gone"
              /\ u.npcs[l].home = u.npcs[m].home => l = m
      BY <2>24, <3>1, <3>3, <3>4
    <3>6. \A a, b \in Ids(u.spawns) : HomeOf(u, a) = HomeOf(u, b) => a = b
      BY <2>23, <3>1
    <3>7. \A m \in AliveNpcs(w) : m \in DOMAIN w.npcs
      BY DEF AliveNpcs
    <3>8. \A m \in AliveNpcs(u), a \in Ids(u.spawns) : u.npcs[m].home # HomeOf(u, a)
      <4>1. ASSUME NEW m \in AliveNpcs(w), NEW a \in Ids(u.spawns)
            PROVE  u.npcs[m].home # HomeOf(u, a)
        BY <2>23, <3>1, <3>3, <3>7
      <4>2. ASSUME NEW a \in Ids(u.spawns) PROVE u.npcs[k].home # HomeOf(u, a)
        BY <1>2, <2>23, <2>24, <3>1
      <4> QED
        BY <2>24, <4>1, <4>2
    <3>9. \A h \in Home : \/ \E m \in AliveNpcs(u) : u.npcs[m].home = h
                          \/ \E a \in Ids(u.spawns) : HomeOf(u, a) = h
      <4>1. ASSUME NEW h \in Home, NEW m \in AliveNpcs(w), w.npcs[m].home = h
            PROVE  \E l \in AliveNpcs(u) : u.npcs[l].home = h
        BY <2>24, <3>3, <3>7, <4>1
      <4>2. ASSUME NEW h \in Home, NEW a \in Ids(w.spawns), HomeOf(w, a) = h
            PROVE  \/ \E m \in AliveNpcs(u) : u.npcs[m].home = h
                   \/ \E b \in Ids(u.spawns) : HomeOf(u, b) = h
        <5>1. CASE a = id
          BY <2>24, <4>2, <5>1
        <5>2. CASE a # id
          BY <2>23, <4>2, <5>2
        <5> QED
          BY <5>1, <5>2
      <4> QED
        BY <3>1, <4>1, <4>2
    <3>10. \A m \in Dying(u), a \in Ids(u.spawns) :
             u.npcs[m].home = HomeOf(u, a) => CorpseFirst(u, g, m, a)
      <4>1. ASSUME NEW m \in Dying(w), NEW a \in Ids(u.spawns), u.npcs[m].home = HomeOf(u, a)
            PROVE  CorpseFirst(u, g, m, a)
        <5>1. w.npcs[m].home = HomeOf(w, a) /\ a \in Ids(w.spawns)
          BY <2>23, <3>3, <4>1 DEF Dying
        <5>2. CorpseFirst(w, g, m, a)
          BY <2>1, <3>1, <5>1
        <5>3. Fewer(w, u)
          BY <2>14, SameTimers
        <5> QED
          BY <5>2, <5>3, FewerCorpseFirst
      <4> QED
        BY <2>24, <4>1
    <3> QED
      BY <3>5, <3>6, <3>8, <3>9, <3>10 DEF Populated
  <2>29. Owing(u, g, {})
    BY <2>21, <2>25, <2>26, <2>27, <2>28 DEF Owing, Rest
  <2> QED
    BY <2>29 DEF u
<1> QED
  BY <1>1, <1>2

LEMMA DespawnedOwing ==
  ASSUME NEW w, NEW f, Owing(w, f, {}), f # <<>>, Head(f).kind = "despawn"
  PROVE  Owing(Despawned(w, Head(f).of), Tail(f), {})
<1> DEFINE g == Tail(f)
           j == Head(f)
           n == j.of
           q == CancelOwner(w, n)
           gone == [w EXCEPT !.npcs[n].state = "gone"]
           u == Despawned(w, n)
<1>1. CASE w.npcs[n].state = "gone"
  <2>1. u = w
    BY <1>1 DEF Despawned
  <2>2. Owing(w, g, {})
    BY <1>1, StaleOwing DEF Dying
  <2> QED
    BY <2>1, <2>2
<1>2. CASE w.npcs[n].state # "gone"
  <2>1. /\ Base(w, g) /\ Right(w, j)
        /\ \A o : IsComing(w, f, "advance", o) /\ ~(j.kind = "advance" /\ o = j.of) =>
             IsComing(w, g, "advance", o)
        /\ \A o : IsComing(w, f, "spawn", o) /\ ~(j.kind = "spawn" /\ o = j.of) =>
             IsComing(w, g, "spawn", o)
        /\ \A o : IsComing(w, f, "despawn", o) /\ ~(j.kind = "despawn" /\ o = j.of) =>
             IsComing(w, g, "despawn", o)
        /\ Populated(w, g)
        /\ Timed(w, f, Ids(w.actions)) /\ Asked(w, f, Ids(w.spawns))
        /\ Corpses(w, f, Dying(w))
    BY TailOwing
  <2>2. j.kind = "despawn"
    OBVIOUS
  <2>3. w \in WorldState /\ Tables(w) /\ Uncrowded(w)
    BY <2>1, BaseParts
  <2>4. n \in DOMAIN w.npcs /\ w.npcs[n].state # "alive"
    BY <2>1, <2>2 DEF Right
  <2>5. n \in Npc /\ n \in Entity /\ n \notin Player /\ n # World
    BY <2>3, <2>4, AlivePlayersAndMonsters, Entities
  <2>6. w.npcs[n].state = "dying"
    BY <1>2, <2>3, <2>4, NpcsOf
  <2>7. /\ gone \in WorldState /\ Becomes(w, gone, n, "gone")
        /\ gone.jobs = w.jobs /\ gone.owned = w.owned /\ gone.actions = w.actions
        /\ gone.holds = w.holds /\ gone.spawns = w.spawns /\ gone.body = w.body
        /\ gone.cooling = w.cooling /\ gone.starts = w.starts /\ gone.refused = w.refused
    BY <2>3, <2>4, BecomesFacts
  <2>8. u = CancelOwner(gone, n)
    BY <1>2, <2>5 DEF Despawned, Cleanup
  <2>9. /\ Base(q, g)
        /\ Timers(q) = {x \in Timers(w) : JobOf(w, x).owner # n}
        /\ \A x \in Timers(q) : JobOf(q, x) = JobOf(w, x)
        /\ q.actions = w.actions /\ q.holds = w.holds /\ q.spawns = w.spawns
        /\ q.body = w.body /\ q.npcs = w.npcs /\ q.cooling = w.cooling
        /\ q.starts = w.starts /\ q.refused = w.refused
    BY <2>1, <2>5, CancelOwnerFacts
  <2>10. q \in WorldState
    BY <2>9, BaseParts
  <2> HIDE DEF gone
  <2>11. /\ u \in WorldState /\ u.jobs = q.jobs /\ u.owned = q.owned /\ u.npcs = gone.npcs
         /\ u.actions = w.actions /\ u.holds = w.holds /\ u.spawns = w.spawns
         /\ u.body = w.body /\ u.refused = w.refused
    <3> DEFINE jobs == Take(w.jobs, w.owned[n])
               owned == [w.owned EXCEPT ![n] = {}]
    <3>1. q = [w EXCEPT !.jobs = jobs, !.owned = owned]
      BY DEF CancelOwner
    <3>2. u = [gone EXCEPT !.jobs = jobs, !.owned = owned]
      BY <2>7, <2>8 DEF CancelOwner
    <3> HIDE DEF jobs, owned, q, u
    <3>3. q.jobs = jobs /\ q.owned = owned
      BY <2>3, <3>1 DEF WorldState
    <3>4. jobs \in TableOf(JobSet) /\ owned \in [Entity -> SUBSET Id]
      BY <2>10, <3>3, WorldParts
    <3> QED
      BY <2>7, <3>2, <3>3, <3>4 DEF WorldState
  <2> HIDE DEF u, q
  <2>12. Becomes(q, u, n, "gone")
    BY <2>7, <2>9, <2>11 DEF Becomes
  <2>13. Base(u, g)
    <3>1. "gone" = "gone" => \A x \in Timers(q) : JobOf(q, x).owner # n
      BY <2>9
    <3>2. n \in DOMAIN q.npcs
      BY <2>4, <2>9
    <3>3. /\ u.actions = q.actions /\ u.holds = q.holds /\ u.spawns = q.spawns
          /\ u.body = q.body /\ u.jobs = q.jobs /\ u.owned = q.owned /\ u \in WorldState
      BY <2>9, <2>11
    <3> QED
      BY <2>9, <2>12, <3>1, <3>2, <3>3, BecomesBase
  <2>14. Timers(u) = Timers(q) /\ \A x : JobOf(u, x) = JobOf(q, x)
    BY <2>11, SameTimers
  <2>15. Fewer(w, u)
    BY <2>9, <2>14 DEF Fewer
  <2>16. ASSUME NEW k, NEW o, IsComing(w, g, k, o),
                \A x \in Timers(w) :
                  JobOf(w, x).kind = k /\ JobOf(w, x).of = o => JobOf(w, x).owner # n
         PROVE  IsComing(u, g, k, o)
    <3>1. CASE \E x \in Timers(w) : JobOf(w, x).kind = k /\ JobOf(w, x).of = o
      <4>1. PICK x \in Timers(w) : JobOf(w, x).kind = k /\ JobOf(w, x).of = o
        BY <3>1
      <4>2. x \in Timers(u) /\ JobOf(u, x) = JobOf(w, x)
        BY <2>9, <2>14, <2>16, <4>1
      <4> QED
        BY <4>1, <4>2 DEF IsComing
    <3>2. CASE \E i \in DOMAIN g : g[i].kind = k /\ g[i].of = o
      BY <3>2 DEF IsComing
    <3> QED
      BY <2>16, <3>1, <3>2 DEF IsComing
  <2> HIDE DEF g, j, n
  <2>17. ASSUME NEW o, IsComing(w, f, "advance", o) PROVE IsComing(u, g, "advance", o)
    <3>1. IsComing(w, g, "advance", o)
      BY <2>1, <2>2, <2>17
    <3>2. \A x \in Timers(w) : JobOf(w, x).kind = "advance" => JobOf(w, x).owner # n
      BY <2>1, <2>5, OwnersOfKinds
    <3> QED
      BY <2>16, <3>1, <3>2
  <2>18. ASSUME NEW o, IsComing(w, f, "spawn", o) PROVE IsComing(u, g, "spawn", o)
    <3>1. IsComing(w, g, "spawn", o)
      BY <2>1, <2>2, <2>18
    <3>2. \A x \in Timers(w) : JobOf(w, x).kind = "spawn" => JobOf(w, x).owner # n
      BY <2>1, <2>5, OwnersOfKinds
    <3> QED
      BY <2>16, <3>1, <3>2
  <2>19. ASSUME NEW o, o # n, IsComing(w, f, "despawn", o) PROVE IsComing(u, g, "despawn", o)
    <3>1. IsComing(w, g, "despawn", o)
      BY <2>1, <2>2, <2>19 DEF n
    <3>2. \A x \in Timers(w) :
            JobOf(w, x).kind = "despawn" /\ JobOf(w, x).of = o => JobOf(w, x).owner # n
      BY <2>1, <2>19, OwnersOfKinds
    <3> QED
      BY <2>16, <3>1, <3>2
  <2>20. /\ DOMAIN u.npcs = DOMAIN w.npcs
         /\ \A m \in DOMAIN w.npcs :
              /\ u.npcs[m].home = w.npcs[m].home
              /\ u.npcs[m].state = IF m = n THEN "gone" ELSE w.npcs[m].state
    BY <2>7, <2>11 DEF Becomes
  <2>21. Dying(u) = Dying(w) \ {n} /\ AliveNpcs(u) = AliveNpcs(w)
    <3>1. Dying(u) = Dying(w) \ {n}
      BY <2>20 DEF Dying
    <3>2. AliveNpcs(u) = AliveNpcs(w)
      BY <2>4, <2>20 DEF AliveNpcs
    <3> QED
      BY <3>1, <3>2
  <2>22. Timed(u, g, Ids(u.actions) \ {})
    BY <2>1, <2>11, <2>17 DEF Timed
  <2>23. Asked(u, g, Ids(u.spawns))
    BY <2>1, <2>11, <2>18 DEF Asked
  <2>24. Corpses(u, g, Dying(u))
    BY <2>1, <2>11, <2>19, <2>21 DEF Corpses
  <2>25. Populated(u, g)
    <3> SUFFICES ASSUME ~u.refused PROVE Populated(u, g)
      BY DEF Populated
    <3>1. /\ \A l, m \in DOMAIN w.npcs :
               w.npcs[l].state # "gone" /\ w.npcs[m].state # "gone"
                 /\ w.npcs[l].home = w.npcs[m].home => l = m
          /\ \A a, b \in Ids(w.spawns) : HomeOf(w, a) = HomeOf(w, b) => a = b
          /\ \A m \in AliveNpcs(w), a \in Ids(w.spawns) : w.npcs[m].home # HomeOf(w, a)
          /\ \A h \in Home : \/ \E m \in AliveNpcs(w) : w.npcs[m].home = h
                             \/ \E a \in Ids(w.spawns) : HomeOf(w, a) = h
          /\ \A m \in Dying(w), a \in Ids(w.spawns) :
               w.npcs[m].home = HomeOf(w, a) => CorpseFirst(w, g, m, a)
      BY <2>1, <2>11 DEF Populated
    <3>2. Ids(u.spawns) = Ids(w.spawns) /\ \A a : HomeOf(u, a) = HomeOf(w, a)
      BY <2>11 DEF HomeOf
    <3>3. \A m \in DOMAIN w.npcs : u.npcs[m].state # "gone" => w.npcs[m].state # "gone"
      BY <2>20
    <3>4. \A l, m \in DOMAIN u.npcs :
            u.npcs[l].state # "gone" /\ u.npcs[m].state # "gone"
              /\ u.npcs[l].home = u.npcs[m].home => l = m
      BY <2>20, <3>1, <3>3
    <3>5. \A m \in AliveNpcs(w) : u.npcs[m].home = w.npcs[m].home
      BY <2>20 DEF AliveNpcs
    <3>6. \A m \in Dying(w) : u.npcs[m].home = w.npcs[m].home
      BY <2>20 DEF Dying
    <3>7. \A m, a : CorpseFirst(w, g, m, a) => CorpseFirst(u, g, m, a)
      BY <2>15, FewerCorpseFirst
    <3>8. \A m \in Dying(u), a \in Ids(u.spawns) :
            u.npcs[m].home = HomeOf(u, a) => CorpseFirst(u, g, m, a)
      BY <2>21, <3>1, <3>2, <3>6, <3>7
    <3>9. \A h \in Home : \/ \E m \in AliveNpcs(u) : u.npcs[m].home = h
                          \/ \E a \in Ids(u.spawns) : HomeOf(u, a) = h
      BY <2>21, <3>1, <3>2, <3>5
    <3>10. \A m \in AliveNpcs(u), a \in Ids(u.spawns) : u.npcs[m].home # HomeOf(u, a)
      BY <2>21, <3>1, <3>2, <3>5
    <3>11. \A a, b \in Ids(u.spawns) : HomeOf(u, a) = HomeOf(u, b) => a = b
      BY <3>1, <3>2
    <3> QED
      BY <3>4, <3>8, <3>9, <3>10, <3>11 DEF Populated
  <2>26. Owing(u, g, {})
    BY <2>13, <2>22, <2>23, <2>24, <2>25 DEF Owing, Rest
  <2> QED
    BY <2>26 DEF u, g, n, j
<1> QED
  BY <1>1, <1>2

-----------------------------------------------------------------------------
(***************************************************************************)
(* The steps of a tick                                                     *)
(***************************************************************************)

Drains(w, lane, u, g) ==
  LET b == Batch(w, lane)
  IN  u = TakenOut(w, ToSet(b)) /\ g = [i \in DOMAIN b |-> JobOf(w, b[i])]

LEMMA DrainOwing ==
  ASSUME NEW w, Owing(w, <<>>, {}), NEW lane \in Lane, NEW u, NEW g, Drains(w, lane, u, g)
  PROVE  Owing(u, g, {}) /\ \A i \in DOMAIN g : g[i].lane = lane
<1>1. Base(w, <<>>) /\ Timed(w, <<>>, Ids(w.actions) \ {}) /\ Rest(w, <<>>)
  BY DEF Owing
<1>2. LET b == Batch(w, lane)
          v == TakenOut(w, ToSet(b))
          h == [i \in DOMAIN b |-> JobOf(w, b[i])]
      IN  /\ Base(v, h) /\ \A i \in DOMAIN h : h[i].lane = lane
          /\ \A k, o : IsComing(w, <<>>, k, o) => IsComing(v, h, k, o)
          /\ Populated(w, <<>>) => Populated(v, h)
          /\ v.refused = w.refused /\ v.actions = w.actions /\ v.spawns = w.spawns
          /\ v.npcs = w.npcs
  BY <1>1, DrainBase
<1>3. /\ Base(u, g) /\ \A i \in DOMAIN g : g[i].lane = lane
      /\ \A k, o : IsComing(w, <<>>, k, o) => IsComing(u, g, k, o)
      /\ Populated(w, <<>>) => Populated(u, g)
      /\ u.refused = w.refused /\ u.actions = w.actions /\ u.spawns = w.spawns
      /\ u.npcs = w.npcs
  BY <1>2 DEF Drains
<1>4. Timed(u, g, Ids(u.actions) \ {})
  BY <1>1, <1>3 DEF Timed
<1>5. Asked(u, g, Ids(u.spawns)) /\ Corpses(u, g, Dying(u)) /\ Populated(u, g)
  BY <1>1, <1>3 DEF Rest, Asked, Corpses, Dying
<1> QED
  BY <1>3, <1>4, <1>5 DEF Owing, Rest

LEMMA OlderOwing ==
  ASSUME NEW w, NEW f, Owing(w, f, {})
  PROVE  Owing(Older(w), f, {})
<1> DEFINE u == Older(w)
<1>1. Base(w, f) /\ Timed(w, f, Ids(w.actions) \ {}) /\ Rest(w, f)
  BY DEF Owing
<1>2. /\ Base(u, f) /\ \A k, o : IsComing(u, f, k, o) <=> IsComing(w, f, k, o)
      /\ Populated(w, f) => Populated(u, f)
      /\ u.refused = w.refused /\ u.actions = w.actions /\ u.spawns = w.spawns
      /\ u.npcs = w.npcs
  <2>1. Base(w, f)
    BY <1>1
  <2> QED
    BY <2>1, OlderBase
<1> HIDE DEF u
<1>3. Timed(u, f, Ids(u.actions) \ {})
  BY <1>1, <1>2 DEF Timed
<1>4. Asked(u, f, Ids(u.spawns)) /\ Corpses(u, f, Dying(u)) /\ Populated(u, f)
  BY <1>1, <1>2 DEF Rest, Asked, Corpses, Dying
<1>5. Owing(u, f, {})
  BY <1>2, <1>3, <1>4 DEF Owing, Rest
<1> QED
  BY <1>5 DEF u

LEMMA InterruptedOwing ==
  ASSUME NEW w, NEW f, Owing(w, f, {}), NEW ps
  PROVE  Owing(Interrupted(w, ps), f, {})
<1> DEFINE ids == {w.holds[p] : p \in ps}
<1>1. Interrupted(w, ps) = EndActions(w, ids)
  BY DEF Interrupted
<1> HIDE DEF ids
<1>2. {} \subseteq {} \cup ids
  OBVIOUS
<1>3. Owing(EndActions(w, ids), f, {})
  BY <1>2, EndActionsOwing
<1> QED
  BY <1>1, <1>3

(* Between the lanes nothing is drained.                                   *)
LEMMA NothingDrained ==
  ASSUME SimInv, phase \in {"messages", "inputs"}
  PROVE  fired = <<>>
<1>1. fired \in Seq(JobSet)
  BY BaseParts DEF SimInv, Owing
<1>2. /\ Len(fired) \in Nat /\ DOMAIN fired = 1 .. Len(fired)
      /\ \A i \in DOMAIN fired : fired[i] \in JobSet
  BY <1>1, Elements
<1>3. CASE Len(fired) = 0
  BY <1>1, <1>3
<1>4. CASE Len(fired) # 0
  <2>1. 1 \in DOMAIN fired
    BY <1>2, <1>4
  <2>2. fired[1].lane \in Lane
    BY <1>2, <2>1, JobFields
  <2>3. fired[1].lane = phase
    BY <2>1 DEF SimInv
  <2> QED
    BY <2>2, <2>3 DEF Lane
<1> QED
  BY <1>3, <1>4

LEMMA InitInvariant ==
  SimInit => SimInv
<1> SUFFICES ASSUME SimInit PROVE SimInv
  OBVIOUS
<1> DEFINE n == Cardinality(Home)
<1>1. PICK order \in [1 .. n -> Home] :
        /\ IsInjective(order)
        /\ world = [jobs |-> EmptyTable, owned |-> [e \in Entity |-> {}],
                    actions |-> EmptyTable, holds |-> [p \in Player |-> Nothing],
                    spawns |-> EmptyTable, body |-> [p \in Player |-> "alive"],
                    npcs |-> [m \in DOMAIN order |-> [home |-> order[m], state |-> "alive"]],
                    cooling |-> [p \in Player |-> [a \in Ability |-> 0]],
                    starts |-> 0, refused |-> FALSE]
  BY DEF SimInit
<1>2. phase = "messages" /\ fired = <<>> /\ stopped = {}
  BY DEF SimInit
<1> DEFINE npcs == [m \in DOMAIN order |-> [home |-> order[m], state |-> "alive"]]
<1>3. /\ world.jobs = EmptyTable /\ world.actions = EmptyTable /\ world.spawns = EmptyTable
      /\ world.owned = [e \in Entity |-> {}] /\ world.holds = [p \in Player |-> Nothing]
      /\ world.body = [p \in Player |-> "alive"] /\ world.npcs = npcs
      /\ world.starts = 0 /\ world.refused = FALSE
  BY <1>1
<1>4. IsFiniteSet(Home) /\ n \in Nat /\ n <= MaxNpc /\ MaxNpc \in Nat /\ MaxStarts \in Nat
      /\ Capacity \in Nat
  BY SimAssumption, FS_CardinalityType DEF SimAssumption
<1>5. \A m \in 1 .. n : npcs[m] \in NpcSet /\ npcs[m].home = order[m] /\ npcs[m].state = "alive"
  BY <1>1 DEF NpcSet
<1>6. DOMAIN npcs = 1 .. n /\ npcs = [m \in 1 .. n |-> npcs[m]]
  BY <1>1
<1> HIDE DEF npcs, n
<1>7. npcs \in Seq(NpcSet) /\ Len(npcs) = n
  <2>1. npcs \in [1 .. n -> NpcSet]
    BY <1>5, <1>6
  <2>2. npcs \in Seq(NpcSet)
    BY <1>4, <2>1
  <2> QED
    BY <1>4, <1>6, <2>2
<1>8. \A S : EmptyTable \in TableOf(S)
  <2>1. ASSUME NEW S PROVE EmptyTable \in TableOf(S)
    <3>1. \A E : <<>> \in Seq(E)
      OBVIOUS
    <3> QED
      BY <3>1 DEF EmptyTable, TableOf
  <2> QED
    BY <2>1
<1>9. Ids(EmptyTable) = {}
  BY DEF Ids, EmptyTable
<1>10. Sound(EmptyTable)
  <2>1. IsInjective(<<>>)
    BY DEF IsInjective
  <2>2. ToSet(<<>>) = {}
    BY DEF ToSet
  <2>3. {s \in DOMAIN <<>> : <<>>[s] = Nothing} = {}
    OBVIOUS
  <2> QED
    BY <2>1, <2>2, <2>3 DEF Sound, EmptyTable
<1>11. world \in WorldState
  <2> DEFINE owned == [e \in Entity |-> {}]
             holds == [p \in Player |-> Nothing]
             body == [p \in Player |-> "alive"]
             cooling == [p \in Player |-> [a \in Ability |-> 0]]
  <2>1. owned \in [Entity -> SUBSET Id] /\ holds \in [Player -> Id \cup {Nothing}]
    OBVIOUS
  <2>2. body \in [Player -> {"alive", "dead", "out"}]
    OBVIOUS
  <2>3. cooling \in [Player -> [Ability -> Nat]]
    OBVIOUS
  <2>4. 0 \in 0 .. MaxStarts
    BY <1>4
  <2>5. world = [jobs |-> EmptyTable, owned |-> owned, actions |-> EmptyTable,
                 holds |-> holds, spawns |-> EmptyTable, body |-> body, npcs |-> npcs,
                 cooling |-> cooling, starts |-> 0, refused |-> FALSE]
    BY <1>1 DEF npcs
  <2> HIDE DEF owned, holds, body, cooling
  <2> QED
    BY <1>7, <1>8, <2>1, <2>2, <2>3, <2>4, <2>5 DEF WorldState
<1>12. Timers(world) = {} /\ Ids(world.actions) = {} /\ Ids(world.spawns) = {}
  BY <1>3, <1>9 DEF Timers
<1>13. fired \in Seq(JobSet) /\ DOMAIN fired = {}
  BY <1>2
<1>14. Tables(world)
  BY <1>3, <1>10 DEF Tables
<1>15. AllRight(world, fired)
  BY <1>12, <1>13 DEF AllRight
<1>16. Unique(world, fired)
  BY <1>12, <1>13 DEF Unique
<1>17. Owned(world)
  BY <1>3, <1>12 DEF Owned
<1>18. Acting(world)
  BY <1>3, <1>12 DEF Acting
<1>19. Bounded(world)
  <2>1. Cardinality(Timers(world)) = 0 /\ Cardinality(Ids(world.spawns)) = 0
    BY <1>12, FS_EmptySet
  <2>2. Len(world.npcs) = n
    BY <1>3, <1>7
  <2> QED
    BY <1>4, <2>1, <2>2 DEF Bounded, Uncrowded
<1>20. Base(world, fired)
  BY <1>11, <1>13, <1>14, <1>15, <1>16, <1>17, <1>18, <1>19 DEF Base
<1>21. DOMAIN world.npcs = 1 .. n
       /\ \A m \in 1 .. n : world.npcs[m].home = order[m] /\ world.npcs[m].state = "alive"
  BY <1>3, <1>5, <1>6
<1>22. Timed(world, fired, Ids(world.actions) \ {}) /\ Asked(world, fired, Ids(world.spawns))
  BY <1>12 DEF Timed, Asked
<1>23. Dying(world) = {} /\ AliveNpcs(world) = 1 .. n
  BY <1>21 DEF Dying, AliveNpcs
<1>24. Corpses(world, fired, Dying(world))
  BY <1>23 DEF Corpses
<1>25. \A k, m \in 1 .. n : order[k] = order[m] => k = m
  BY <1>1 DEF IsInjective, n
<1>26. ASSUME NEW h \in Home PROVE \E m \in 1 .. n : order[m] = h
  <2> SUFFICES ASSUME ~\E m \in 1 .. n : order[m] = h PROVE FALSE
    OBVIOUS
  <2>1. order \in [1 .. n -> Home \ {h}]
    BY <1>1 DEF n
  <2>2. IsFiniteSet(Home \ {h}) /\ Cardinality(Home \ {h}) = n - 1
    BY <1>4, FS_RemoveElement DEF n
  <2>3. 1 \in Int /\ n \in Int
    BY <1>4
  <2>4. IsFiniteSet(1 .. n) /\ Cardinality(1 .. n) = IF 1 > n THEN 0 ELSE n - 1 + 1
    BY <2>3, FS_Interval
  <2>5. n # 0
    BY <1>4, FS_EmptySet DEF n
  <2>6. Cardinality(Home \ {h}) < Cardinality(1 .. n)
    BY <1>4, <2>2, <2>4, <2>5
  <2>7. \E k, m \in 1 .. n : k # m /\ order[k] = order[m]
    <3> DEFINE S == 1 .. n
               T == Home \ {h}
    <3>1. /\ IsFiniteSet(S) /\ IsFiniteSet(T) /\ Cardinality(T) < Cardinality(S)
          /\ order \in [S -> T]
      BY <2>1, <2>2, <2>4, <2>6
    <3> HIDE DEF S, T
    <3>2. \E k, m \in S : k # m /\ order[k] = order[m]
      BY <3>1, FS_PigeonHole
    <3> QED
      BY <3>2 DEF S
  <2> QED
    BY <1>25, <2>7
<1>27. Populated(world, fired)
  BY <1>12, <1>21, <1>23, <1>25, <1>26 DEF Populated
<1>28. Owing(world, fired, {})
  BY <1>20, <1>22, <1>24, <1>27 DEF Owing, Rest
<1> QED
  BY <1>2, <1>13, <1>28 DEF SimInv

(* The calls of a tick, one by one.                                        *)
LEMMA MessageInv ==
  SimInv /\ Message => SimInv'
<1> SUFFICES ASSUME SimInv, NEW p \in Player,
                    Respawn(p) \/ BeginTransition(p) \/ Leave(p) \/ Enter(p)
             PROVE  SimInv'
  BY DEF Message
<1>1. /\ Owing(world, fired, {}) /\ phase = "messages" /\ stopped \subseteq Player
      /\ \A i \in DOMAIN fired : fired[i].lane = phase
  BY DEF SimInv, Respawn, BeginTransition, Leave, Enter
<1>2. phase' = phase /\ fired' = fired /\ stopped' = stopped
  BY DEF Respawn, BeginTransition, Leave, Enter
<1>3. Owing(world', fired, {})
  <2>1. CASE Respawn(p)
    <3>1. world' = [Cleanup(world, p) EXCEPT !.body[p] = "alive"]
      BY <2>1 DEF Respawn
    <3>2. Owing([Cleanup(world, p) EXCEPT !.body[p] = "alive"], fired, {})
      BY <1>1, RespawnOwing
    <3> QED
      BY <3>1, <3>2
  <2>2. CASE BeginTransition(p)
    <3>1. world' = Interrupted(world, {p})
      BY <2>2 DEF BeginTransition
    <3>2. Owing(Interrupted(world, {p}), fired, {})
      BY <1>1, InterruptedOwing
    <3> QED
      BY <3>1, <3>2
  <2>3. CASE Leave(p)
    <3>1. world' = [Ready(Cleanup(world, p), p) EXCEPT !.body[p] = "out"]
      BY <2>3 DEF Leave
    <3>2. Owing([Ready(Cleanup(world, p), p) EXCEPT !.body[p] = "out"], fired, {})
      BY <1>1, LeaveOwing
    <3> QED
      BY <3>1, <3>2
  <2>4. CASE Enter(p)
    <3>1. world' = [world EXCEPT !.body[p] = "alive"] /\ world.body[p] = "out"
      BY <2>4 DEF Enter
    <3>2. Owing([world EXCEPT !.body[p] = "alive"], fired, {})
      BY <1>1, <3>1, EnterOwing
    <3> QED
      BY <3>1, <3>2
  <2> QED
    BY <2>1, <2>2, <2>3, <2>4
<1> QED
  BY <1>1, <1>2, <1>3 DEF SimInv

LEMMA BeginTickInv ==
  SimInv /\ BeginTick => SimInv'
<1> SUFFICES ASSUME SimInv, BeginTick PROVE SimInv'
  OBVIOUS
<1>1. PICK ended \in SUBSET {p \in Player : world.body[p] # "out"} :
        stopped' = ended /\ DrainDue(Interrupted(Older(world), ended), "critical")
  BY DEF BeginTick
<1>2. fired = <<>>
  BY NothingDrained DEF BeginTick
<1> DEFINE w == Interrupted(Older(world), ended)
<1>3. Owing(world, <<>>, {})
  BY <1>2 DEF SimInv
<1>4. Owing(w, <<>>, {})
  <2>1. Owing(Older(world), <<>>, {})
    BY <1>3, OlderOwing
  <2> QED
    BY <2>1, InterruptedOwing
<1>5. Drains(w, "critical", world', fired') /\ phase' = "critical"
  BY <1>1 DEF DrainDue, Drains
<1> HIDE DEF w
<1>6. "critical" \in Lane
  BY DEF Lane
<1>7. Owing(world', fired', {}) /\ \A i \in DOMAIN fired' : fired'[i].lane = "critical"
  BY <1>4, <1>5, <1>6, DrainOwing
<1>8. stopped' \subseteq Player
  BY <1>1
<1> QED
  BY <1>5, <1>7, <1>8 DEF SimInv

LEMMA NpcsAndDeferredInv ==
  SimInv /\ NpcsAndDeferred => SimInv'
<1> SUFFICES ASSUME SimInv, NpcsAndDeferred PROVE SimInv'
  OBVIOUS
<1> DEFINE S == IF AliveNpcs(world) = {} THEN {} ELSE AlivePlayers(world)
<1>1. PICK touched \in Volleys(S) : DrainDue(Struck(world, touched), "deferred")
  BY DEF NpcsAndDeferred
<1>2. fired = <<>>
  BY NothingDrained DEF NpcsAndDeferred
<1> DEFINE w == Struck(world, touched)
<1>3. Owing(world, <<>>, {})
  BY <1>2 DEF SimInv
<1>4. Sparing(touched, World)
  <2>1. S \subseteq Player
    BY DEF AlivePlayers
  <2>2. IsFiniteSet(S)
    BY <2>1, SimAssumption, FS_Subset DEF SimAssumption
  <2>3. World \notin S
    BY <2>1, Entities
  <2> HIDE DEF S
  <2>4. /\ Len(touched) \in Nat
        /\ \A i \in 1 .. Len(touched) : touched[i].on \in S /\ touched[i].kills \in BOOLEAN
    BY <1>1, <2>2, VolleyHits
  <2> QED
    BY <2>3, <2>4 DEF Sparing
<1>5. Owing(w, <<>>, {})
  BY <1>3, <1>4, StruckOwing
<1>6. Drains(w, "deferred", world', fired') /\ phase' = "deferred"
  BY <1>1 DEF DrainDue, Drains
<1> HIDE DEF w
<1>7. "deferred" \in Lane
  BY DEF Lane
<1>8. Owing(world', fired', {}) /\ \A i \in DOMAIN fired' : fired'[i].lane = "deferred"
  BY <1>5, <1>6, <1>7, DrainOwing
<1>9. stopped' \subseteq Player
  BY DEF SimInv, NpcsAndDeferred
<1> QED
  BY <1>6, <1>8, <1>9 DEF SimInv

LEMMA ApplyFiredInv ==
  SimInv /\ ApplyFired => SimInv'
<1> SUFFICES ASSUME SimInv, ApplyFired PROVE SimInv'
  OBVIOUS
<1> DEFINE job == Head(fired)
           g == Tail(fired)
<1>1. /\ fired # <<>> /\ fired' = g /\ phase' = phase /\ stopped' = stopped
      /\ \/ /\ job.kind = "advance" /\ Named(world, job.of) = {}
            /\ world' = world
         \/ /\ job.kind = "advance"
            /\ \E id \in Named(world, job.of) :
               \E blows \in IF Action(world, id).phase # "windup" THEN {<<>>}
                           ELSE Blows(world, job.owner, Action(world, id).ability) :
                 world' = PhaseDue(world, id, blows)
         \/ job.kind = "spawn" /\ world' = Spawned(world, job.of)
         \/ job.kind = "despawn" /\ world' = Despawned(world, job.of)
  BY DEF ApplyFired
<1>2. Owing(world, fired, {}) /\ \A i \in DOMAIN fired : fired[i].lane = phase
  BY DEF SimInv
<1>3. \A i \in DOMAIN fired' : fired'[i].lane = phase'
  <2>1. Base(world, fired) /\ Split(fired, job, g)
    BY <1>1, <1>2 DEF Owing, Split
  <2> HIDE DEF job, g
  <2>2. \A i \in DOMAIN g : \E k \in DOMAIN fired : g[i] = fired[k]
    BY <2>1, TailBase
  <2> QED
    BY <1>1, <1>2, <2>2
<1>4. SUFFICES Owing(world', fired', {})
  BY <1>1, <1>3 DEF SimInv
<1>5. CASE job.kind = "advance" /\ Named(world, job.of) = {} /\ world' = world
  <2>1. Head(fired).of \notin Ids(world.actions)
    BY <1>5 DEF Named
  <2>2. Owing(world, Tail(fired), {})
    BY <1>1, <1>2, <1>5, <2>1, StaleOwing
  <2> QED
    BY <1>1, <1>5, <2>2
<1>6. CASE /\ job.kind = "advance"
           /\ \E id \in Named(world, job.of) :
              \E blows \in IF Action(world, id).phase # "windup" THEN {<<>>}
                          ELSE Blows(world, job.owner, Action(world, id).ability) :
                world' = PhaseDue(world, id, blows)
  <2> PICK id \in Named(world, job.of) :
         \E blows \in IF Action(world, id).phase # "windup" THEN {<<>>}
                     ELSE Blows(world, job.owner, Action(world, id).ability) :
           world' = PhaseDue(world, id, blows)
    BY <1>6
  <2>1. PICK blows \in IF Action(world, id).phase # "windup" THEN {<<>>}
                      ELSE Blows(world, job.owner, Action(world, id).ability) :
          world' = PhaseDue(world, id, blows)
    OBVIOUS
  <2>2. id \in Ids(world.actions) /\ id = job.of
    BY DEF Named
  <2>3. /\ Owing(world, g, {job.of}) /\ ~IsComing(world, g, "advance", job.of)
        /\ (job.of \in Ids(world.actions) => job.owner = Action(world, job.of).owner)
    BY <1>1, <1>2, <1>6, FiredOwing
  <2> HIDE DEF job, g
  <2>4. world \in WorldState /\ Tables(world) /\ Uncrowded(world)
    BY <2>3, BaseParts DEF Owing
  <2>5. job.owner = Action(world, id).owner /\ job.owner \in Player
    BY <2>2, <2>3, <2>4, ActionsOf, ActionFields
  <2>6. Action(world, id).phase = "windup" =>
          Sparing(blows, Action(world, id).owner)
    <3> SUFFICES ASSUME Action(world, id).phase = "windup"
                 PROVE  Sparing(blows, Action(world, id).owner)
      OBVIOUS
    <3>1. blows \in Blows(world, job.owner, Action(world, id).ability)
      BY <2>1
    <3>2. Sparing(blows, job.owner)
      BY <2>4, <2>5, <3>1, BlowsSpare
    <3> QED
      BY <2>5, <3>2
  <2>7. Owing(world, g, {id}) /\ ~IsComing(world, g, "advance", id)
    BY <2>2, <2>3
  <2>8. Owing(PhaseDue(world, id, blows), g, {})
    BY <2>2, <2>6, <2>7, PhaseDueOwing
  <2> QED
    BY <1>1, <2>1, <2>8
<1>7. CASE job.kind = "spawn" /\ world' = Spawned(world, job.of)
  BY <1>1, <1>2, <1>7, SpawnedOwing
<1>8. CASE job.kind = "despawn" /\ world' = Despawned(world, job.of)
  BY <1>1, <1>2, <1>8, DespawnedOwing
<1> QED
  BY <1>1, <1>5, <1>6, <1>7, <1>8

LEMMA RequestAbilityInv ==
  ASSUME NEW p \in Player, NEW a \in Ability
  PROVE  SimInv /\ RequestAbility(p, a) => SimInv'
<1> SUFFICES ASSUME SimInv, RequestAbility(p, a) PROVE SimInv'
  OBVIOUS
<1> DEFINE id == NextId(world.actions)
           at == IF Timing[a].windup > 0 THEN "windup" ELSE "active"
           made == Begun(world, p, a, at)
<1>1. /\ world.starts < MaxStarts /\ world.body[p] = "alive" /\ ActiveOf(world, p) = {}
      /\ phase' = phase /\ fired' = fired /\ stopped' = stopped
      /\ IF at = "windup" THEN world' = Advance(made, id, Timing[a].windup)
         ELSE \E blows \in Blows(world, p, a) : world' = Activated(made, id, blows)
  BY DEF RequestAbility, Begun
<1>2. Owing(world, fired, {})
  BY DEF SimInv
<1>3. at \in Phase
  BY DEF Phase
<1> HIDE DEF at
<1>4. /\ Owing(made, fired, {id}) /\ id \in Ids(made.actions) /\ Action(made, id).owner = p
      /\ ~IsComing(made, fired, "advance", id) /\ made.npcs = world.npcs
      /\ made.spawns = world.spawns
  BY <1>1, <1>2, <1>3, BegunOwing
<1> HIDE DEF made, id
<1>5. world \in WorldState /\ Uncrowded(world)
  BY <1>2, BaseParts DEF Owing
<1>6. SUFFICES Owing(world', fired, {})
  BY <1>1 DEF SimInv
<1>7. CASE at = "windup"
  <2> DEFINE ticks == Timing[a].windup
  <2>1. ticks \in Int
    BY Ticks
  <2>2. world' = Advance(made, id, ticks)
    BY <1>1, <1>7
  <2> HIDE DEF ticks
  <2>3. Owing(Advance(made, id, ticks), fired, {})
    BY <1>4, <2>1, AdvanceOwing
  <2> QED
    BY <2>2, <2>3
<1>8. CASE at # "windup"
  <2>1. PICK blows \in Blows(world, p, a) : world' = Activated(made, id, blows)
    BY <1>1, <1>8
  <2>2. Sparing(blows, p)
    BY <1>5, BlowsSpare
  <2>4. Owing(Activated(made, id, blows), fired, {})
    BY <1>4, <2>2, ActivatedOwing
  <2> QED
    BY <2>1, <2>4
<1> QED
  BY <1>7, <1>8

LEMMA NextInvariant ==
  SimInv /\ [SimNext]_SimVars => SimInv'
<1> SUFFICES ASSUME SimInv, [SimNext]_SimVars PROVE SimInv'
  OBVIOUS
<1>1. CASE Message
  BY <1>1, MessageInv
<1>2. CASE BeginTick
  BY <1>2, BeginTickInv
<1>3. CASE ApplyFired
  BY <1>3, ApplyFiredInv
<1>4. CASE CriticalApplied
  <2>1. /\ phase' = "inputs" /\ fired = <<>> /\ world' = world /\ fired' = fired
        /\ stopped' = stopped
    BY <1>4 DEF CriticalApplied
  <2> QED
    BY <2>1 DEF SimInv
<1>5. CASE NpcsAndDeferred
  BY <1>5, NpcsAndDeferredInv
<1>6. CASE EndTick
  <2>1. /\ phase' = "messages" /\ fired = <<>> /\ world' = world /\ fired' = fired
        /\ stopped' = {}
    BY <1>6 DEF EndTick
  <2> QED
    BY <2>1 DEF SimInv
<1>7. CASE \E p \in Player, a \in Ability : RequestAbility(p, a)
  BY <1>7, RequestAbilityInv
<1>8. CASE UNCHANGED SimVars
  BY <1>8 DEF SimVars, SimInv
<1> QED
  BY <1>1, <1>2, <1>3, <1>4, <1>5, <1>6, <1>7, <1>8 DEF SimNext, Tick

LEMMA SimInvariance == SimSpec => []SimInv
BY InitInvariant, NextInvariant, PTL DEF SimSpec

-----------------------------------------------------------------------------
(***************************************************************************)
(* What the invariant says of the tables                                   *)
(***************************************************************************)

LEMMA AtMostOne ==
  ASSUME NEW S, \A x, y \in S : x = y
  PROVE  IsFiniteSet(S) /\ Cardinality(S) = IF S = {} THEN 0 ELSE 1
<1>1. CASE S = {}
  BY <1>1, FS_EmptySet
<1>2. CASE S # {}
  <2>1. PICK x : S = {x}
    BY <1>2
  <2> QED
    BY <2>1, FS_Singleton
<1> QED
  BY <1>1, <1>2

(* A thing's jobs, counted, are one or none.                               *)
LEMMA ComingOnce ==
  ASSUME Base(world, fired), NEW kind, NEW of
  PROVE  Coming(kind, of) = IF IsComing(world, fired, kind, of) THEN 1 ELSE 0
<1> DEFINE A == {id \in Timers(world) : JobOf(world, id).kind = kind /\ JobOf(world, id).of = of}
           B == {i \in DOMAIN fired : fired[i].kind = kind /\ fired[i].of = of}
<1>1. Unique(world, fired)
  BY BaseParts
<1>2. \A x, y \in A : x = y
  BY <1>1 DEF Unique, Same
<1>3. \A x, y \in B : x = y
  BY <1>1 DEF Unique, Same
<1>4. A = {} \/ B = {}
  BY <1>1 DEF Unique, Same
<1>5. IsComing(world, fired, kind, of) <=> A # {} \/ B # {}
  BY DEF IsComing
<1>6. Coming(kind, of) = Cardinality(A) + Cardinality(B)
  BY DEF Coming
<1> HIDE DEF A, B
<1>7. Cardinality(A) = IF A = {} THEN 0 ELSE 1
  BY <1>2, AtMostOne
<1>8. Cardinality(B) = IF B = {} THEN 0 ELSE 1
  BY <1>3, AtMostOne
<1> QED
  BY <1>4, <1>5, <1>6, <1>7, <1>8

LEMMA TypesFollow ==
  SimInv => SimTypeOK
<1> SUFFICES ASSUME SimInv PROVE SimTypeOK
  OBVIOUS
<1>1. Base(world, fired)
  BY DEF SimInv, Owing
<1>2. /\ world \in WorldState /\ Tables(world) /\ Cardinality(Timers(world)) <= Capacity
      /\ Uncrowded(world)
  BY <1>1, BaseParts
<1>3. /\ world.body \in [Player -> {"alive", "dead", "out"}]
      /\ world.npcs \in Seq(NpcSet)
      /\ world.starts \in 0 .. MaxStarts /\ world.refused \in BOOLEAN
  BY <1>2, WorldParts
<1>4. Len(world.npcs) <= MaxNpc
  <2>1. Len(world.npcs) \in Nat /\ Cardinality(Ids(world.spawns)) \in Nat /\ MaxNpc \in Nat
    BY <1>2, NpcsOf, RequestsOf, SimAssumption DEF SimAssumption
  <2> QED
    BY <1>2, <2>1 DEF Uncrowded
<1>5. \A id \in Timers(world) : JobOf(world, id).owner \in Entity \cup {World}
  BY <1>2, TimersOf, JobFields DEF Owner
<1> QED
  BY <1>2, <1>3, <1>4, <1>5 DEF SimInv, SimTypeOK, NpcSet

LEMMA SlotsFollow ==
  SimInv => SlotsAreSound
<1> SUFFICES ASSUME SimInv PROVE SlotsAreSound
  OBVIOUS
<1>1. Tables(world)
  BY BaseParts DEF SimInv, Owing
<1> QED
  BY <1>1 DEF Tables, Sound, SlotsAreSound

LEMMA OwnersFollow ==
  SimInv => JobsHaveOwners
<1> SUFFICES ASSUME SimInv, NEW e \in Entity
             PROVE  /\ world.owned[e] = {id \in Timers(world) : JobOf(world, id).owner = e}
                    /\ world.owned[e] # {} =>
                         IF e \in Player THEN world.body[e] # "out"
                         ELSE e <= Len(world.npcs) /\ world.npcs[e].state = "dying"
  BY DEF JobsHaveOwners
<1>1. Base(world, fired)
  BY DEF SimInv, Owing
<1>2. /\ world \in WorldState
      /\ world.owned[e] = {id \in Timers(world) : JobOf(world, id).owner = e}
      /\ \A x \in Timers(world) : InWorld(world, JobOf(world, x).owner)
  BY <1>1, BaseParts
<1>3. ASSUME world.owned[e] # {}
      PROVE  IF e \in Player THEN world.body[e] # "out"
             ELSE e <= Len(world.npcs) /\ world.npcs[e].state = "dying"
  <2>1. PICK x \in Timers(world) : JobOf(world, x).owner = e
    BY <1>2, <1>3
  <2>2. InWorld(world, e)
    BY <1>2, <2>1
  <2>3. CASE e \in Player
    BY <2>2, <2>3 DEF InWorld
  <2>4. CASE e \notin Player
    <3>1. e \in Npc
      BY <2>4 DEF Entity
    <3>2. e \in DOMAIN world.npcs /\ world.npcs[e].state = "dying"
      BY <2>2, <3>1 DEF InWorld
    <3>3. e \in 1 .. Len(world.npcs) /\ Len(world.npcs) \in Nat
      BY <1>2, <3>2, NpcsOf
    <3> QED
      BY <2>4, <3>2, <3>3
  <2> QED
    BY <2>3, <2>4
<1> QED
  BY <1>2, <1>3

LEMMA TimersFollow ==
  SimInv => ActionsAreTimed
<1> SUFFICES ASSUME SimInv, NEW id \in Ids(world.actions)
             PROVE  \/ Coming("advance", id) = 1
                    \/ world.refused /\ Coming("advance", id) = 0
  BY DEF ActionsAreTimed
<1>1. Base(world, fired) /\ (world.refused \/ IsComing(world, fired, "advance", id))
  BY DEF SimInv, Owing, Timed
<1>2. Coming("advance", id) = IF IsComing(world, fired, "advance", id) THEN 1 ELSE 0
  BY <1>1, ComingOnce
<1> QED
  BY <1>1, <1>2

LEMMA ActingFollows ==
  SimInv => OnlyTheLivingAct
<1> SUFFICES ASSUME SimInv PROVE OnlyTheLivingAct
  OBVIOUS
<1>1. Acting(world)
  BY BaseParts DEF SimInv, Owing
<1> QED
  BY <1>1 DEF Acting, OnlyTheLivingAct, ActiveOf

LEMMA PopulationFollows ==
  SimInv => PopulationIsKept
<1> DEFINE Bodies(h, s) == {n \in DOMAIN world.npcs : world.npcs[n] = [home |-> h, state |-> s]}
           Pending(h) == {id \in Ids(world.spawns) : Item(world.spawns, id).home = h}
<1> SUFFICES ASSUME SimInv, ~world.refused, NEW h \in Home
             PROVE  /\ Cardinality(Bodies(h, "alive")) + Cardinality(Pending(h)) = 1
                    /\ Cardinality(Bodies(h, "alive") \cup Bodies(h, "dying")) <= 1
                    /\ \A id \in Pending(h) : Coming("spawn", id) = 1
                    /\ \A n \in Bodies(h, "dying") : Coming("despawn", n) = 1
  BY DEF PopulationIsKept
<1>1. /\ Base(world, fired) /\ Asked(world, fired, Ids(world.spawns))
      /\ Corpses(world, fired, Dying(world)) /\ Populated(world, fired)
  BY DEF SimInv, Owing, Rest
<1>2. world \in WorldState
  BY <1>1, BaseParts
<1>3. \A n \in DOMAIN world.npcs :
        world.npcs[n] = [home |-> world.npcs[n].home, state |-> world.npcs[n].state]
  BY <1>2, NpcsOf
<1>4. ASSUME NEW s
      PROVE  \A n : n \in Bodies(h, s) <=>
               n \in DOMAIN world.npcs /\ world.npcs[n].home = h /\ world.npcs[n].state = s
  BY <1>3
<1>5. \A id : id \in Pending(h) <=> id \in Ids(world.spawns) /\ HomeOf(world, id) = h
  BY DEF HomeOf
<1> HIDE DEF Bodies, Pending
<1>6. /\ \A n, m \in DOMAIN world.npcs :
           world.npcs[n].state # "gone" /\ world.npcs[m].state # "gone"
             /\ world.npcs[n].home = world.npcs[m].home => n = m
      /\ \A a, b \in Ids(world.spawns) : HomeOf(world, a) = HomeOf(world, b) => a = b
      /\ \A n \in AliveNpcs(world), a \in Ids(world.spawns) :
           world.npcs[n].home # HomeOf(world, a)
      /\ \/ \E n \in AliveNpcs(world) : world.npcs[n].home = h
         \/ \E a \in Ids(world.spawns) : HomeOf(world, a) = h
  BY <1>1 DEF Populated
<1>7. \A n, m \in Bodies(h, "alive") : n = m
  BY <1>4, <1>6
<1>8. \A a, b \in Pending(h) : a = b
  BY <1>5, <1>6
<1>9. Bodies(h, "alive") = {} <=> Pending(h) # {}
  BY <1>4, <1>5, <1>6 DEF AliveNpcs
<1>10. \A n, m \in Bodies(h, "alive") \cup Bodies(h, "dying") : n = m
  BY <1>4, <1>6
<1>11. Cardinality(Bodies(h, "alive")) + Cardinality(Pending(h)) = 1
  <2>1. Cardinality(Bodies(h, "alive")) = IF Bodies(h, "alive") = {} THEN 0 ELSE 1
    BY <1>7, AtMostOne
  <2>2. Cardinality(Pending(h)) = IF Pending(h) = {} THEN 0 ELSE 1
    BY <1>8, AtMostOne
  <2> QED
    BY <1>9, <2>1, <2>2
<1>12. Cardinality(Bodies(h, "alive") \cup Bodies(h, "dying")) <= 1
  <2> DEFINE S == Bodies(h, "alive") \cup Bodies(h, "dying")
  <2>1. Cardinality(S) = IF S = {} THEN 0 ELSE 1
    <3>1. \A n, m \in S : n = m
      BY <1>10
    <3> HIDE DEF S
    <3> QED
      BY <3>1, AtMostOne
  <2> HIDE DEF S
  <2>2. Cardinality(S) <= 1
    BY <2>1
  <2> QED
    BY <2>2 DEF S
<1>13. ASSUME NEW id \in Pending(h) PROVE Coming("spawn", id) = 1
  <2>1. IsComing(world, fired, "spawn", id)
    BY <1>1, <1>5 DEF Asked
  <2>2. Coming("spawn", id) = IF IsComing(world, fired, "spawn", id) THEN 1 ELSE 0
    BY <1>1, ComingOnce
  <2> QED
    BY <2>1, <2>2
<1>14. ASSUME NEW n \in Bodies(h, "dying") PROVE Coming("despawn", n) = 1
  <2>1. IsComing(world, fired, "despawn", n)
    BY <1>1, <1>4 DEF Corpses, Dying
  <2>2. Coming("despawn", n) = IF IsComing(world, fired, "despawn", n) THEN 1 ELSE 0
    BY <1>1, ComingOnce
  <2> QED
    BY <2>1, <2>2
<1> QED
  BY <1>11, <1>12, <1>13, <1>14

(* The tables of timers, actions and replacements agree with one another    *)
(* and with the world, for any players, abilities, capacities and budgets.  *)
THEOREM RuntimeStaysSound == SimSpec => []RuntimeIsSound
<1>1. SimInv => RuntimeIsSound
  BY TypesFollow, SlotsFollow, OwnersFollow, TimersFollow, ActingFollows DEF RuntimeIsSound
<1> QED
  BY <1>1, SimInvariance, PTL

(* Each home keeps its one monster.                                         *)
THEOREM PopulationStays == SimSpec => []PopulationIsKept
BY PopulationFollows, SimInvariance, PTL
=============================================================================
