----------------------------- MODULE PersistWorker -----------------------------
(***************************************************************************)
(* The persistence worker and its shutdown                                 *)
(* (apps/server/src/network/persist.rs).                                   *)
(*                                                                         *)
(* The gameplay thread hands snapshots over without waiting: the queue     *)
(* takes one, or it is parked as the latest of its character.  Connection  *)
(* tasks wait for room in the queue.  The worker thread runs one job at a  *)
(* time and then writes what is parked.  Shutdown drains the queue, writes *)
(* what is parked and releases the channel, within a deadline after which  *)
(* the stop flag is up.  Between a look at the flag and the write it       *)
(* admits, the flag may rise.                                              *)
(***************************************************************************)
EXTENDS Integers, Sequences, FiniteSets

CONSTANTS
  Character,    \* the characters that are saved
  QueueCap,     \* capacity of the worker's queue
  MaxRevision   \* bound: snapshots of one character

ASSUME WorkerAssumption ==
  /\ QueueCap \in Nat \ {0}
  /\ MaxRevision \in Nat

VARIABLES
  revision,   \* the last snapshot taken of every character
  handed,     \* the last one that try_save_leased was given
  parking,    \* snapshots the gameplay thread found no room for
  awaiting,   \* logout snapshots waiting for room in the queue
  queue,      \* jobs
  parked,     \* SharedSaveState.latest; 0 is none
  worker,     \* where the worker thread is
  flushing,   \* parked snapshots the worker has taken
  attempted,  \* the snapshots of every character that a write was tried for
  discarded,  \* logout snapshots taken from the queue and not tried
  shutdown,   \* PersistenceHandle::shutdown
  stop,       \* stop_writer
  released,   \* the channel release was tried
  late        \* writes and releases that began after the flag was up

vars == <<revision, handed, parking, awaiting, queue, parked, worker, flushing,
          attempted, discarded, shutdown, stop, released, late>>
-----------------------------------------------------------------------------
Snapshot == [character : Character, revision : Nat]

Job == [op : {"save", "awaited"}, snapshot : Snapshot]
         \cup [op : {"other", "shutdown"}]

OtherJob == [op |-> "other"]

SaveJob(s) == [op |-> "save", snapshot |-> s]

(* "run" has a job that passed the look at the flag, "write" a snapshot.   *)
(* after says where the worker goes on: its loop, the drain, the end of    *)
(* the shutdown, or the flush after the loop.                              *)
Worker ==
  [stage : {"recv", "run", "drain", "flush", "flushing", "write", "release",
            "releasing", "reply", "final", "ended"},
   after : {"loop", "drain", "shutdown", "final"},
   job : Job]

At(stage, after) == [stage |-> stage, after |-> after, job |-> OtherJob]

TypeOK ==
  /\ revision \in [Character -> Nat]
  /\ handed \in [Character -> Nat]
  /\ parking \subseteq Snapshot
  /\ awaiting \subseteq Snapshot
  /\ queue \in Seq(Job)
  /\ Len(queue) <= QueueCap
  /\ parked \in [Character -> Nat]
  /\ worker \in Worker
  /\ flushing \subseteq Snapshot
  /\ attempted \in [Character -> SUBSET Nat]
  /\ discarded \subseteq Snapshot
  /\ shutdown \in {"open", "sending", "waiting", "drained", "timed_out"}
  /\ stop \in BOOLEAN
  /\ released \in BOOLEAN
  /\ late \in Nat

Init ==
  /\ revision = [c \in Character |-> 0]
  /\ handed = [c \in Character |-> 0]
  /\ parking = {}
  /\ awaiting = {}
  /\ queue = <<>>
  /\ parked = [c \in Character |-> 0]
  /\ worker = At("recv", "loop")
  /\ flushing = {}
  /\ attempted = [c \in Character |-> {}]
  /\ discarded = {}
  /\ shutdown = "open"
  /\ stop = FALSE
  /\ released = FALSE
  /\ late = 0
-----------------------------------------------------------------------------
(***************************************************************************)
(* The gameplay thread.  It makes no handoff while it parks a snapshot and *)
(* none once it waits for the shutdown.                                    *)
(***************************************************************************)
(* Mutant: the queue is not bounded.                                       *)
Room_Unbounded == worker.stage # "ended"

(* The bounded queue takes a job; it is closed once the worker has ended.  *)
Room == Len(queue) < QueueCap /\ worker.stage # "ended"

(* try_save_leased up to the answer of the queue.                          *)
Handoff(c) ==
  LET snapshot == [character |-> c, revision |-> revision[c] + 1] IN
  /\ shutdown = "open"
  /\ parking = {}
  /\ revision[c] < MaxRevision
  /\ revision' = [revision EXCEPT ![c] = @ + 1]
  /\ handed' = [handed EXCEPT ![c] = revision[c] + 1]
  /\ \/ /\ Room
        /\ queue' = Append(queue, SaveJob(snapshot))
        /\ UNCHANGED parking
     \/ /\ ~Room
        /\ parking' = {snapshot}
        /\ UNCHANGED queue
  /\ UNCHANGED <<awaiting, parked, worker, flushing, attempted, discarded,
                 shutdown, stop, released, late>>

(* Mutant: the first parked snapshot stays.                                *)
Park_KeepsFirst ==
  \E s \in parking :
    /\ parked' = [parked EXCEPT ![s.character] = IF @ = 0 THEN s.revision ELSE @]
    /\ parking' = {}
    /\ UNCHANGED <<revision, handed, awaiting, queue, worker, flushing,
                   attempted, discarded, shutdown, stop, released, late>>

(* The rest of try_save_leased: the newer snapshot of a character stays.   *)
Park ==
  \E s \in parking :
    /\ parked' = [parked EXCEPT ![s.character] =
                    IF s.revision > @ THEN s.revision ELSE @]
    /\ parking' = {}
    /\ UNCHANGED <<revision, handed, awaiting, queue, worker, flushing,
                   attempted, discarded, shutdown, stop, released, late>>

(* finish_shutdown, once flush_persistent_snapshots has handed everything. *)
CallShutdown ==
  /\ shutdown = "open"
  /\ parking = {}
  /\ shutdown' = "sending"
  /\ UNCHANGED <<revision, handed, parking, awaiting, queue, parked, worker,
                 flushing, attempted, discarded, stop, released, late>>

(* The deadline covers the wait for room and the wait for the reply.       *)
ShutdownTimesOut ==
  /\ shutdown \in {"sending", "waiting"}
  /\ shutdown' = "timed_out"
  /\ stop' = TRUE
  /\ UNCHANGED <<revision, handed, parking, awaiting, queue, parked, worker,
                 flushing, attempted, discarded, released, late>>

EnqueueShutdown ==
  /\ shutdown = "sending"
  /\ Room
  /\ queue' = Append(queue, [op |-> "shutdown"])
  /\ shutdown' = "waiting"
  /\ UNCHANGED <<revision, handed, parking, awaiting, parked, worker, flushing,
                 attempted, discarded, stop, released, late>>
-----------------------------------------------------------------------------
(***************************************************************************)
(* Connection tasks.                                                       *)
(***************************************************************************)
(* save_leased: the snapshot prepare_logout returned.                      *)
SaveAwaited(c) ==
  /\ shutdown = "open"
  /\ parking = {}
  /\ revision[c] < MaxRevision
  /\ revision' = [revision EXCEPT ![c] = @ + 1]
  /\ awaiting' = awaiting \cup {[character |-> c, revision |-> revision[c] + 1]}
  /\ UNCHANGED <<handed, parking, queue, parked, worker, flushing, attempted,
                 discarded, shutdown, stop, released, late>>

EnqueueAwaited ==
  /\ Room
  /\ \E s \in awaiting :
       /\ queue' = Append(queue, [op |-> "awaited", snapshot |-> s])
       /\ awaiting' = awaiting \ {s}
  /\ UNCHANGED <<revision, handed, parking, parked, worker, flushing, attempted,
                 discarded, shutdown, stop, released, late>>

(* Every other command of a connection, a commit or a renewal.             *)
EnqueueOther ==
  /\ Room
  /\ queue' = Append(queue, OtherJob)
  /\ UNCHANGED <<revision, handed, parking, awaiting, parked, worker, flushing,
                 attempted, discarded, shutdown, stop, released, late>>
-----------------------------------------------------------------------------
(***************************************************************************)
(* The worker thread: run_worker and flush_deferred_latest.                *)
(***************************************************************************)
Ended == At("ended", "final")

Writing(after, s) == [stage |-> "write", after |-> after, job |-> SaveJob(s)]

(* Where the worker goes on when the parked snapshots are dealt with.      *)
Flushed(after) ==
  CASE after = "loop" -> At("recv", "loop")
    [] after = "shutdown" -> At("release", "shutdown")
    [] after = "final" -> Ended

Late == late + (IF stop THEN 1 ELSE 0)

Attempt(s) ==
  /\ attempted' = [attempted EXCEPT ![s.character] = @ \cup {s.revision}]
  /\ late' = Late

(* A job is taken and the flag looked at.                                  *)
Receive ==
  /\ worker.stage = "recv"
  /\ queue # <<>>
  /\ queue' = Tail(queue)
  /\ worker' = IF stop THEN Ended
               ELSE [stage |-> "run", after |-> "loop", job |-> Head(queue)]
  /\ UNCHANGED <<revision, handed, parking, awaiting, parked, flushing,
                 attempted, discarded, shutdown, stop, released, late>>

RunSave ==
  /\ worker.stage = "run"
  /\ worker.job.op \in {"save", "awaited"}
  /\ Attempt(worker.job.snapshot)
  /\ worker' = At("flush", "loop")
  /\ UNCHANGED <<revision, handed, parking, awaiting, queue, parked, flushing,
                 discarded, shutdown, stop, released>>

(* Mutant: parked snapshots wait for the next save.                        *)
RunOther_NoFlush ==
  /\ worker.stage = "run"
  /\ worker.job.op = "other"
  /\ worker' = At("recv", "loop")
  /\ UNCHANGED <<revision, handed, parking, awaiting, queue, parked, flushing,
                 attempted, discarded, shutdown, stop, released, late>>

RunOther ==
  /\ worker.stage = "run"
  /\ worker.job.op = "other"
  /\ worker' = At("flush", "loop")
  /\ UNCHANGED <<revision, handed, parking, awaiting, queue, parked, flushing,
                 attempted, discarded, shutdown, stop, released, late>>

RunShutdown ==
  /\ worker.stage = "run"
  /\ worker.job.op = "shutdown"
  /\ worker' = At("drain", "shutdown")
  /\ UNCHANGED <<revision, handed, parking, awaiting, queue, parked, flushing,
                 attempted, discarded, shutdown, stop, released, late>>

(* Shutdown takes what is queued; it writes the snapshots of Save commands *)
(* and drops every other command, and with it the channel of its reply.    *)
Drain ==
  /\ worker.stage = "drain"
  /\ queue # <<>>
  /\ queue' = Tail(queue)
  /\ LET job == Head(queue) IN
     /\ worker' = CASE stop -> Ended
                    [] ~stop /\ job.op = "save" -> Writing("drain", job.snapshot)
                    [] OTHER -> worker
     /\ discarded' = IF job.op = "awaited" THEN discarded \cup {job.snapshot}
                     ELSE discarded
  /\ UNCHANGED <<revision, handed, parking, awaiting, parked, flushing,
                 attempted, shutdown, stop, released, late>>

Drained ==
  /\ worker.stage = "drain"
  /\ queue = <<>>
  /\ worker' = IF stop THEN Ended ELSE At("flush", "shutdown")
  /\ UNCHANGED <<revision, handed, parking, awaiting, queue, parked, flushing,
                 attempted, discarded, shutdown, stop, released, late>>

TakeParked ==
  /\ worker.stage = "flush"
  /\ flushing' = {[character |-> c, revision |-> parked[c]] :
                    c \in {d \in Character : parked[d] # 0}}
  /\ parked' = [c \in Character |-> 0]
  /\ worker' = At("flushing", worker.after)
  /\ UNCHANGED <<revision, handed, parking, awaiting, queue, attempted,
                 discarded, shutdown, stop, released, late>>

(* Mutant: the flag is looked at once for all parked snapshots.            *)
FlushNext_Unchecked ==
  /\ worker.stage = "flushing"
  /\ \E s \in flushing :
       /\ flushing' = flushing \ {s}
       /\ worker' = Writing(worker.after, s)
  /\ UNCHANGED <<revision, handed, parking, awaiting, queue, parked, attempted,
                 discarded, shutdown, stop, released, late>>

FlushNext ==
  /\ worker.stage = "flushing"
  /\ ~stop
  /\ \E s \in flushing :
       /\ flushing' = flushing \ {s}
       /\ worker' = Writing(worker.after, s)
  /\ UNCHANGED <<revision, handed, parking, awaiting, queue, parked, attempted,
                 discarded, shutdown, stop, released, late>>

FlushEnds ==
  /\ worker.stage = "flushing"
  /\ flushing = {} \/ stop
  /\ flushing' = {}
  /\ worker' = Flushed(worker.after)
  /\ UNCHANGED <<revision, handed, parking, awaiting, queue, parked, attempted,
                 discarded, shutdown, stop, released, late>>

(* save_snapshot_observed of a drained or a parked snapshot.               *)
Write ==
  /\ worker.stage = "write"
  /\ Attempt(worker.job.snapshot)
  /\ worker' = IF worker.after = "drain" THEN At("drain", "shutdown")
               ELSE At("flushing", worker.after)
  /\ UNCHANGED <<revision, handed, parking, awaiting, queue, parked, flushing,
                 discarded, shutdown, stop, released>>

AdmitRelease ==
  /\ worker.stage = "release"
  /\ worker' = IF stop THEN Ended ELSE At("releasing", "shutdown")
  /\ UNCHANGED <<revision, handed, parking, awaiting, queue, parked, flushing,
                 attempted, discarded, shutdown, stop, released, late>>

ReleaseChannel ==
  /\ worker.stage = "releasing"
  /\ released' = TRUE
  /\ late' = Late
  /\ worker' = At("reply", "shutdown")
  /\ UNCHANGED <<revision, handed, parking, awaiting, queue, parked, flushing,
                 attempted, discarded, shutdown, stop>>

(* The answer reaches a caller that still waits.                           *)
Reply ==
  /\ worker.stage = "reply"
  /\ shutdown' = IF shutdown = "waiting" THEN "drained" ELSE shutdown
  /\ worker' = At("final", "final")
  /\ UNCHANGED <<revision, handed, parking, awaiting, queue, parked, flushing,
                 attempted, discarded, stop, released, late>>

(* The loop has ended; what was parked meanwhile is written.               *)
FinalFlush ==
  /\ worker.stage = "final"
  /\ worker' = IF stop THEN Ended ELSE At("flush", "final")
  /\ UNCHANGED <<revision, handed, parking, awaiting, queue, parked, flushing,
                 attempted, discarded, shutdown, stop, released, late>>
-----------------------------------------------------------------------------
WorkerStep ==
  \/ Receive
  \/ RunSave
  \/ RunOther
  \/ RunShutdown
  \/ Drain
  \/ Drained
  \/ TakeParked
  \/ FlushNext
  \/ FlushEnds
  \/ Write
  \/ AdmitRelease
  \/ ReleaseChannel
  \/ Reply
  \/ FinalFlush

Next ==
  \/ \E c \in Character : Handoff(c) \/ SaveAwaited(c)
  \/ Park
  \/ CallShutdown
  \/ ShutdownTimesOut
  \/ EnqueueShutdown
  \/ EnqueueAwaited
  \/ EnqueueOther
  \/ WorkerStep

Spec == Init /\ [][Next]_vars

(* The worker thread runs, the gameplay thread finishes a handoff, the     *)
(* queue goes on to receive renewals, and the deadline of a shutdown comes *)
(* (other commands could keep its drain busy for ever).                    *)
FairSpec ==
  /\ Spec
  /\ WF_vars(WorkerStep)
  /\ WF_vars(Park)
  /\ WF_vars(EnqueueOther)
  /\ WF_vars(ShutdownTimesOut)
-----------------------------------------------------------------------------
(***************************************************************************)
(* Properties                                                              *)
(***************************************************************************)
(* Once a shutdown has timed out, at most one write or channel release     *)
(* still begins: the one whose look at the flag came before.               *)
AtMostOneLate == late <= 1

(* The channel is released, and the caller told "drained", only after a    *)
(* write was tried for the last snapshot handed over of every character,   *)
(* whichever way it went.                                                  *)
ReleasedAfterSaves ==
  released \/ shutdown = "drained" =>
    \A c \in Character :
      handed[c] = 0 \/ \E r \in attempted[c] : r >= handed[c]

(* A snapshot that was handed over is tried, or a newer one of its         *)
(* character is, unless a shutdown gives up waiting.                       *)
HandedIsTried ==
  \A c \in Character : \A n \in 1..MaxRevision :
    handed[c] = n ~>
      (stop \/ \E r \in attempted[c] : r >= n)

(* PersistenceShutdown::Drained: "The worker finished the queued           *)
(* snapshots."                                                             *)
DrainedFinishedSnapshots == shutdown = "drained" => discarded = {}
=============================================================================
