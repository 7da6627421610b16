---------------------------- MODULE DurableCommands ----------------------------
(***************************************************************************)
(* Durable gameplay commands of one character in one session: a drop, a    *)
(* pickup, an equipment change or a dialogue choice is committed by the    *)
(* persistence worker before World changes, while portal and health        *)
(* snapshots of the same character go through the same worker.             *)
(*                                                                         *)
(*   - the owner: staging, submission, settlement, reconcile, departure    *)
(*     (apps/server/src/network/durable_owner_methods.rs, gameplay.rs);    *)
(*   - the tasks that carry a command to the worker (network/mod.rs);      *)
(*   - the worker, its queue and its parked snapshots (network/persist.rs);*)
(*   - the transactions (crates/persistence/src/postgres.rs).              *)
(*                                                                         *)
(* The owner stages one command at a time and every expected revision is   *)
(* that of the acting character, so one character is followed; the work of *)
(* everyone else only occupies the queue.                                  *)
(***************************************************************************)
EXTENDS Integers, Sequences, FiniteSets, FiniteSetsExt

CONSTANTS
  MaxCommands,  \* bound: commands staged in the session
  QueueCap,     \* capacity of the worker's queue
  MaxSaves,     \* bound: snapshots requested before the character leaves
  MaxLost,      \* bound: commits whose outcome stays unknown
  MaxFailures   \* bound: saves that fail, restores that do not apply

ASSUME DurableAssumption ==
  /\ MaxCommands \in Nat
  /\ QueueCap \in Nat \ {0}
  /\ MaxSaves \in Nat
  /\ MaxLost \in Nat
  /\ MaxFailures \in Nat

VARIABLES
  binding,    \* PlayerBinding of the session
  command,    \* the DurablePending of the session and where it is
  reconcile,  \* the committed command World could not apply
  parking,    \* snapshot the owner found no room for and is about to park
  sending,    \* jobs of spawned tasks waiting for room in the queue
  queue,      \* the worker's queue
  parked,     \* SharedSaveState.latest of the character
  worker,     \* the worker takes a job, then flushes the parked snapshot
  reports,    \* SharedSaveState.save_reports of the character
  answer,     \* SettleDurable waiting for the owner
  store,      \* the database
  world,      \* the commands whose effect World shows
  told,       \* what the player was told of every command
  used        \* how much of every bound the behaviour has used

vars == <<binding, command, reconcile, parking, sending, queue, parked, worker,
          reports, answer, store, world, told, used>>
-----------------------------------------------------------------------------
Token == 1..MaxCommands

(* A "once" command (a drop, a pickup, a reward, a hand-in) conflicts with *)
(* its own effect.  A "settled" one (an equipment change, a narrative      *)
(* write) leaves the same rows when it runs again.                         *)
Kind == {"once", "settled"}

(* The key of a command is its expected revision and what it does.         *)
Key == [revision : Nat, kind : Kind]

Command == [token : Nat, key : Key, at : {"none", "outbound", "worker", "retry"}]

NoCommand ==
  [token |-> 0, key |-> [revision |-> 0, kind |-> "once"], at |-> "none"]

Snapshot == [revision : Nat, place : Nat]

(* Revisions of real snapshots start at 1.                                 *)
NoSnapshot == [revision |-> 0, place |-> 0]

SaveJob(op, snapshot) == [op |-> op, snapshot |-> snapshot]

CommitJob(c) == [op |-> "commit", token |-> c.token, key |-> c.key]

ReadJob == [op |-> "read"]

OtherJob == [op |-> "other"]

Job == [op : {"save", "logout"}, snapshot : Snapshot]
         \cup [op : {"commit"}, token : Nat, key : Key]
         \cup [op : {"read", "other"}]

Answer == [result : {"none", "ok", "refused", "unknown"}, revision : Nat]

NoAnswer == [result |-> "none", revision |-> 0]

Refused == [result |-> "refused", revision |-> 0]

Unknown == [result |-> "unknown", revision |-> 0]

Binding ==
  [in : BOOLEAN, lost : BOOLEAN, persistence : Nat, committed : Nat,
   queued : SUBSET Nat, deferred : Nat, place : Nat, pending : BOOLEAN,
   uncertain : BOOLEAN, detach : BOOLEAN]

Reconcile ==
  [stage : {"none", "wanted", "reading", "read", "stuck"}, token : Nat,
   revision : Nat, restored : SUBSET Token]

NoReconcile == [stage |-> "none", token |-> 0, revision |-> 0, restored |-> {}]

Store ==
  [revision : Nat, recorded : Nat, place : Nat, keys : SUBSET Key,
   executed : SUBSET Token]

Used == [commands : Nat, saves : Nat, lost : Nat, failures : Nat]

TypeOK ==
  /\ binding \in Binding
  /\ command \in Command
  /\ reconcile \in Reconcile
  /\ parking \in Snapshot
  /\ sending \subseteq Job
  /\ queue \in Seq(Job)
  /\ Len(queue) <= QueueCap
  /\ parked \in Snapshot
  /\ worker \in {"idle", "flush"}
  /\ reports \subseteq [revision : Nat, committed : BOOLEAN]
  /\ answer \in Answer
  /\ store \in Store
  /\ world \subseteq Token
  /\ told \in [Token -> {"nothing", "accepted", "rejected"}]
  /\ used \in Used

Init ==
  /\ binding = [in |-> TRUE, lost |-> FALSE, persistence |-> 1,
                committed |-> 1, queued |-> {}, deferred |-> 0, place |-> 0,
                pending |-> FALSE, uncertain |-> FALSE, detach |-> FALSE]
  /\ command = NoCommand
  /\ reconcile = NoReconcile
  /\ parking = NoSnapshot
  /\ sending = {}
  /\ queue = <<>>
  /\ parked = NoSnapshot
  /\ worker = "idle"
  /\ reports = {}
  /\ answer = NoAnswer
  /\ store = [revision |-> 1, recorded |-> 1, place |-> 0, keys |-> {},
              executed |-> {}]
  /\ world = {}
  /\ told = [t \in Token |-> "nothing"]
  /\ used = [commands |-> 0, saves |-> 0, lost |-> 0, failures |-> 0]
-----------------------------------------------------------------------------
(***************************************************************************)
(* The owner's view of its snapshots.  A handoff never raises the          *)
(* committed revision; only a report of the worker does.                   *)
(***************************************************************************)
Later(a, b) == IF a > b THEN a ELSE b

(* adopt_snapshot_reports: the binding once every report is taken.         *)
Adopted(b) ==
  LET revisions == {r.revision : r \in reports}
      newest == Max({b.committed} \cup
                    {r.revision : r \in {q \in reports : q.committed}})
  IN IF ~b.in THEN b
     ELSE [b EXCEPT !.queued = @ \ revisions,
                    !.deferred = IF @ \in revisions THEN 0 ELSE @,
                    !.committed = newest,
                    !.persistence = Later(@, newest)]

(* Mutant: parked snapshots are forgotten.                                 *)
SnapshotAhead_QueuedOnly(b) == \E r \in b.queued : r > b.committed

(* snapshot_ahead: a snapshot the worker has not confirmed is newer than   *)
(* everything known to be committed.                                       *)
SnapshotAhead(b) ==
  \/ b.deferred > b.committed
  \/ \E r \in b.queued : r > b.committed

NextSnapshot(b) == [revision |-> b.persistence + 1, place |-> b.place]

(* Mutant: acceptance by the queue counts as a commit.                     *)
Handoff_Commits(b, snapshot) ==
  \/ /\ Len(queue) < QueueCap
     /\ queue' = Append(queue, SaveJob("save", snapshot))
     /\ binding' = IF b.in
                   THEN [b EXCEPT !.committed = snapshot.revision]
                   ELSE b
     /\ UNCHANGED parking
  \/ /\ Len(queue) >= QueueCap
     /\ parking' = snapshot
     /\ binding' = b
     /\ UNCHANGED queue

(* try_save_leased and note_snapshot_admission: the queue takes the        *)
(* snapshot, or the owner turns to parking it.  b is the binding the       *)
(* caller leaves; a departed character is no longer noted.                 *)
Handoff(b, snapshot) ==
  \/ /\ Len(queue) < QueueCap
     /\ queue' = Append(queue, SaveJob("save", snapshot))
     /\ binding' = IF b.in
                   THEN [b EXCEPT !.queued = @ \cup {snapshot.revision}]
                   ELSE b
     /\ UNCHANGED parking
  \/ /\ Len(queue) >= QueueCap
     /\ parking' = snapshot
     /\ binding' = b
     /\ UNCHANGED queue

(* unlink with a save: the character leaves World under the next revision. *)
LeaveWorld(b) ==
  LET gone == [b EXCEPT !.in = FALSE, !.detach = FALSE] IN
  IF b.lost
    THEN binding' = gone /\ UNCHANGED <<queue, parking>>
    ELSE Handoff(gone, NextSnapshot(b))

(* finish_durable: adopt the revision, and leave if a logout waited.       *)
FinishDurable(revision) ==
  LET b == [binding EXCEPT !.persistence = Later(@, revision),
                           !.committed = Later(@, revision),
                           !.uncertain = FALSE,
                           !.pending = FALSE]
  IN IF b.detach THEN LeaveWorld(b)
     ELSE binding' = b /\ UNCHANGED <<queue, parking>>
-----------------------------------------------------------------------------
(***************************************************************************)
(* The owner.  It is one thread: it does nothing else while it is parking  *)
(* a snapshot.                                                             *)
(***************************************************************************)
OwnerFree == parking = NoSnapshot

(* player_actions_blocked, but for the deadlines that CharacterLease has.  *)
ActionsBlocked ==
  \/ binding.lost
  \/ binding.uncertain
  \/ reconcile.stage # "none"

(* stage_drop, stage_pickup, stage_equipment, stage_dialogue, stage_heard: *)
(* reports are adopted first, and the command expects what they commit.    *)
Stage(kind) ==
  /\ OwnerFree
  /\ binding.in
  /\ ~ActionsBlocked
  /\ ~binding.pending
  /\ used.commands < MaxCommands
  /\ binding' = [Adopted(binding) EXCEPT !.pending = TRUE]
  /\ reports' = {}
  /\ used' = [used EXCEPT !.commands = @ + 1]
  /\ command' = [token |-> used.commands + 1,
                 key |-> [revision |-> binding'.committed, kind |-> kind],
                 at |-> "outbound"]
  /\ UNCHANGED <<reconcile, parking, sending, queue, parked, worker, answer,
                 store, world, told>>

(* take_durable_commits hands over a command that waits, first or again,   *)
(* once no snapshot is ahead of it; align_stored_command moves its key to  *)
(* the revision adopted since.                                             *)
SubmitCommit ==
  LET b == Adopted(binding)
      aligned == [command EXCEPT !.at = "worker",
                                 !.key.revision = Later(@, b.committed)]
  IN /\ OwnerFree
     /\ command.at \in {"outbound", "retry"}
     /\ ~SnapshotAhead(b)
     /\ binding' = b
     /\ reports' = {}
     /\ command' = aligned
     /\ sending' = sending \cup {CommitJob(aligned)}
     /\ UNCHANGED <<reconcile, parking, queue, parked, worker, answer, store,
                    world, told, used>>

(* take_durable_commits with nothing to hand over.                         *)
AdoptReports ==
  /\ OwnerFree
  /\ reports # {}
  /\ binding' = Adopted(binding)
  /\ reports' = {}
  /\ UNCHANGED <<command, reconcile, parking, sending, queue, parked, worker,
                 answer, store, world, told, used>>

(* request_save after a portal, which moves the character, or after a      *)
(* change of health.  A player whose actions are blocked takes no portal.  *)
RequestSave ==
  /\ OwnerFree
  /\ binding.in
  /\ used.saves < MaxSaves
  /\ used' = [used EXCEPT !.saves = @ + 1]
  /\ \E place \in {binding.place} \cup
                    (IF ActionsBlocked THEN {} ELSE {binding.place + 1}) :
       LET b == [binding EXCEPT !.persistence = @ + 1, !.place = place] IN
       IF b.lost
         THEN binding' = b /\ UNCHANGED <<queue, parking>>
         ELSE Handoff(b, [revision |-> b.persistence, place |-> place])
  /\ UNCHANGED <<command, reconcile, sending, parked, worker, reports, answer,
                 store, world, told>>

(* Mutant: a parked snapshot is not replaced by a newer one.               *)
Park_KeepsFirst ==
  /\ ~OwnerFree
  /\ parked' = IF parked = NoSnapshot THEN parking ELSE parked
  /\ binding' = IF binding.in
                THEN [binding EXCEPT !.deferred = parked'.revision]
                ELSE binding
  /\ parking' = NoSnapshot
  /\ UNCHANGED <<command, reconcile, sending, queue, worker, reports, answer,
                 store, world, told, used>>

(* The rest of try_save_leased after the queue was full.  The worker may   *)
(* have emptied the queue and flushed in between.                          *)
Park ==
  /\ ~OwnerFree
  /\ parked' = IF parking.revision > parked.revision THEN parking ELSE parked
  /\ binding' = IF binding.in
                THEN [binding EXCEPT !.deferred = parked'.revision]
                ELSE binding
  /\ parking' = NoSnapshot
  /\ UNCHANGED <<command, reconcile, sending, queue, worker, reports, answer,
                 store, world, told, used>>

(* settle_durable, the outcome is unknown: control stops, and the command  *)
(* is submitted again after a pause.                                       *)
SettleUnknown ==
  /\ OwnerFree
  /\ answer.result = "unknown"
  /\ answer' = NoAnswer
  /\ binding' = [binding EXCEPT !.uncertain = TRUE]
  /\ command' = [command EXCEPT !.at = "retry"]
  /\ UNCHANGED <<reconcile, parking, sending, queue, parked, worker, reports,
                 store, world, told, used>>

(* settle_durable, fail_committed, abandon_staged: a definite refusal.     *)
SettleRefused ==
  /\ OwnerFree
  /\ answer.result = "refused"
  /\ answer' = NoAnswer
  /\ told' = [told EXCEPT ![command.token] = "rejected"]
  /\ command' = NoCommand
  /\ FinishDurable(binding.committed)
  /\ UNCHANGED <<reconcile, sending, parked, worker, reports, store, world,
                 used>>

(* settle_durable, apply_committed: World takes the effect, the player is  *)
(* told unless the authority is lost, and the revision is adopted.         *)
SettleCommitted ==
  /\ OwnerFree
  /\ answer.result = "ok"
  /\ answer' = NoAnswer
  /\ world' = world \cup {command.token}
  /\ told' = IF binding.lost THEN told
             ELSE [told EXCEPT ![command.token] = "accepted"]
  /\ command' = NoCommand
  /\ FinishDurable(answer.revision)
  /\ UNCHANGED <<reconcile, sending, parked, worker, reports, store, used>>

(* Mutant: a command World cannot apply is finished all the same.          *)
SettleUnapplied_Finishes ==
  /\ OwnerFree
  /\ answer.result = "ok"
  /\ used.failures < MaxFailures
  /\ used' = [used EXCEPT !.failures = @ + 1]
  /\ answer' = NoAnswer
  /\ command' = NoCommand
  /\ FinishDurable(answer.revision)
  /\ UNCHANGED <<reconcile, sending, parked, worker, reports, store, world,
                 told>>

(* apply_committed, queue_reconcile: World cannot take the effect, so the  *)
(* character is read back.                                                 *)
SettleUnapplied ==
  /\ OwnerFree
  /\ answer.result = "ok"
  /\ used.failures < MaxFailures
  /\ used' = [used EXCEPT !.failures = @ + 1]
  /\ answer' = NoAnswer
  /\ command' = NoCommand
  /\ reconcile' = [stage |-> "wanted", token |-> command.token,
                   revision |-> answer.revision, restored |-> {}]
  /\ UNCHANGED <<binding, parking, sending, queue, parked, worker, reports,
                 store, world, told>>

(* take_reconcile_jobs and the task that reads the committed character.    *)
TakeReconcileJobs ==
  /\ OwnerFree
  /\ reconcile.stage = "wanted"
  /\ reconcile' = [reconcile EXCEPT !.stage = "reading"]
  /\ sending' = sending \cup {ReadJob}
  /\ UNCHANGED <<binding, command, parking, queue, parked, worker, reports,
                 answer, store, world, told, used>>

(* complete_reconcile, acknowledge_reconciled.                             *)
CompleteReconcile ==
  /\ OwnerFree
  /\ reconcile.stage = "read"
  /\ world' = reconcile.restored
  /\ told' = [told EXCEPT ![reconcile.token] = "accepted"]
  /\ reconcile' = NoReconcile
  /\ FinishDurable(reconcile.revision)
  /\ UNCHANGED <<command, sending, parked, worker, reports, answer, store, used>>

(* complete_reconcile on a restore that does not apply leaves the          *)
(* character cleared and its control stopped; one whose committed drop     *)
(* cannot be placed is read again.                                         *)
ReconcileFails ==
  /\ OwnerFree
  /\ reconcile.stage = "read"
  /\ used.failures < MaxFailures
  /\ used' = [used EXCEPT !.failures = @ + 1]
  /\ \/ /\ world' = {}
        /\ reconcile' = [reconcile EXCEPT !.stage = "stuck"]
     \/ /\ world' = reconcile.restored
        /\ reconcile' = [reconcile EXCEPT !.stage = "wanted"]
  /\ UNCHANGED <<binding, command, parking, sending, queue, parked, worker,
                 reports, answer, store, told>>

LoseAuthority ==
  /\ OwnerFree
  /\ binding.in
  /\ ~binding.lost
  /\ binding' = [binding EXCEPT !.lost = TRUE]
  /\ UNCHANGED <<command, reconcile, parking, sending, queue, parked, worker,
                 reports, answer, store, world, told, used>>

(* detach: a durable command in progress keeps the character in World.     *)
Detach ==
  /\ OwnerFree
  /\ binding.in
  /\ IF binding.pending
       THEN /\ binding' = [binding EXCEPT !.detach = TRUE]
            /\ UNCHANGED <<queue, parking>>
       ELSE LeaveWorld(binding)
  /\ UNCHANGED <<command, reconcile, sending, parked, worker, reports, answer,
                 store, world, told, used>>

(* prepare_logout with nothing pending: the connection task awaits the     *)
(* save.  With a command pending it is detach.                             *)
Logout ==
  /\ OwnerFree
  /\ binding.in
  /\ ~binding.pending
  /\ ~binding.lost
  /\ binding' = [binding EXCEPT !.in = FALSE]
  /\ sending' = sending \cup {SaveJob("logout", NextSnapshot(binding))}
  /\ UNCHANGED <<command, reconcile, parking, queue, parked, worker, reports,
                 answer, store, world, told, used>>
-----------------------------------------------------------------------------
(***************************************************************************)
(* The database.                                                           *)
(***************************************************************************)
(* Mutant: any snapshot is written.                                        *)
Saved_Always(snapshot) ==
  [store EXCEPT !.revision = Later(@, snapshot.revision),
                !.recorded = Later(store.revision, snapshot.revision),
                !.place = snapshot.place]

(* save_restore: a newer snapshot is written; one at the current revision  *)
(* is written only if a command made that revision; an older one is not.   *)
Saved(snapshot) ==
  LET written == [store EXCEPT !.revision = snapshot.revision,
                               !.recorded = snapshot.revision,
                               !.place = snapshot.place]
  IN IF \/ snapshot.revision > store.revision
        \/ snapshot.revision = store.revision /\ store.recorded < store.revision
       THEN written
       ELSE store

(* commit: the answer of a stored key is the one it was stored with.       *)
Committed(key) == [result |-> "ok", revision |-> key.revision + 1]

(* Mutant: stored keys are not looked up.                                  *)
Stored_Never(key) == FALSE

(* stored_result_if_same finds the command under its key.                  *)
Stored(key) == key \in store.keys

(* apply_command of a key that is not stored: the revision it expects must *)
(* be the current one, and what it moves or fills must still be there.     *)
Applies(job) ==
  /\ ~Stored(job.key)
  /\ job.key.revision = store.revision
  /\ ~(job.key.kind = "once" /\ job.token \in store.executed)

Applied(job) ==
  [store EXCEPT !.revision = @ + 1,
                !.keys = @ \cup {job.key},
                !.executed = @ \cup {job.token}]

(* commit.  A command that applies may still be refused, by the content    *)
(* rules or by its lease; an outcome is unknown when the connection is     *)
(* lost, before or after the commit.                                       *)
ExecuteCommit(job) ==
  /\ \/ /\ Stored(job.key)
        /\ answer' = Committed(job.key)
        /\ UNCHANGED <<store, used>>
     \/ /\ Applies(job)
        /\ answer' = Committed(job.key)
        /\ store' = Applied(job)
        /\ UNCHANGED used
     \/ /\ ~Stored(job.key)
        /\ answer' = Refused
        /\ UNCHANGED <<store, used>>
     \/ /\ used.lost < MaxLost
        /\ used' = [used EXCEPT !.lost = @ + 1]
        /\ answer' = Unknown
        /\ store' \in {store} \cup (IF Applies(job) THEN {Applied(job)} ELSE {})
  /\ UNCHANGED <<reconcile, reports>>

(* save_snapshot_observed: a save that fails may have been written.        *)
ExecuteSave(snapshot) ==
  \/ /\ store' = Saved(snapshot)
     /\ reports' = reports \cup
                     {[revision |-> snapshot.revision, committed |-> TRUE]}
     /\ UNCHANGED used
  \/ /\ used.failures < MaxFailures
     /\ used' = [used EXCEPT !.failures = @ + 1]
     /\ store' \in {store, Saved(snapshot)}
     /\ reports' = reports \cup
                     {[revision |-> snapshot.revision, committed |-> FALSE]}

(* SaveAwaited of a logout, which is not reported.                         *)
ExecuteLogout(snapshot) ==
  /\ \/ /\ store' = Saved(snapshot)
        /\ UNCHANGED used
     \/ /\ used.failures < MaxFailures
        /\ used' = [used EXCEPT !.failures = @ + 1]
        /\ store' \in {store, Saved(snapshot)}
  /\ UNCHANGED <<answer, reconcile, reports>>

(* read_owned_restore.                                                     *)
ExecuteRead ==
  /\ reconcile' = [reconcile EXCEPT !.stage = "read",
                                    !.restored = store.executed]
  /\ UNCHANGED <<answer, store, reports, used>>
-----------------------------------------------------------------------------
(***************************************************************************)
(* The queue and the worker.                                               *)
(***************************************************************************)
(* Mutant: a task does not wait for room.                                  *)
Enqueue_Unbounded ==
  /\ \E job \in sending :
       /\ queue' = Append(queue, job)
       /\ sending' = sending \ {job}
  /\ UNCHANGED <<binding, command, reconcile, parking, parked, worker, reports,
                 answer, store, world, told, used>>

(* PersistenceHandle::commit_durable and the other calls that await room   *)
(* in the queue.                                                           *)
Enqueue ==
  /\ Len(queue) < QueueCap
  /\ \E job \in sending :
       /\ queue' = Append(queue, job)
       /\ sending' = sending \ {job}
  /\ UNCHANGED <<binding, command, reconcile, parking, parked, worker, reports,
                 answer, store, world, told, used>>

(* Renewals, admissions and the work of other characters.                  *)
OtherWork ==
  /\ Len(queue) < QueueCap
  /\ queue' = Append(queue, OtherJob)
  /\ UNCHANGED <<binding, command, reconcile, parking, sending, parked, worker,
                 reports, answer, store, world, told, used>>

(* run_worker takes one job; every job ends before the next one starts.    *)
WorkerRun ==
  /\ worker = "idle"
  /\ queue # <<>>
  /\ queue' = Tail(queue)
  /\ worker' = "flush"
  /\ LET job == Head(queue) IN
     \/ job.op = "save" /\ ExecuteSave(job.snapshot) /\ UNCHANGED <<answer, reconcile>>
     \/ job.op = "logout" /\ ExecuteLogout(job.snapshot)
     \/ job.op = "commit" /\ ExecuteCommit(job)
     \/ job.op = "read" /\ ExecuteRead
     \/ job.op = "other" /\ UNCHANGED <<answer, reconcile, reports, store, used>>
  /\ UNCHANGED <<binding, command, parking, sending, parked, world, told>>

(* Mutant: the worker flushes only when it has nothing else to do, and     *)
(* forgets to.                                                             *)
WorkerFlush_Never ==
  /\ worker = "flush"
  /\ worker' = "idle"
  /\ UNCHANGED <<binding, command, reconcile, parking, sending, queue, parked,
                 reports, answer, store, world, told, used>>

(* flush_deferred_latest, after every job.                                 *)
WorkerFlush ==
  /\ worker = "flush"
  /\ worker' = "idle"
  /\ parked' = NoSnapshot
  /\ IF parked = NoSnapshot
       THEN UNCHANGED <<reports, store, used>>
       ELSE ExecuteSave(parked)
  /\ UNCHANGED <<binding, command, reconcile, parking, sending, queue, answer,
                 world, told>>
-----------------------------------------------------------------------------
Next ==
  \/ \E kind \in Kind : Stage(kind)
  \/ SubmitCommit
  \/ AdoptReports
  \/ RequestSave
  \/ Park
  \/ SettleUnknown
  \/ SettleRefused
  \/ SettleCommitted
  \/ SettleUnapplied
  \/ TakeReconcileJobs
  \/ CompleteReconcile
  \/ ReconcileFails
  \/ LoseAuthority
  \/ Detach
  \/ Logout
  \/ Enqueue
  \/ OtherWork
  \/ WorkerRun
  \/ WorkerFlush

Spec == Init /\ [][Next]_vars

(* The gameplay thread wakes on a timer and drains its queues, the worker  *)
(* thread takes jobs while there are any, tokio grants a full queue to its *)
(* waiters in turn, and lease renewals keep arriving.                      *)
Fairness ==
  /\ WF_vars(SubmitCommit)
  /\ WF_vars(AdoptReports)
  /\ WF_vars(Park)
  /\ WF_vars(SettleUnknown)
  /\ WF_vars(SettleRefused)
  /\ WF_vars(SettleCommitted \/ SettleUnapplied)
  /\ WF_vars(TakeReconcileJobs)
  /\ WF_vars(CompleteReconcile)
  /\ SF_vars(Enqueue)
  /\ WF_vars(OtherWork)
  /\ WF_vars(WorkerRun)
  /\ WF_vars(WorkerFlush)

FairSpec == Spec /\ Fairness
-----------------------------------------------------------------------------
(***************************************************************************)
(* Properties                                                              *)
(***************************************************************************)
(* Whatever is lost between the worker and the owner, the command is       *)
(* stored before it is acknowledged, a command that is stored is never     *)
(* told rejected, and one told rejected is never stored afterwards.        *)
Once == INSTANCE DurableOnce WITH executed <- store.executed

OnceSpec == Once!Spec

(* Between commands, World shows exactly the durable effects the database  *)
(* holds: settlement, refusal and reconcile leave no difference behind.    *)
WorldMatchesStore ==
  binding.in /\ ~binding.pending => world = store.executed

(* The owner never believes a revision committed that the database does    *)
(* not have: neither a handoff nor a failed save raises it.                *)
CommittedIsStored == binding.committed <= store.revision

(* The snapshots that are on their way to the database.                    *)
OnTheWay ==
  {parked, parking} \cup
  {queue[i].snapshot : i \in {j \in 1..Len(queue) : queue[j].op = "save"}}

(* A command is not submitted behind a snapshot that will change the       *)
(* revision it expects.                                                    *)
SubmitsBehindNoSnapshot ==
  [][command.at # "worker" /\ command'.at = "worker" =>
       \A s \in OnTheWay : s.revision <= command'.key.revision]_vars

(* Snapshots reach the database by two ways, the queue and the parking     *)
(* slot.  Whichever is faster, an older place never replaces a newer one.  *)
PlaceNeverOlder == [][store'.place >= store.place]_vars

(* A character that left under its authority is stored where it left, once *)
(* nothing of it is on its way, unless a save failed.                      *)
LeaveStoresPlace ==
  /\ ~binding.in
  /\ ~binding.lost
  /\ OnTheWay = {NoSnapshot}
  /\ \A job \in sending \cup {queue[i] : i \in 1..Len(queue)} : job.op # "logout"
  /\ used.failures = 0
  => store.place = binding.place

(* A staged command does not keep the character busy for ever, although a  *)
(* held command waits for snapshots that wait for other work.              *)
StagedSettles == binding.pending ~> ~binding.pending

(* What a refusal means to a player: the command has no durable effect.    *)
RejectedIsNotStored ==
  \A t \in Token : told[t] = "rejected" => t \notin store.executed
=============================================================================
