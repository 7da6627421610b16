# Purgatory: specifications, model checking and proofs

Purgatory is a server-authoritative 2D online game in Rust. One server process
simulates a World at a fixed tick, talks QUIC to its clients, and keeps
characters, items and narrative state in PostgreSQL. Two parts of the program are
hardest to test. The first decides *who may change a character and which of
several commits, retries, late answers and crashes wins* (sections 3 to 6). The
second keeps *two programs in step that see each other late*: what the server
believes its client knows, what the client believes it is connected to, which
commands either still counts as open, and the timers that outlive what they were
set for (sections 7 to 12). Paths below are relative to `src/`.

## 1. Inventory

| part | state | operations | talks to |
|---|---|---|---|
| Lease rows (`crates/persistence/src/lifecycle.rs`) | per login: generation, character, expiry; per channel: generation, expiry, ground stamps | admit, supersede, renew, release; claim / renew / release channel; retire ground | called by the persistence worker inside one database transaction |
| Durable store (`crates/persistence/src/postgres.rs`, `domain.rs`) | characters and revisions, items, command receipts, reserved item ids | commit a command exactly once, save a snapshot, reserve ids, create a character | worker only |
| Persistence worker (`apps/server/src/network/persist.rs`) | bounded command queue, parked latest snapshot per character, stop flag | one blocking thread executes the queue; try_save parks when the queue is full; shutdown drains with a time limit | connection tasks, GameplayOwner, database |
| Connection task (`apps/server/src/network/handshake.rs`) | where its admission is, its occupancy guard | admit, reconnect, enter, play, logout | worker (request/reply), GameplayOwner (queue/reply) |
| Lease clock (`apps/server/src/network/lease_clock.rs`) | local deadline | renewal supervisor of a session and of the channel | worker, GameplayOwner |
| GameplayOwner (`apps/server/src/network/gameplay.rs`, `durable_owner_methods.rs`) | World, one binding per session, staged / committed durable commands, revisions, retries, reconciles | drains its queue, applies input, ticks, stages durable commands, applies or drops them when the worker answers | connection tasks, worker |
| Server main loop (`apps/server/src/network/mod.rs`) | channel claim, pending durable commits, id replenishment | startup claim, tick pump, channel renewal, shutdown | all of the above |
| Dialogue and narrative (`dialogue.rs`, `dialogue_actions.rs`, `narrative.rs`) | one conversation per player, at a beat, inside World's interaction session; the lock on its input; facts and heard beats per character; on the client a panel, a line, a line that waits | open, choose, advance, close, end with session or address | GameplayOwner, durable rewards, the client's panel |
| Replication (`replication.rs`, `replication_policy.rs`, `snapshot.rs`) | per observer: a life and revision lags for each entity, pending updates, the epoch, a bounded queue of frames | classify by distance, pack Enters, updates and Leaves into a budget, queue or defer, purge an old epoch | World's dirty marks, the connection's writer, the client's replica |
| Admission and abuse limits (`abuse.rs`, `load_pressure.rs`, `network_pressure.rs`, `tick_domains.rs`) | token buckets, pressure levels | admit or shed work | connection task, tick |
| Simulation services (`scheduler.rs`, `action.rs`, `ability.rs`, `spawn_schedule.rs`, `runtime.rs` of `crates/simulation`) | three slot tables with generations, a due order, owners' lists, cooldowns, corpses | schedule, cancel, drain by lanes; advance an ability; kill, respawn, replace a monster | GameplayOwner's tick |
| Simulation of bodies (rest of `crates/simulation`) | positions, velocities, footholds, areas of interest | move, collide, query | the tick |
| Protocol (`crates/protocol`) | frames, versions | encode and decode with bounds | client and server |
| Client session (`apps/client/src/lifecycle.rs`, `network/state.rs`, `network/runtime.rs`, `frontend_runtime.rs`, `app.rs`) | screen, lifecycle state, active attempt, disconnect epoch; the network thread's session and its bounded queues | connect, disconnect, enter, poll; handshake, live loop, cut | server, the two threads' queues |
| Client input and prediction (`prediction.rs`, `app.rs`; on the server `SessionInput` in `gameplay.rs`) | input epoch and sequence, window of open commands, barrier; the session's queue and acknowledgements | mint, send, replay, trim, cancel; classify, queue, play, acknowledge | input stream, snapshots |
| Client rendering and user interface (rest of `apps/client`) | sprites, panels, debug overlays | draw | replica, prediction |
| Development tools (`crates/dev_runtime`, `apps/dev_hub`, `tools/*`) | child processes, load runs, authoring files | start, stop, watch, validate | operating system |
| Content, animation, skeleton (`crates/content`, `crates/animation`, `crates/skeleton`) | immutable definitions | load, validate, sample | files |

### What is hard

* **Two clocks and no lock across processes.** A lease lives in a row with a
  database expiry; the process that holds it only knows when it *sent* its last
  request. Replies may arrive after another process was granted the row.
* **Every database answer can be lost.** A commit whose reply is lost is
  reported as a storage failure, and may or may not have happened.
* **Three queues.** Lifecycle commands to GameplayOwner, requests to the worker,
  and snapshots parked beside the worker's queue when it is full. What is handed
  over first is not always what is written first.
* **Teardown races everything.** Logout, detach, reconnect, channel loss and
  shutdown may hit a session in any state, with a durable command in flight.
* **Delivery is assumed, not acknowledged.** The server takes a replication record
  for known when it is queued. Purges, full queues, deferrals and epochs must
  never make that false.
* **Two threads of the client, three queues between them**, and a user who gives
  up and tries again while the old session still ends.
* **Epochs.** A respawn or a change of map starts the sequence numbers anew while
  commands, snapshots and cancels of the old epoch are still under way.
* **Handles outlive things.** Slots of timers, actions and replacements are reused
  while drained jobs still name them, and the lanes of an overloaded tick are late.
* **A conversation is four states.** World's session, the dialogue's beat, the input
  lock and the client's panel change one after the other, and a choice is applied
  ticks after it was made.
* **Cancelled futures.** Reads are branches of `select!`.

### What makes each part correct

* leases: one session of a login has authority at a time; the generation issued
  last is the only one that writes; nothing older is written under a restored
  character; an admission always ends;
* durable commands: a command takes effect in the store at most once, takes
  effect in World only after it is committed, and a player is told of success
  only then; revisions of World and store agree whenever nothing is in flight;
* worker: the newest snapshot of a character is written last, nothing is written
  after the stop, a clean shutdown has attempted everything handed over;
* channel: only the process of the current generation owns the ground items, and
  ground stamped by an older generation is retired exactly once;
* replication: what is counted as known is what the client will have when the
  frames under way are applied; what is settled without a record is still shown
  right; at rest the client converges;
* client session: screen, lifecycle and network thread mean the same attempt; a
  disconnect ends the session given up and no other; every wait ends;
* input: no command is refused for a gap nobody made, none is dropped without
  acknowledgement or acknowledged and then played; the window the client replays
  contains whatever the server may still play;
* simulation services: no timer reaches what it was not set for, every running
  ability has its timer, every home has one monster or one replacement coming;
* dialogue: a conversation lives inside its session and holds the player exactly while
  it lasts; a choice is executed once, for the conversation it was made in;
* store: reserved ids are used once, an item has one place, a receipt answers a
  repeated key with the stored result.

## 2. Plan

| order | module | composes / implements | status |
|---|---|---|---|
| 1 | `CharacterLease` (+ `FencedLease`, `CharacterLeaseProofs`, `MCCharacterLease`) | connection task, supervisor, binding and lease row; implements `FencedLease` | modelled, checked, proved |
| 2 | `DurableCommands` (+ `DurableOnce`, `DurableCommandsProofs`, `MCDurableCommands`) | owner, carrying tasks, worker queue and store around one character's durable commands and snapshots; implements `DurableOnce` | modelled, checked, proved |
| 3 | `PersistWorker` (+ `RuntimeProofs`, `MCPersistWorker`) | queue, parked snapshots of several characters, stop flag, shutdown and its deadline | modelled, checked, proved |
| 4 | `GroundItems` (+ `GroundItemsProofs`, `MCGroundItems`) | one channel's ground: owner, World, item rows, id ranges, commands of several players, takeover by another process | modelled, checked, proved |
| 5 | `ReplicaStream` (+ `ReplicaStreamProofs`, `MCReplicaStream`) | World's changes, one observer's replication state, its queue, the stream and the client's replica | modelled, checked, proved |
| 6 | `ClientSession` (+ `ClientProofs`, `MCClientSession`) | the client's application and network threads, and the server's answers | modelled, checked, proved |
| 7 | `InputWindow` (+ `ClientProofs`, `MCInputWindow`) | the client's prediction window, the input stream, the server's session input, snapshots back | modelled, checked, proved |
| 8 | `SimRuntime` (+ `RuntimeProofs`, `MCSimRuntime`) | scheduler, action table, spawn schedule and the tick that drains them | modelled, checked, proved |
| 9 | `DialogueSession` (+ `DialogueSessionProofs`, `MCDialogueSession`) | World's session, the dialogue runtime, the input lock, the durable gate and the client's panel | modelled, checked, proved |
| 10 | `FramedRead` | the framed readers of client and server under `select!` | modelled, refuted |
| 11 | `ChannelAuthority` (+ `ChannelAuthorityProofs`, `MCChannelAuthority`) | claim at startup, renewal, release at shutdown, several generations and their ground stamps, in transactions that wait for each other; implements `FencedLease` | modelled, checked, proved |
| 12 | `DurableStore` | apply_command, slots, quantities, receipts, rosters | later |
| 13 | abuse buckets, dev runtime sessions | one module each, each with its own small instance | later |

Theorems: type correctness, single authority and the refinement of
`FencedLease` (done); type correctness, the late write and the saves before the
release of the worker (done); `DialogueIsSound` (done); every safety property of
`DurableCommands` and its refinement of `DurableOnce` (done; their invariant follows every
revision in flight); `ChannelIsSound` and the refinement of `FencedLease` by
`ChannelAuthority` (done);
`RestoreIsCurrent` and `StoppedChannelAcceptsNothing` (done); `ChosenOnce` and `PanelIsCurrent` (done);
`GroundIsSound`, `GroundMatchesStore` and
`TakenWritesNothing` (done); `InputIsSound` and `WindowIsOfOneEpoch` (done);
`StreamIsSound` and `ChangesAreScheduled` (done);
`SessionsAgree` for `ClientSession` (done); `RuntimeIsSound` and `PopulationIsKept` for
`SimRuntime` (done). Liveness stays with TLC.

Two proof modules serve two components each: `ClientProofs` the client's (`ClientSession`,
`InputWindow`), `RuntimeProofs` the two parts of the server that run on whatever clients
do (`PersistWorker`, `SimRuntime`). Each EXTENDS both, so that the names of
`ClientSession` and `SimRuntime` that would meet another module's carry a prefix
(`SessionSpec`, `FairSession`, `SessionTypeOK`; `SimSpec`, `FairSim`, `SimTypeOK`).

## 3. CharacterLease

One login, any number of connections (`Session`) spread over server processes
(`ProcessOf`). A lease row is keyed by login and no operation reads another
login's row, so one login is the whole of the protocol.

| variable | in the code |
|---|---|
| `clock` | database `now()` and every process's monotonic clock |
| `lease` | the row of `character_leases`; `release` expires it in place |
| `stored` | ghost: for each character, the generations that wrote it, in order (consecutive writes of one generation are one entry) |
| `requests` | requests in a worker's queue or on their way to the database |
| `task` | the program counter of the connection task, with the locals it keeps across awaits: character, generation, send instant, deadline |
| `reply` | the oneshot answer the task has not read yet |
| `binding` | `PlayerBinding` in GameplayOwner: authority, durable gate, lease deadline |
| `renewal` | `supervise_renewal` of a session |
| `mail` | `NoteLeaseDeadline` / `LoseAuthority` waiting in the lifecycle queue |
| `channel` | `channel_live` and `admission_stopped` of a process: `stopping` is the time between the flag and the drained `LoseAllAuthority` |

The actions are the handlers: `Admit`, `Supersede`, `Renew`, `Release`,
`SaveLeased` are the transactions, each with the outcome "committed, answer
lost" where it writes; `SendAdmit` ... `Released` are the await points of
`activate_owned_character`; `SendRenew`, `RenewalExtends`, `RenewalEnds` are the
exits of the supervisor's biased select; `DrainMail`, `LoseAllAuthority`,
`BeginDurable`, `FinishDurable`, `RequestSave` are what GameplayOwner does to a
binding; `Disconnect`, `PrepareLogout`, `LogoutSaved`, `LogoutReleased`,
`LogoutUnsaved`, `Detach` end a session; `Crash` kills a process and leaves what it already sent alive.

Abstractions. Requests of one process are a set, not a queue: the worker executes
them in order, but snapshots can be parked and overtaken, so any order of
execution is allowed, which only adds behaviours. A durable command is the
gate it holds (`idle`, `pending`, `detach`); what it commits is the next module.
A character's content is the list of generations that wrote it. File-mode saves
(no database) have no lease and are not modelled.

Assumptions. `ClockAssumption`: the database clock and the monotonic clocks of
the processes advance together (they may be offset, not drift; the code compares
a deadline only with the clock that produced it, and a request is always sent
before the database executes it). `LeaseAssumption` types the constants.

### Abstract specification

`FencedLease` has three variables: the token issued last, the token in use, and
what was written. A token is issued and taken only while nobody holds one, and a
write carries the token issued last. `CharacterLease` implements it under
`issued <- lease.generation`, `holder <- Holder`, where `Holder` is the
generation of the session whose input is accepted.

### Runs

| run | instance | shows |
|---|---|---|
| `lease_processes` | two processes, one connection each, one may crash; expiry 2, clock to 2, two generations, a character the login does not own | `TypeOK`, `SingleAuthority`, `FencedSpec`: renewals, late replies and drops between two processes; `RestoreIsCurrent` across a crash with commits in flight |
| `lease_reconnect` | one process, two connections, its channel authority may end; expiry 1, two generations | `RestoreIsCurrent`: reconnect and the saves around it; `StoppedChannelAcceptsNothing`; `AwaitsEnd` under `FairSpec` |

Two connections are enough for every race between an old and a new session, and
two generations for a grant and what replaces it, a reconnect or a grant after
expiry; the proofs cover every number. `MaxClock` lets a lease be renewed, or
expire and be granted again. Deadlock checking is off: clients may stop, and the clock and the
generations are bounded.

Fairness. The worker thread executes a queued request for which somebody waits
(`run_worker` loops on its channel and every branch answers), and a connection
task runs until its next await (tokio). Nothing is assumed of clients, of the
clock, of storage succeeding or of the channel. A logout awaits two answers, of its
save and of the release (`finish_logout`), and `AwaitsEnd` covers both; the release
of an unused lease is awaited too (`Released`). The fairness of `Activation(s)`
and `Logout(s)` is weak: while a task has a reply or nothing to wait for, its
next step stays enabled.

### What is proved

`CharacterLeaseProofs` proves, for every value of the constants allowed by
`LeaseAssumption`:

* `TypeCorrect`: `Spec => []TypeOK`;
* `AuthorityIsSingle`: `Spec => []SingleAuthority`;
* `ImplementsFencedLease`: `Spec => FencedSpec`;
* `StoppedMeansSilent`: `Spec => []StoppedChannelAcceptsNothing`;
* `RestoredIsCurrent`: `Spec => []RestoreIsCurrent`.

The first three rest on one inductive invariant, `LeaseInv`. `SingleAuthority` alone is not inductive:
that two sessions accept input must be refuted from *how long* each may. So the
invariant says (`Deadlines`) that every local deadline, held by a task, a
supervisor, a queued note or a binding, is at most the expiry of the row as long
as the row still names that generation, (`Issued`) that no generation above the
row's is known to anybody and a generation is granted to one session,
(`Phases`) which parts of a session exist in which state of its task,
(`OneUser`) that a generation is used by one session, and (`EndedUnused`) that a
generation which was superseded or outlived is no longer used, because the
reconnect removes the old session first and an expiry outlasts the deadlines
below it. The same invariant was checked by TLC on the run instances.

`Silenced` is what makes the stop of a channel hold: a process whose stop is
drained has no binding with authority, and an admission that is answered later
finds the flag. `RestoreIsCurrent` needs two more. `Asked` says that a task waits
for at most one answer, and of the request that is still under way or of the
answer that has come, that it is what the task asked for: without it an answer
of an earlier admission could be read as the character of a later one. `Followed`
says that, as long as the row names the generation for which a character was
loaded, nobody but this generation has written that character since. All three
were checked by TLC on the instances of both runs before they were proved.

Only model-checked: the liveness property `AwaitsEnd` (liveness and ENABLED are
beyond the prover).

## 4. DurableCommands

A drop, a pickup, an equipment change, or a dialogue choice is first committed by
the worker and then applied to World. Meanwhile portal and health snapshots of
the same character go through the same worker by another way, the player may
leave, authority may be lost, and the answer of a commit may be lost.

| variable | in the code |
|---|---|
| `binding` | `PlayerBinding`: in World or removed, authority, `persistence_revision`, `committed_revision`, `snapshots.queued` / `.deferred`, `pending_durable`, `commit_uncertain`, `detach_when_idle`, and where the character stands |
| `command` | the `DurablePending` of the session, and whether it is in `durable_outbound`, given to the worker or in the retry list |
| `reconcile` | `ReconcileJob` and the read it waits for |
| `parking`, `parked` | a snapshot between the full queue and the lock, and `SharedSaveState.latest` |
| `sending` | jobs of spawned tasks that wait for room in the queue |
| `queue`, `worker`, `reports` | the worker's queue, whether it runs a job or flushes, `save_reports` |
| `answer` | `SettleDurable` in the owner's queue |
| `store` | revision, place, stored command keys, and the ghost `executed`: the commands whose effect is stored |
| `world`, `told` | ghosts: the effects World shows, what the player was told |
| `used` | how much of each bound is spent |

Every handler is one action: `Stage`, `SubmitCommit` (with the adoption of
reports and the alignment that `take_durable_commits` does on the way),
`RequestSave`, `Park`, `SettleUnknown` / `SettleRefused` / `SettleCommitted` /
`SettleUnapplied` (the ways through `settle_durable`), `TakeReconcileJobs`,
`CompleteReconcile` / `ReconcileFails`, `LoseAuthority`, `Detach`, `Logout`,
`Enqueue`, `WorkerRun` (one job, its transaction and its answer), `WorkerFlush`.

Abstractions. A command's key in the code is `c<character>-r<revision>-<rest>`; here
it is revision and kind. A "once" command conflicts when it runs again under a
second key, because a unique slot index or a missing row refuses it; a "settled"
one (equip, narrative writes) leaves the same rows. Content rules, slots and
quantities belong to `DurableStore`. A definite SQL error while the stored key
is read on a live connection, the separately written health revision, the file
mode, and a worker that has panicked are left out. The blocking of actions by a
lease deadline is in `CharacterLease`. Other characters only occupy the queue
(`OtherWork`).

`DurableOnce` is the promise: an effect is stored only while the player has no
answer, "accepted" is said of a stored effect, "rejected" of one that is not
stored and never will be. `DurableCommands` implements it under
`executed <- store.executed` as long as no snapshot separates a submission from
its retry; with one it does not (section 13, `durable_realigned`).

| run | instance | shows |
|---|---|---|
| `durable_lost` | 4 commands, queue 2, no snapshots, 2 unknown outcomes, 2 failures | `TypeOK`, `WorldMatchesStore`, `OnceSpec` |
| `durable_saves` | 1 command, queue 2, 2 snapshots, 1 unknown outcome, 1 failure | `CommittedIsStored`, `LeaveStoresPlace`, `SubmitsBehindNoSnapshot`, `PlaceNeverOlder`, and `StagedSettles` under `FairSpec` |

Why the bounds are enough: the interesting order is one command between two
snapshots, and a series of commands whose restores and retries overlap; a queue
of two is soon full, so both ways of a snapshot occur. `MaxSaves` also bounds
how long a command can be held: the code submits a command only when no snapshot
is above the committed revision, and has no bound of its own on new snapshots.

A parked snapshot is flushed after the job that runs now, before those that were
queued earlier; it then fails or succeeds on its revision. So a place may reach
the database later than the order of its snapshots suggests; `PlaceNeverOlder`
says it never goes backwards, and `LeaveStoresPlace` that the last place wins.

Fairness (`Fairness`): the tick wakes on a timer and drains (`SubmitCommit`,
`AdoptReports`, settlement, reconcile), the worker loops on its queue
(`WorkerRun`, `WorkerFlush`), tokio grants room to waiting senders in turn
(strong fairness of `Enqueue`: room comes and goes), and lease renewals keep
coming (`OtherWork`), which is what flushes a snapshot parked beside an empty
queue. Nothing is assumed of players, of storage, or of lost answers beyond
their bound. `StagedSettles` is stated for restores that can be applied: the
code documents that one that cannot leaves the player stopped.

### What is proved

`DurableCommandsProofs` proves, for every number of commands, snapshots, failures and
lost answers and every queue capacity:

* `DurableTypes`: `Spec => []TypeOK`;
* `OwnerBelievesStored`: `Spec => []CommittedIsStored`;
* `DeparturesAreStored`: `Spec => []LeaveStoresPlace`;
* `PlacesGoForward`: `Spec => PlaceNeverOlder`;
* `SubmitsWait`: `Spec => SubmitsBehindNoSnapshot`;
* `WorldIsStored`: `Spec => []WorldMatchesStore`, unless snapshots and lost answers
  both occur;
* `DurableImplementsOnce`: `Spec => OnceSpec`, under the same condition.

The condition (`~Realigns`: `MaxSaves = 0` or `MaxLost = 0`) is no convenience: with both, the
two properties are false of the code, and `durable_realigned` in section 13 is the
counterexample. With either alone they are proved for any number of the other.

The first five need no condition. Their invariant `DurableInv` says that the command under way is
in one place only, staged, sending, queued or answered, and is the one its owner waits
for (`OneCommand`); that whatever revision the owner, an answer, a report or a key
names is in the store (`Revisions`); that the snapshots on their way, a logout's
included, carry places that grow with their revisions, and that one older than the
stored place is behind the stored revision and will not be written (`Places`);
that a character which left has its last place stored or on its way unless a write failed
(`Leaving`); that no two snapshots underway share a revision, and none has the
revision of a report (`Distinct`); and that the owner's list of queued revisions
and its deferred one name every snapshot ahead of its committed revision (`Known`),
which is why a submission finds none. The largest of a set of revisions, which
`CompleteReconcile` and `AdoptReports` take, is found by the least-number principle of the library's
`WFMin`, which has no operator for a parameter.

`OnceInv` adds, under the condition, that a command which is yet to come, or is being restored,
has no answer (`Fresh`); that a command's key is in the store exactly when its effect is, so
that its retry meets its own key and a new command no other's (`Keys`); that without
snapshots none is underway (`NoSaves`); and what World shows before, during and after
a command and its restore (`Shows`). Both invariants were checked by TLC before they were proved.

`StagedSettles` is only model-checked.

## 5. PersistWorker

The worker thread with *several* characters, and its end. `DurableCommands` sees a
worker that never stops; this module is about what shutdown promises for
snapshots that were handed over by either way.

| variable | in the code |
|---|---|
| `revision`, `handed` | the last snapshot taken, and the last one given to `try_save_leased`, of each character |
| `parking`, `parked` | as above, per character (`SharedSaveState.latest`) |
| `awaiting` | `save_leased` calls of logouts waiting for room |
| `queue` | the bounded queue: saves, awaited saves, the shutdown, any other command |
| `worker` | where `run_worker` is, which snapshot or job it has admitted, and where it goes on |
| `flushing` | the snapshots `flush_deferred_latest` has taken and not yet written |
| `shutdown`, `stop` | `PersistenceHandle::shutdown` and `stop_writer` |
| `attempted`, `discarded`, `released`, `late` | ghosts: writes tried, awaited snapshots dropped, channel release tried, writes or releases begun after the flag |

A look at the flag and the write it admits are two steps, and so are the full
queue and the parking; the deadline may pass in between. `Receive` takes a job
and looks at the flag, `RunSave` / `RunOther` / `RunShutdown` execute it, `Drain`
and `Drained` are the `try_recv` loop of `Shutdown`, `TakeParked`, `FlushNext`,
`Write`, `FlushEnds` are `flush_deferred_latest` at its three call sites (after a
command, in the shutdown, after the loop), `AdmitRelease`, `ReleaseChannel`,
`Reply` end the shutdown, `FinalFlush` is the code behind the loop.

| run | instance | shows |
|---|---|---|
| `worker_shutdown` | 2 characters, 2 snapshots each, queue 2 | `TypeOK`, `AtMostOneLate`, `ReleasedAfterSaves`, and `HandedIsTried` under `FairSpec` |

Two characters let one parked snapshot be written before the flag rises and the
other after; two snapshots let a newer replace a parked older; a queue of two
lets a shutdown stand between two jobs. Deadlock checking is off because the
worker ends.

Fairness: the worker thread takes its steps, the gameplay thread finishes a
handoff, renewals keep arriving (without them a snapshot parked after the last
job would wait for the next), and a shutdown's deadline passes, which is a timer.
Without the last, other commands could keep the drain busy for ever.

What is a write here is the *attempt*: whether a snapshot is accepted by the
database is the subject of the other two modules. A worker whose thread has
panicked, and the reply "worker closed", are left out.

### What is proved

`RuntimeProofs` proves, for every set of characters, queue capacity and
number of snapshots:

* `TypeCorrect`: `Spec => []TypeOK`;
* `OneLateWrite`: `Spec => []AtMostOneLate`;
* `SavesBeforeRelease`: `Spec => []ReleasedAfterSaves`.

The inductive invariant `IInv` says where the worker can be and what it then holds
(`PlaceInv`); that before a shutdown is called there is none in the queue and the
worker is in its loop, and that at most one snapshot is being parked and none
once the shutdown has begun (`OpenInv`); that behind the drain of a shutdown in
time no save is queued and, behind its flush, none parked (`DrainInv`); and that
the last snapshot handed over of a character is tried or still underway in one
of five places, or a newer one is (`HandedInv`). From these, at the release
nothing is underway, so everything was tried (`ReleaseInv`). `ReleasedAfterSaves`
alone says nothing of the states before the release. `LateInv` counts: whoever
has passed the look at the flag was not late before. `IInv` was checked by TLC on
`worker_shutdown` before it was proved.

## 6. GroundItems

What lies on the ground of a channel is written down five times: the item record
and the drop entity of World, the expiry and reservation collections of
GameplayOwner, the item's row, and the command that is underway for it. The
module follows each item through all of them, with several players, the pool of
reserved ids, and the end of the channel.

| variable | in the code |
|---|---|
| `own` | `live_ground` (`live`), `ground_expiry`, `ground_deferred` and its `member` set, `reserved_items` (`held`), `reserved_visible` (`visible`), `durable_items` (`durable`) |
| `world`, `shown` | where an item record is; items with a drop entity |
| `loot`, `pool`, `replenish` | `pending_loot`, `id_pool`, the request for more ids |
| `command` | the `DurablePending` of a player, or of an item that is retired, and where it is: staged, with the worker, answered, waiting for its retry, waiting for a restore |
| `player` | the binding, with `detach_when_idle` as "leaving" |
| `row`, `issued` | the place of an item in the database, and `next_item_instance_id` |
| `channel` | live, past its local deadline, or claimed by another process |

`AskIds`, `ReserveIds`, `InstallIds` are the replenishment; `Kill` and `FlushLoot`
roll and show loot; `StageDrop` and `StagePickup` reserve an item and start a
command; `Wake` is one `take_durable_commits`: it promotes what is due, inspecting
`WakeBatch` items, and submits; `Execute` and `Fault` are the worker and the
database; `Settle` is what the owner does with the answer, restores included;
`TakeOver` is the claim of another process, which retires the ground.

| run | instance | shows |
|---|---|---|
| `ground_items` | 1 player, 1 stored item and 1 id to reserve, one plan waiting | `GroundIsSound`, `GroundMatchesStore`, `TakenWritesNothing`, and `DropsDisappear` under `FairSpec` |

`GroundIsSound` is the conjunction of `TypeOK`, `EveryDropIsTimed`, `HeldByOneCommand`
and `PoolIsFresh`. A larger instance beside the run, `ground_race.cfg`, checks these without
loot for two players who race for two stored items.

Two items let one block the other in the deferred queue and let a batch of two
meet both; in `ground_race.cfg` two players let one reserve what the other wants or is carrying. The
lifetime and the window are one tick each: times are kept as what is left, so
that only their order matters, and `Tick` may come at any point. What is overdue
counts as due now; among items due at the same tick the code's order, by id, is
kept. Deadlock checking is off: an ended channel with no command stops.

Fairness: the network loop wakes and advances its clock, a pause before a retry
ends, an answer is settled, and a storage that is asked again and again is
reached at last (strong fairness of `Execute`, because `Fault` may take the
command away from it). `DropsDisappear` needs all of them and says nothing of a
channel that has ended, since nothing expires there any more, nor of one where a restore
has failed for good (`ground_restore` in section 13): the item it keeps reserved stays, and
may starve the others (`ground_starved`).

Left out: items that are neither reserved nor stored, which developers spawn and
which are removed locally; a pickup whose free slot has changed while it was
underway; dialogue effects and equipment; closing a single world address. The
read and the restore of a reconcile are one step, because nothing else may change
the character between them. Revisions, snapshots and keys are in `DurableCommands`.

### What is proved

`GroundItemsProofs` proves, for any players, ids, batches and lifetimes, for both
builds (`Release`) and for players who wander off or stay (`Wander`):

| theorem | states |
|---|---|
| `GroundSound` | `Spec => []GroundIsSound` |
| `GroundMatches` | `Spec => []GroundMatchesStore` |
| `TakenIsSilent` | `Spec => TakenWritesNothing` |

None of these properties is inductive. `HeldByOneCommand` does not say where the row
of a held item is, so it cannot tell what World will hold when the answer is settled;
`PoolIsFresh` says nothing of ids that are in an answer on its way or above
`issued`. The invariant `GroundInv` follows each item instead:

* an id that was not shown yet, in the pool, in an answer or above `issued`, is
  unknown to World, to the database and to the collections of the owner; pool and
  answer have no id in common (`FreshIds`);
* an item that no command holds is settled: World has it where the database has
  it, or it is a visible drop without a row (`Settled`);
* an item that is held is held by one command, and the kind and the progress of
  that command say where World and the database have it (`InHand`): a command that
  is `stored` has moved the row, and World follows when the answer is settled;
* a drop that no command holds has a place in the expiry or deferred collections
  (`Timed`).

After a takeover World and the rows may differ, and nothing brings them together
again; there the invariant keeps the bookkeeping (`Kept`) and says that no ground row
is left, which is what `TakenIsSilent` rests on. It also follows that before a
takeover the restore of a pickup never succeeds: the item is still a drop of this
World when it is looked for, which is the state `ground_restore` refutes.

The loops of the code, over the answer, the plans and the due items (`Promoted`,
`Installed`, `Flushed`), are recursive functions of a number of turns. The lemma
`LoopRuns` gives their values and `LoopKeeps` carries a predicate through the turns;
both come from the existence of a least number that fails (`LeastNumber`), because the
library's induction takes an operator as a parameter. `DropsDisappear` is liveness and
stays with TLC.

## 7. ReplicaStream

One observer and the entities around it. Nothing the server sends is acknowledged;
a record counts as known from the moment its frame is queued, and most changes of
health are settled without any record.

| variable | in the code |
|---|---|
| `world` | an entity's address and position, as the zone of this observer's two rectangles, its `look` (transform, equipment) and its health |
| `marked`, `stale` | `replication_dirty`; `needs_classify` with the interest generations |
| `obs` | `ObserverReplicationState`: `Life` per entity, the revisions above `CommittedRevs` as `lag`, the immunity in them, `known_dead`, `pending_update_ids`, the epoch |
| `fanout` | `InterestFanoutIndex` |
| `pipe`, `wire` | `ReplicationPipe` of the connection, and what its task has taken out and the client not yet applied |
| `replica` | `ReplicatedWorld` of the client, with its epoch |

`Tick` is `publish_snapshots` for this observer: dirty marks are fanned out, the
interest is classified if it is stale, Leaves, Enters and updates are packed into
a budget, the frame is queued and counted as told; with the queue full only the
marks are noted. `Move`, `ObserverMove`, `SetHealth`, `Despawn` are World's
changes, `Transition` is `bump_epoch` and the purge; `Write` is the connection's
task, `Apply` the client's `apply_frame`.

| run | instance | shows |
|---|---|---|
| `replica_stream` | 2 entities, queue 2, one frame in flight, budgets of 1 or 2 records, 2 changes | `StreamIsSound`, `ChangesAreScheduled`, and `ClientConverges` under `FairSpec` |

`StreamIsSound` is four statements checked as one: `TypeOK`; `StreamIsCommitted`
(the frames under way, applied, leave the client with exactly the known entities);
`RecordsFindEntities` (no orphan update or Leave, no second Enter); and
`SettledIsShown` (what was settled in silence still looks right).

Two entities compete for a budget of one record; a queue of two holds a frame that
a transition purges and one that it does not reach; two changes are a departure and a
return, a death and a revival, or a change just before a transition. Which records
fit, who is a friend, whose cadence is due, and whether the recovery scan runs
in a tick are choices, so every order of the policy's ranking is covered. Left
out: the observer's own entity, the ranking itself, separate revisions of
transform and equipment, and two error returns: after 65535
transitions of one connection the input's `bump_epoch` fails at `u16::MAX` and the
transition returns before it publishes, where the model's epochs are bounded by its changes; and a
record that does not encode is passed over.

Fairness: the connection's task and the client run on. A tick comes again and
again, cadences are periodic (`selective_decision`), so an update of an entity is
due again and again in ticks that find room (`TickDue`); it may then still lose the
budget to others. Nothing is assumed of the budget beyond one record.

### What is proved

`ReplicaStreamProofs` proves `StreamSound` (`Spec => []StreamIsSound`) and `ChangesScheduled`
(`Spec => []ChangesAreScheduled`) for any set of entities, any length of queue and
stream, any budgets and any number of changes.

The statements are about the end of a computation: the replica after every frame
under way. Neither is inductive, for a frame joins the stream at the far end and
leaves it at the near one. `StreamInv` therefore carries a chain `h` of replicas, one
for every frame under way (`Chain`): each is what `Applied` makes of the one before,
each frame fits the replica it meets, and no epoch exceeds the observer's. A
publication lengthens the chain (`ChainExtended`), the client's step
shortens it (`ChainShortened`), the writer's leaves the whole stream alone
(`WrittenKeepsStream`), and a transition cuts off what is still queued, whatever
that was, and starts anew above it (`ChainCut`, `PurgedOfAll`): the new epoch makes the
replica at the cut irrelevant (`BaselineTold`). That the chain is the one
`Replicas` computes (`ReplicasAreTheChain`) is an induction over the stream; it is
made with a least counterexample (`LeastNumber`, from the well-foundedness of strict
inclusion), as the library's induction rules cannot be instantiated.

At the end of the chain stands `Told`, one statement per entity (`Knows`). It is
`StreamIsCommitted` and `SettledIsShown` with one addition that makes it
inductive: an immunity the client shows is one that `CommittedRevs` remembers, for it is
by this memory that `MustTell` finds an immunity that has ended while its
revision is settled. `Scheduled` needs an addition too: a known entity that has not
despawned is in the fan-out index even when nothing of it lags, since the next mark
reaches the observer only through the index.

`ClientConverges` is only model-checked.

## 8. ClientSession

The client's two threads. The application thread owns what the user sees; the
network thread runs one session after the other; a watch channel carries the
disconnect epoch past the queues.

| variable | in the code |
|---|---|
| `app` | `ClientLifecycle` and `ConnectionState` (screen, state, active and next attempt), `FrontendRuntime` (session, handoff, a pending creation) |
| `inbox`, `polling` | the local list of `poll_network`, between its two halves: events are taken, frames are taken and applied, then the events |
| `replica` | the epoch of the replica, and a ghost: the attempts whose frames it holds |
| `cut` | `disconnect_epoch` |
| `commands`, `events`, `frames` | the three bounded channels |
| `net` | where the network thread is in `network_loop` / `run_session` / `handshake_and_live` / `live_loop`, with the session's locals and the answers the server owes |
| `hold` | the item an `emit` or `push_frame` waits to push |

The application's actions are `RequestConnect`, `RequestDisconnect`, `EnterWorld`,
`CreateCharacter`, `WorldReady` and the two halves of a poll; the thread's are
`TakeCommand`, `StartConnect`, `Discard`, `NoticeCut`, `LiveCommand` and `Push`;
`Connected`, `SessionReady`, `Rejected`, `Welcome`, `EnterRejected`,
`CreateResult`, `ReadFrame` and `Lost` are what the network does to a session.

| run | instance | shows |
|---|---|---|
| `client_session` | 3 attempts, 3 disconnects, all queues of 2 | `SessionsAgree`, and `WaitsEnd` under `FairSession` |

`SessionsAgree` is `SessionTypeOK`, `ShownSessionIsServed` (a session shown is served or its
end is on its way), `CutIsExact` (the epoch cuts what was given up and nothing
else) and `ActiveEventsAreLegal` (the lifecycle refuses no event of its attempt). `WaitsEnd` is `RequestsAreAnswered`, `CutSessionEnds` and `ConnectResolves`.
The last has a proviso, `Alone`: a Connect that is queued behind a session, or
behind another Connect, is read and thrown away by the loops that look for
Shutdown, and then its attempt stays "Connecting" until the user disconnects.

Three attempts are one served, one abandoned in the queue and one fresh; queues of
two are soon full. Left out: gameplay input (section 9), pings, telemetry,
shutdown, the legacy Welcome in answer to a hello.

Fairness: the application polls every frame, the network thread takes its own
steps, a handshake ends by its timeout if by nothing else, and an answer the
server owes comes although the user may keep the thread busy (strong fairness of
`Answer`, which is enabled only while no command waits). Users owe nothing.

### What is proved

`ClientProofs` proves `SessionsStayInAgreement` (`SessionSpec => []SessionsAgree`)
from `SessionAssumption` alone: for any number of attempts and disconnects
and queues of any size. `SessionsAgree` speaks of the state as it is; what is inductive
speaks of the state that will be when everything under way is applied. `AgreeInv`
has these parts.

- A *line* of lifecycle states (`Along`): one for each prefix of the events that are
  coming (`EventsComing`: the rest of a poll, the queue, the item a push waits with),
  each event of the active attempt legal where it will be applied. Its head is what the
  application shows, so `ActiveEventsAreLegal` is its first step, and pushing an
  event adds a last one.
- `Fits`: the last state of the line is the one the network thread is in, if it serves
  the active attempt, and shows no session if it does not. `ShownSessionIsServed` follows: a shown
  session that is not served needs an event on the line that ends it.
- `Ordered`: attempts are taken up in the order of their numbers, and nothing is reported of
  one before. Without it a request that takes a fresh attempt could find events of
  that attempt already on their way.
- `Stamped`: a session, or a Connect that is queued, has the current disconnect epoch
  exactly when it is of the active attempt. This is `CutIsExact`, and the reason a cut
  cannot reach the session that follows the one it was meant for.
- `Shaped`: a session that runs has an attempt, a frontend that is not disconnected has one, and
  events are held back only in the middle of a poll.

The loops over events and frames (`AfterEvents`, `AfterFrames`) are recursive functions on
a number of elements. Their values are not computed in the proof: the line gives
the state after each event, and a lemma says that the loop follows it.

`WaitsEnd` is only model-checked.

## 9. InputWindow

A player's commands, from the key to the acknowledgement.

| variable | in the code |
|---|---|
| `client` | `IntentNet` (epoch, sequence), `Prediction` (its epoch, `pending`, `last_sent`, `HeldCancel` barrier), and the place the replica and the local map have |
| `chan` | the network thread's input channel and the stream |
| `rate` | `InputRate` of the current window |
| `server` | `SessionInput`: epoch, received, acknowledged, queue, debt of unmatched ticks, held movement, transition gate, interface lock |
| `back` | snapshots on their way, with epoch, acknowledgement and place |
| `lost` | history: a message of the current epoch was thrown away, by the channel, the rate limit, or a session whose actions are blocked |

| run | instance | shows |
|---|---|---|
| `input_window` | window 2, channel 3, session queue 2, 2 messages per rate window, 3 commands per epoch, one change of epoch | `InputIsSound`, `WindowIsOfOneEpoch`, and `BarrierIsLifted` under `FairSpec` |

`InputIsSound` is `TypeOK`, `StreamIsWhole` (as long as nothing was thrown away, what is
under way continues exactly what was received), `QueueFollowsAck` (received is
acknowledged plus queued, always), `HeldMovementIsCurrent` and
`OpenCommandsAreReplayed` (what the server may still play is in the client's window).

The window of two fills, so that a cancel is armed; the channel keeps its last slot
for the cancel, so three is the smallest with a full channel; three commands in an
epoch are one more than window and queue hold, so a late prefix is collapsed; one
change of epoch is enough for everything of an old epoch to meet the new one.
Left out: the physics of a replay, abilities, the end of a session after 256 rate
drops, the neutral command of a dead actor.

The window is modelled as a set of commands: within an epoch their numbers order
them, and no number is minted twice.

Fairness: the render loop ticks and applies snapshots, the network tasks deliver,
the simulation ticks, the rate window passes. Nothing is assumed of players,
dialogues and transitions, and a session may stay blocked for ever.

### What is proved

`ClientProofs` proves `InputIsSound` as an invariant (`InputSound`) and the action
property `WindowIsOfOneEpoch` (`WindowOfOneEpoch`), from `InputAssumption` alone: for every
window, channel, queue, allowance and gate, with any number of epochs and of
commands in each. The inductive invariant `InputInv` has these parts.

- `Chained`: epochs reach the client in order. Without it a late snapshot of an old epoch
  could restart a window that is in use.
- `Placed`: the place does not change within an epoch, so a client that swaps its map
  without a change of epoch throws no open movement away.
- `Numbered`: what is on its way is numbered upwards, beyond what was received and up to
  what was minted. This is what makes a refusal of a gap or of a duplicate impossible
  to confuse with one another.
- `Acknowledged`: no snapshot acknowledges what the client has not minted. Prediction
  restarts its window when it sees such a number, and would drop open movement.
- `Accounted`: the session's queue continues its acknowledgement number by number, and held
  movement is of an acknowledged command, outside gates and locks.
- `Whole`: every number between received and minted is on its way, as long as nothing was
  thrown away. It is stated over numbers, and `StreamIsWhole` follows with `Numbered`.
- `Replayed`: movement that is queued or on its way is in the window, and was predicted
  at the place the replica has. The second half is needed for the first: the swap of
  a map empties the window, and `Replayed` says there is nothing open then.

## 10. SimRuntime

The tick's services, one call a step. Three tables of slots with generations have
the same shape (scheduler, actions, spawn requests), and here the same operators.

| variable | in the code |
|---|---|
| `world` | `Scheduler` (`jobs`, and `owned` for its owner index), `ActionTable` (`actions`, `holds`), `SpawnSchedule` (`spawns`), players' bodies, monsters, `AbilityRuntime` cooldowns; `starts` is a bound and `refused` a history: the scheduler was full |
| `phase`, `fired` | where `simulate_tick` is, and the rest of the batch that was drained from its slots and is not applied yet |
| `stopped` | the players `stop_uncommitted_player_actions` has found without control in this tick |

`BeginTick` advances, stops players and drains the critical lane; `ApplyFired` applies one
job (`apply_fired_job`: an ability's phase, a replacement, a corpse);
`RequestAbility` is `request_ability`; `NpcsAndDeferred` is contact damage
and the deferred drain. A strike hits any of the targets alive, one after the
other and each once (`Struck`; the code also cuts the list at the ability's
`max_targets`), and so does contact with the players, whom damage immunity
spares a second hit; `Respawn`, `BeginTransition`, `Leave`, `Enter` are what
GameplayOwner does to World between ticks.

| run | instance | shows |
|---|---|---|
| `sim_runtime` | 2 players, a strike with windup and a dash, 2 homes with at most 4 monsters ever, scheduler of 4, lanes of 2 and 1 a tick, 2 abilities started | `RuntimeIsSound`, `PopulationIsKept`, and `ServicesFinish` under `FairSim` |

`RuntimeIsSound` is `SimTypeOK`, `SlotsAreSound`, `JobsHaveOwners`, `ActionsAreTimed` and
`OnlyTheLivingAct`.

A deferred lane of one lets corpses and replacements wait, a critical lane of two
drains two timers of which the first may end what the second names, and a
scheduler of four is full when two monsters are dead: then it refuses a timer, and no caller in the
modelled paths looks at the refusal. That leaves an ability without an end or a home
without a monster, so `ActionsAreTimed`, `PopulationIsKept` and `ServicesFinish` are
stated up to `world.refused`; the code's capacity is 4096 jobs. Times are ticks left, so only
their order matters.

Fairness: the tick loop runs on whatever clients send (`[]<><<TRUE>>_phase`; only the
tick changes the phase). Left out: effects, pulses and grants, monsters' own
abilities, positions (whom a blow may hit is a choice), the cut at
`max_targets` (fewer targets are among the choices), developer resets.

### What is proved

`RuntimeProofs` proves `RuntimeStaysSound` (`SimSpec => []RuntimeIsSound`) and
`PopulationStays` (`SimSpec => []PopulationIsKept`) from `SimAssumption` alone: for
every finite set of players and homes, any abilities, timings, respawn delay,
capacity of the scheduler, ceiling and budget of its lanes, and any bounds. An
ability may have no phase that lasts: it then ends in the call that starts it.

The proof first shows what the tables do: `Put` gives out an identity that was never
given out, `Take` ends identities for good (`Given`: a generation that a slot has
passed names nothing again). On these rests the inductive invariant `SimInv`:

- `AllRight`: a job, in its slot or drained, names only what its table has given out, and
  keeps to the lane and owner of its kind. A stale timer is allowed; since
  identities do not come back, it can never come to name a later action.
- `Unique`: at most one job is coming for one action, request or corpse, drained ones
  included. `Timed`, `Asked` and `Corpses` say that there is at least one, the first and the third unless
  the scheduler has refused a job. A request always has its spawn, since `Killed`
  takes it back when the scheduler refuses.
- `Owned`: the owner lists are the timers' owners, and an owner is in the world, a
  monster only while it is a corpse. So cancelling an owner takes just what it
  owns, and the spawn job, which belongs to nobody, outlives the corpse's cleanup.
- `Acting`: `holds` and the action table agree, and who acts is alive. It is what lets
  `Interrupted`, given only the player's entry, end the whole of what the player does.
- `Populated`: homes and monsters match one to one, and for a corpse and the
  replacement of its home `CorpseFirst`: the despawn is due earlier, or stands earlier in the drained
  batch, or is drained while the spawn is not. A smaller due time alone is not
  inductive, for a lane that runs late drains both in one batch; there it is
  the order of the drain (`DueOrder`) that keeps them apart.
- `Bounded`: the scheduler holds no more than its capacity, and monsters and requests
  no more than `MaxNpc`, so a replacement always finds a number.

The hits of one strike are a recursion over their sequence. That the invariant holds
after each of them, and that the striker's own action is spared (`StruckOwing`), is an
induction made with a least counterexample (`LeastNumber`).

While an action passes from one phase to the next, its old timer is gone and the
new one not set: the lemmas about `Recover`, `Activated` and the hits between
them are stated with the invariant less the timers of a set of actions
(`Owing(w, f, ids)`), and a step starts and ends with that set empty.

`ServicesFinish` is only model-checked.

## 11. DialogueSession

One player's conversations, from the key to the stored answer and back to the bubble.

| variable | in the code |
|---|---|
| `server` | World's `InteractionSession` of the player (`session`, `opened`), `DialogueRuntime` (`talk`), `SessionInput::ui_locked` (`locked`), `dialogue_reopen_after_tick` as ticks left (`reopen`), `NarrativeRuntime` (`heard`), the binding's one durable command (`staged`) with `commit_uncertain` and `reconcile_required` (`control`), and whether the session stores durably at all |
| `inbox`, `outbox` | requests on their way to the owner, and the interact channel with the stream behind it |
| `client` | `UIRuntimeState` (`ui`), and `active`, `pending` and `accepted` of the client's `DialogueRuntime` |
| `done`, `lost` | histories: the choices executed; a request or an event was thrown away |

`PressInteract`, `Click` and `Escape` are the three polls of the player's keys and
mouse, `ApplyEvent`, `AcceptanceFades` and `TargetMissing` the rest of the client's frame.
`Receive` is `apply_input` with the four handlers; `Tick` and `Relocate` end a session
from outside; `StageOther`, `SettleStored` and `SettleOtherwise` are the durable gate:
while a choice or a heard beat is stored, the player may close, move and open again.
The conditions of an entry beat are a choice; what a choice gives is only that its
beat is heard.

| run | instance | shows |
|---|---|---|
| `dialogue_session` | one NPC with an offer made once that leads to more talk, a goodbye without choices, one other target; 3 sessions, 1 request and 2 events under way, a cooldown of 1 tick | `DialogueIsSound`, `ChosenOnce`, `PanelIsCurrent` |

`DialogueIsSound` is `TypeOK`, `TalkHasSession` (no conversation outlives its session, and
no late commit revives or advances another one) and `LockedIsTalking` (the player
is held exactly while a conversation lasts). Three sessions are one whose answer is
late, the one opened meanwhile, and the one that replaces it. Two events are what one request is answered with; with three the same properties hold
on 7.7 million states, which is too long for a run of this project. A run may
stop: a request that was thrown away leaves the panel opening for good, and the
sessions are bounded.

Left out: detaching and the loss of authority, changes of screen (they clear the
client's half), the developer's moves and resets (`gameplay.rs:3457`, `4488`,
`4519` close the session and keep the conversation), which items, abilities
and facts the actions of a choice touch.

Read while modelling, and not a property of a run: a terminal choice starts no
reopen cooldown, since `commit_choice` has removed the conversation before
`finish_dialogue` looks for it (`docs/NPC_DIALOGUE_RUNTIME.md:321` speaks of every
real dialogue), so nothing guards a player who presses the key once more; an Opening or
Closing panel has no timeout, so a request that is dropped (`app.rs:2131`,
`gameplay.rs:2747`) keeps the key ignored until the screen changes.

### What is proved

`DialogueSessionProofs` proves `DialogueSound`: `Spec => []DialogueIsSound`, for
every dialogue (beats, entries, where choices lead), every set of targets, every
cooldown and any capacity of the channels.

`DialogueIsSound` is inductive; the proof regroups it (`Inv`) into `Sound`, which
is about one state of the owner, and the types of the rest. Every step of the owner ends
in `Become(s, events)` with an `s` built from `Shut`, `Cleared`, `Reached`, `Committed`
and their like, so the lemmas say which of these make a sound state from a
sound one, or from a merely typed one: `Cleared` does from any, and is
what makes `Shut` and `Moved`, which alone would leave a conversation without
its session, safe; `Reached` does only behind `Matched`; `Committed` only
because it compares the whole conversation with the one the plan was made in.
The mutants of the run drop each of these in turn.

`ChoicesAreOnce` proves `Spec => []ChosenOnce` for every dialogue whose beats can be
ranked so that the rank grows along each choice (`Ranks`): where a choice leads
back to a beat, the beat may rightly be answered again. Its invariant, `Ordered`, says
that the answered beats of a conversation rank below the one it is at, also for the
conversation a staged choice was planned in; that this conversation is still the
current one if its session is (so what is told from `from` is refused or finds its
own beat); that a session without a conversation, and any session opened behind a staged
choice or heard beat, has had no answer; and that session ids grow. The last but
one is why a heard beat that is stored late, and ends whatever conversation there is, does
not leave a session in which a beat could be answered a second time.

`PanelCurrent` proves `Spec => []PanelIsCurrent`. The property speaks of a moment when
nothing is on its way; its invariant, `PanelInv`, says what is on its way, for as long as
nothing was lost:

* of the events in `outbox`, the last one that changes the panel, if it opens a
  session, opens the one there is, with its line behind it; and the last line, if no
  such event follows, is of the beat the server is at (`Foretold`);
* if no event that changes the panel is on its way, an active panel shows the
  session there is, and its line, if none is on its way, is current (`Displayed`);
* a panel that is opening or closing has its request in `inbox` or an event that
  changes it in `outbox` (`Awaited`);
* a line, wherever it is, belongs to a session that was opened, and to the target of
  the present one if it has its id (`Spoken`, `Numbered`): sessions get new ids, so
  a line of a replaced conversation is never taken for a current one.

A step of the owner enters the argument only as what it tells (`Told`): nothing, if
session and conversation stay; a refusal or an end; a session with its line; the
next line. That every handler is of one of these forms is most of the proof, and is
where the code could be wrong: a path that changed the conversation and sent
nothing would be none of them.

## 12. ChannelAuthority

One server process at a time runs the channel. It claims it at startup, renews the
claim while it serves, and gives it back when it shuts down; every ground row carries
the generation under which it was dropped. The processes know of each other through
one row only, and a transaction that needs the row may wait for it while time passes.
`GroundItems` takes the end of a channel as an event; this module says who may cause
it, and when.

| variable | code |
|---|---|
| `clock` | the database's `clock_timestamp()` and tokio's `Instant`, which advance together |
| `row` | the row of `channel_generations`; generation 0 is no row |
| `items` | `item_instances`: with a character, on the ground with a stamp, or retired |
| `locked`, `claimed` | who has locked the channel's row, and the row of an item (`FOR UPDATE`, `UPDATE`) |
| `server` | `state`: main task from `claim_startup_channel` to `finish_shutdown`; `renewal`, `extended`: `supervise_renewal`; `deadline`, `lost`, `mail`: the owner and its lifecycle queue; `shown`, `asked`: drops it presents and items reserved by a command |
| `queue`, `tx` | requests to the worker, and the transaction it is in |
| `known` | `PostgresStore::channels`, the generation the connection remembers |
| `wrote` | history: the generations that dropped or expired something |

`Begin` takes a request from the queue. `LockChannel` is the wait for the channel's
row together with the test that follows it, whose time is read after the wait (`claim_channel`,
`lock_live_channel`, the WHERE of a renewal or a release). `LockRow` and `RowsLocked`
are the item rows: a drop locks the channel and then its item, a retirement its item and then the
channel, a pickup only its item, a claim the channel and then every ground row of an
earlier stamp. `Commit`, `CommitLost` and `Abort` end a transaction; a process that
crashes leaves one behind, which ends without it. `ClaimAnswered` serves or, when the
answer crossed the deadline, asks for the release. The owner's ground goes on expiring
until the deadline, players stop when authority is lost. Ownership and revisions of
characters are CharacterLease's and DurableCommands' subject and left out.

| run | instance | shows |
|---|---|---|
| `channel_authority` | 2 processes, one of which may crash and has an active player with 1 item; expiry 2 of 3 instants, 2 generations | `ChannelIsSound`, `ChannelIsFenced`, `StartEnds` |

`ChannelIsSound` is `TypeOK`, `OneActs` and `GroundIsCurrent`. `OneActs`: at most one
process acts, and the row is its own and unexpired while it does; the local deadline counts from the request and the row's from a later
moment, after every wait. `GroundIsCurrent`: a ground row has the generation of the
row, since a claim retires the others in the transaction that raises it and a drop holds the lock from its
test to its commit. `ChannelIsFenced` is `FencedLease` again, with a generation for a
token: one is issued only while none is in use, and the ground is written under the
last one. `StartEnds`: a process that starts serves or stops. Two instants of authority
and a third for the next process are enough for a renewal, an expiry, a late answer
and a late commit; a third generation would repeat the second. One process crashes and
has an active player, and it comes first as well as second, and twice. Deadlock checking is off: the
clock stops at its bound.

Fairness: the worker's loop and the main task run while their process does (weak);
whoever waits for a row gets it although others lock it in between, as the database
queues waiters (strong); and two transactions that wait for each other, or one whose
process is gone, are ended by the database. The last is not idle: a retirement of an
old process and the claim of a new one do wait for each other, and without it `StartEnds`
fails.

### What is proved

`ChannelAuthorityProofs` proves, for every set of processes and of items, every expiry, every
capacity of the queues and every bound on claims and time:

* `ChannelStaysSound`: `Spec => []ChannelIsSound`;
* `ChannelImplementsFencedLease`: `Spec => ChannelIsFenced`.

The inductive invariant is `ChannelInv`. `OneActs` compares a deadline in one process with a row that
a transaction of another may be about to change, so the invariant says what every
party on the way may count on: which stage of which transaction holds the
channel's row and which the item rows (`Locks`); that what a transaction found in rows it holds
is still so, for instance that a claim about to commit takes the generation after the
row's, that the row has expired, and that the claim retires every row still on the ground (`Judged`); what a
process may have asked for, and hold, in each of its states, one renewal at a time and one request per item
(`Phases`, `Renews`, `OneRequest`); that every deadline a process, an answer or a mail
holds is over, or the row has its generation and lasts at least as long (`Deadlines`,
`Times`); that no generation above the row's is known to anybody and each is one
process's (`Issued`, `OneUser`); and that a ground row has the row's stamp, and
an item some process still shows or is about to take is not owned (`Grounds`). The last
is what keeps the late pickup of an old process from taking an item of the new one.
TLC checked the invariant on an instance with two processes before it was proved.

`StartEnds` is only model-checked.

## 13. Disagreements met while modelling

Each has a configuration beside the runs that reproduces its counterexample
(`tlc -config X.cfg M`). They are not in the list of runs; the properties of the
listed runs are stated so as to leave out exactly these cases.

| configuration, module | property | what the code does | what is said of it |
|---|---|---|---|
| `durable_realigned`, `MCDurableCommands` | `RejectedIsNotStored` | A command of unknown outcome waits for its retry; a snapshot report raises the committed revision, and `align_stored_command` (`durable_owner_methods.rs:207`) rewrites the retry's revision *and key*. The stored result is filed under the old key, so the command is refused as a conflict with its own effect. The unique indexes still keep a second execution from duplicating an item. | the comment above the function: a command already given to the worker is not rewritten |
| `worker_logout`, `MCPersistWorker` | `DrainedFinishedSnapshots` | The drain of `Shutdown` (`persist.rs:682`) writes `Save` only; a logout's `SaveAwaited` behind the shutdown is dropped, and the answer is still `Drained`. | the worker finished the queued snapshots |
| `ground_restore`, `MCGroundItems` | `RestoreApplies` | A pickup commits after its player has died or gone out of reach; World refuses it, the record of the drop stays, the restore finds it and fails (`durable_owner_methods.rs:449`), and nobody asks again. | a restore replaces the live items and answers the request |
| `ground_starved`, `MCGroundItems` | `ExpiryReachesAll` | A due item that is reserved is taken from the deferred queue, put back and taken again until the batch is used up (`durable_owner_methods.rs:1851`); while it is reserved nothing else expires. | ground items expire after their lifetime |
| `ground_release`, `MCGroundItems` | `DropEntityHasItem` | The despawn of a picked up drop is the argument of `debug_assert!` (`world.rs:903`), which a release build does not evaluate. | the assertion |
| `replica_return`, `MCReplicaStream` | `ReturnedIsSeen` | An entity that leaves and comes back before its Leave was sent: the Leave is sent, and as the interest is no longer stale nothing enters it again until it or the observer crosses an edge (`replication.rs:532`). | `docs/PROTOCOL.md:558` "Leave = AOI exit; re-enter is a new Enter baseline"; `docs/PHASE_6D_REPORT.md:74` "far entities leave then re-enter without stuck Known" |
| `client_late_frame`, `MCClientSession` | `GameShowsActive` | Frames carry no attempt and are applied on every screen (`app.rs:720`); those of a session that ended, still in the channel or pushed after the drain, are in the replica when the next one enters the game. A higher epoch of the old session hides the new one's. | ADR-0022 (`docs/DECISIONS.md:167`) "Network events carry that id; stale ids are ignored"; `docs/ARCHITECTURE.md:278` "screen/disconnect clear" |
| `input_gap`, `MCInputWindow` | `WindowReopens` | A command of the current epoch is thrown away (by the rate window, or while the session is blocked): every later one is refused for the gap, the acknowledgement stops below the barrier, and the window stays full until the epoch changes. | the comment at `app.rs:2407` "full send window is a HeldCancel barrier, not silent stall"; ADR-0031 |
| `dialogue_once`, `MCDialogueSession` | `OnceIsOnce` | An entry is selected from what has been heard so far. The player answers, leaves while the answer is being stored, and opens again after the cooldown of 15 ticks: the beat of pool `once` is selected a second time, and the second answer, with a key of its own revision, is executed too (`gameplay.rs:4242`, `dialogue.rs:145`). Its actions are carried out twice. | `docs/NPC_DIALOGUE_RUNTIME.md:184` "`once`: Suppressed after that Beat is Heard" |
| `dialogue_talk`, `MCDialogueSession` | `SessionHasTalk` | A heard beat is stored late, when another conversation has begun: publishing it calls `finish_dialogue`, which ends whatever conversation there is and leaves its session open (`durable_owner_methods.rs:926`). | `docs/N10_RUNTIME_PLAN.md:90` "Stop if dialogue lifetime diverges from authoritative InteractionSession lifetime." |
| `dialogue_line`, `MCDialogueSession` | `LineIsOfPanel` | `apply_interact` drops the line of a replaced session and keeps the one that waits behind an accepted choice (`dialogue_runtime.rs:137`); `tick` then shows it beside the new session, without the test `apply_line` makes. | `docs/NPC_DIALOGUE_RUNTIME.md:406` "An incoming line is activated only when its session and target match"; `docs/N10C_DIALOGUE_SESSION_HANDOFF.md:53` "clears it on interaction close, session mismatch" |
| `dialogue_held`, `MCDialogueSession` | `HeldPlayerSees` | Rejected and Closed turn the panel idle whatever they are about (`ui_runtime.rs:83`): the refusal of a portal, or the late end of an earlier session, hides a conversation that still holds the player's input. Pressing the key again resumes it. | nothing; the panel is said to be a mapping of the server's control (`ui_runtime.rs:44`) |
| `channel_kept`, `MCChannelAuthority` | `KeptIsKept` | A claim selects the ground rows it retires and then waits for their locks (`lifecycle.rs:411`); a pickup that commits meanwhile (it does not lock the channel) has given the item to a character, and the update retires it all the same, since only `item_instance_id IN (...)`, from the snapshot, is tested again after the wait. It rests on how PostgreSQL re-checks an UPDATE under READ COMMITTED. | `docs/PHASE_12B_LIFECYCLE.md:51` "A claimed generation retires live ground rows whose stamp is not the new generation" |
| `framed_read`, `FramedRead` | `FramesArriveWhole` | see below | `docs/PROTOCOL.md:218`, `docs/ARCHITECTURE.md:320`, the comment at `runtime.rs:44` |

`FramedRead` models frames with a length prefix on one stream, arriving in pieces, and
a reader that is a branch of a `select!`. `PieceArrives` is the stream (quinn, external),
`ReadPrefix` and `ReadBody` the two `read_exact` of `read_replication_frame` and
`read_server_control` on the client (`apps/client/src/network/runtime.rs:1509`) and
`read_client_control` on the server, and `OtherBranch` any other branch that
completes first, which drops the future of the read with the bytes it has taken.
It rests on one fact about a library: `read_exact` of a quinn `RecvStream` consumes
as it goes. In `live_loop` another branch completes with every input that is sent,
once a tick. A frame that is split between packets, one of them late, is cut
short: the next read takes bytes of a body for a length, and the session ends with
a malformed message, or the frame and the ones behind it are lost. The documents
promise that loss on a reliable stream shows only as delay, and that an Enter or a
Leave cannot be dropped. A reader that keeps its buffer across the turns of the
loop would hold the property.

## 14. What is only model-checked, and what is not modelled

Liveness (`AwaitsEnd`, `StagedSettles`, `HandedIsTried`, `DropsDisappear`,
`ClientConverges`, `WaitsEnd`, `BarrierIsLifted`, `ServicesFinish`, `StartEnds`) is beyond the
prover. Every invariant and every other action property that a passing run checks is a theorem;
what the theorems add to the runs is every value of the constants, and what they
take from the runs is that TLC has checked the same formulas on the same modules.

A run checks several invariants as one where they say one thing together; each part has its own
name and comment in its module, and the mutants named in `PROJECT.json` break the
parts one at a time.

Not modelled, with the reason: simulation geometry and prediction's physics (floating
point), content, animation and skeleton loading (immutable after start), rendering and user
interface, development tools and hubs (operating system processes and files),
statistics, certificates and endpoints. Not modelled yet: what rows 12 and 13 of the
plan name.
