----------------------------- MODULE SimRuntime -----------------------------
(***************************************************************************)
(* The runtime services of the simulation world: the tick scheduler, the   *)
(* action table with the abilities that run in it, the spawn schedule, and *)
(* the death, despawn and respawn of monsters (crates/simulation, driven   *)
(* by GameplayOwner::simulate_tick in apps/server).                        *)
(*                                                                         *)
(* Nothing here runs concurrently; what is hard is that every handle       *)
(* outlives what it names.  Ending an action leaves its timer in the       *)
(* scheduler, a drained batch is taken out of its slots before the first   *)
(* of its jobs is applied, and applying one job may end the action, kill   *)
(* the entity or take the slot that a later one names.  Slots are reused,  *)
(* so only generations tell the old user of a slot from the new one.       *)
(*                                                                         *)
(* One step is one call inside a tick.  A due time is the number of ticks  *)
(* left, and whether a player's movement still dashes is taken from its    *)
(* action.                                                                 *)
(***************************************************************************)
EXTENDS Integers, Sequences, FiniteSets, SequencesExt, FiniteSetsExt

CONSTANTS
  Player,      \* the players, each with one entity while it is in the world
  Home,        \* the places monsters are spawned at
  Ability,     \* the abilities players may use
  Timing,      \* Timing[a]: the ticks of each phase, the cooldown, whether a dashes
  RespawnDelay,\* ticks a corpse stays
  Capacity,    \* SCHEDULER_CAPACITY
  Ceiling,     \* CRITICAL_DRAIN_CEILING
  Budget,      \* DEFERRED_DRAIN_BUDGET
  MaxNpc,      \* bound: monsters ever spawned
  MaxStarts    \* bound: abilities ever started

SimAssumption ==
  /\ Timing \in [Ability -> [windup : Nat, active : Nat, recovery : Nat,
                             cooldown : Nat, dash : BOOLEAN]]
  /\ RespawnDelay \in Nat \ {0} /\ Capacity \in Nat
  /\ Ceiling \in Nat \ {0} /\ Budget \in Nat \ {0}
  /\ MaxNpc \in Nat /\ MaxStarts \in Nat
  /\ IsFiniteSet(Player) /\ Player \cap (0 .. MaxNpc) = {}
  /\ IsFiniteSet(Home) /\ Cardinality(Home) <= MaxNpc
ASSUME SimAssumption

VARIABLES
  world,    \* scheduler, actions, spawn schedule, bodies, monsters, cooldowns
  phase,    \* how far simulate_tick is
  fired,    \* the drained jobs that are not applied yet
  stopped   \* the players whose control has ended, as this tick found them
SimVars == <<world, phase, fired, stopped>>

Npc     == 1 .. MaxNpc
Entity  == Player \cup Npc
World   == 0          \* the owner of what belongs to no entity
Nothing == [gen |-> 0]

-----------------------------------------------------------------------------
(* Generational slot tables: the scheduler's, the actions', the requests'.  *)

EmptyTable == [slots |-> <<>>, gens |-> <<>>, free |-> <<>>]

\* The identity the next item gets, and the table with the item in it.
NextId(t) == IF t.free = <<>> THEN [slot |-> Len(t.slots) + 1, gen |-> 1]
             ELSE [slot |-> Last(t.free), gen |-> t.gens[Last(t.free)]]
\* Mutant: the free slot is read and not popped.
Put_KeepsFree(t, item) ==
  IF t.free = <<>>
  THEN [slots |-> Append(t.slots, item), gens |-> Append(t.gens, 1), free |-> <<>>]
  ELSE [t EXCEPT !.slots[Last(t.free)] = item]
Put(t, item) ==
  IF t.free = <<>>
  THEN [slots |-> Append(t.slots, item), gens |-> Append(t.gens, 1), free |-> <<>>]
  ELSE [t EXCEPT !.slots[Last(t.free)] = item, !.free = Front(@)]

\* The identities that name something; an old one names nothing.
Ids(t) == {[slot |-> s, gen |-> t.gens[s]] :
             s \in {s \in DOMAIN t.slots : t.slots[s] # Nothing}}
Item(t, id) == t.slots[id.slot]

\* Mutant: a slot is given out again under the generation it had.
Take_KeepsGeneration(t, ids) ==
  LET out == {id.slot : id \in ids \cap Ids(t)}
  IN  [slots |-> [s \in DOMAIN t.slots |-> IF s \in out THEN Nothing ELSE t.slots[s]],
       gens  |-> t.gens,
       free  |-> t.free \o SetToSeq(out)]
\* Taking items out frees their slots, in some order, under the next
\* generation; stale identities take nothing.
Take(t, ids) ==
  LET out == {id.slot : id \in ids \cap Ids(t)}
  IN  [slots |-> [s \in DOMAIN t.slots |-> IF s \in out THEN Nothing ELSE t.slots[s]],
       gens  |-> [s \in DOMAIN t.gens |-> IF s \in out THEN t.gens[s] + 1 ELSE t.gens[s]],
       free  |-> t.free \o SetToSeq(out)]

-----------------------------------------------------------------------------
(* The scheduler. *)

Timers(w) == Ids(w.jobs)
JobOf(w, id) == Item(w.jobs, id)

\* Mutant: the capacity is not looked at.
Schedule_Unbounded(w, due, owner, lane, kind, of) ==
  LET seq == 1 + Max({0} \cup {JobOf(w, id).seq : id \in Timers(w)})
      job == [due |-> due, seq |-> seq, owner |-> owner, lane |-> lane,
              kind |-> kind, of |-> of]
  IN  [w EXCEPT !.jobs = Put(@, job),
                !.owned = [e \in Entity |-> IF e = owner THEN @[e] \cup {NextId(w.jobs)}
                                            ELSE @[e]]]
\* Refusing a job is silent for every caller modelled here; refused remembers it.
Schedule(w, due, owner, lane, kind, of) ==
  LET seq == 1 + Max({0} \cup {JobOf(w, id).seq : id \in Timers(w)})
      job == [due |-> due, seq |-> seq, owner |-> owner, lane |-> lane,
              kind |-> kind, of |-> of]
  IN  IF Cardinality(Timers(w)) >= Capacity
      THEN [w EXCEPT !.refused = TRUE]
      ELSE [w EXCEPT !.jobs = Put(@, job),
                     !.owned = [e \in Entity |->
                                  IF e = owner THEN @[e] \cup {NextId(w.jobs)} ELSE @[e]]]

CancelOwner(w, e) == [w EXCEPT !.jobs = Take(@, w.owned[e]), !.owned[e] = {}]

Limit(lane) == IF lane = "critical" THEN Ceiling ELSE Budget

\* FIFO: by due tick, then in the order they were scheduled.
Before(a, b) == a.due < b.due \/ (a.due = b.due /\ a.seq < b.seq)
DueOrder(w, lane) ==
  LET due == {id \in Timers(w) : JobOf(w, id).lane = lane /\ JobOf(w, id).due <= 0}
  IN  CHOOSE ids \in [1 .. Cardinality(due) -> due] :
        \A i, k \in DOMAIN ids : i < k => Before(JobOf(w, ids[i]), JobOf(w, ids[k]))

\* The jobs one pass fires, first to last; at least one if any is due.
Batch(w, lane) ==
  LET ids == DueOrder(w, lane) IN SubSeq(ids, 1, Min({Len(ids), Limit(lane)}))

TakenOut(w, ids) ==
  [w EXCEPT !.jobs = Take(@, ids), !.owned = [e \in Entity |-> @[e] \ ids]]

-----------------------------------------------------------------------------
(* Actions and abilities. *)

Action(w, id) == Item(w.actions, id)
ActiveOf(w, p) == {id \in Ids(w.actions) : id = w.holds[p]}
IsDash(w, id)  == Timing[Action(w, id).ability].dash

\* end_action: the slots are freed and their owners may act again.  The timer
\* of the phase stays in the scheduler.
EndActions(w, ids) ==
  LET live == ids \cap Ids(w.actions)
  IN  [w EXCEPT !.actions = Take(@, live),
                !.holds = [p \in Player |-> IF @[p] \in live THEN Nothing ELSE @[p]]]
Interrupted(w, ps) == EndActions(w, {w.holds[p] : p \in ps})

SetPhase(w, id, to) == [w EXCEPT !.actions.slots[id.slot].phase = to]
Advance(w, id, ticks) ==
  Schedule(w, ticks, Action(w, id).owner, "critical", "advance", id)

\* Mutant: nothing will end the recovery.
Recover_Untimed(w, id) ==
  IF Timing[Action(w, id).ability].recovery = 0 THEN EndActions(w, {id})
  ELSE SetPhase(w, id, "recovery")
Recover(w, id) ==
  LET ticks == Timing[Action(w, id).ability].recovery
  IN  IF ticks = 0 THEN EndActions(w, {id}) ELSE Advance(SetPhase(w, id, "recovery"), id, ticks)

FreshNpc(w)    == Len(w.npcs) + 1
AliveNpcs(w)   == {n \in DOMAIN w.npcs : w.npcs[n].state = "alive"}
AlivePlayers(w) == {p \in Player : w.body[p] = "alive"}

\* Mutant: the replacement belongs to the corpse.
Killed_OwnedSpawn(w, n) ==
  LET dying == [w EXCEPT !.npcs[n].state = "dying"]
      gone  == Schedule(dying, RespawnDelay, n, "deferred", "despawn", n)
      id    == NextId(gone.spawns)
      asked == [gone EXCEPT !.spawns = Put(@, [home |-> w.npcs[n].home])]
      timed == Schedule(asked, RespawnDelay + 1, n, "deferred", "spawn", id)
  IN  IF Cardinality(Timers(asked)) >= Capacity
      THEN [timed EXCEPT !.spawns = Take(@, {id})] ELSE timed
\* handle_zero_health: the corpse's despawn and its replacement are scheduled
\* together; a request the scheduler refuses is taken back.
Killed(w, n) ==
  LET dying == [w EXCEPT !.npcs[n].state = "dying"]
      gone  == Schedule(dying, RespawnDelay, n, "deferred", "despawn", n)
      id    == NextId(gone.spawns)
      asked == [gone EXCEPT !.spawns = Put(@, [home |-> w.npcs[n].home])]
      timed == Schedule(asked, RespawnDelay + 1, World, "deferred", "spawn", id)
  IN  IF Cardinality(Timers(asked)) >= Capacity
      THEN [timed EXCEPT !.spawns = Take(@, {id})] ELSE timed

\* Mutant: a player killed keeps the ability it had begun.
HurtPlayer_KeepsAction(w, p, kills) ==
  IF kills THEN [w EXCEPT !.body[p] = "dead"]
  ELSE IF \E id \in ActiveOf(w, p) : IsDash(w, id) THEN Interrupted(w, {p})
  ELSE w
\* Damage to a player: death interrupts what it does, a wound only a dash.
HurtPlayer(w, p, kills) ==
  IF kills THEN Interrupted([w EXCEPT !.body[p] = "dead"], {p})
  ELSE IF \E id \in ActiveOf(w, p) : IsDash(w, id) THEN Interrupted(w, {p})
  ELSE w

\* One hit on a target chosen before the first of them: what has died since
\* takes no harm.  A monster survives where MaxNpc has no room for another.
Hit(w, blow) ==
  IF blow.on \in AlivePlayers(w) THEN HurtPlayer(w, blow.on, blow.kills)
  ELSE IF /\ blow.kills /\ blow.on \in AliveNpcs(w)
          /\ FreshNpc(w) + Cardinality(Ids(w.spawns)) <= MaxNpc
  THEN Killed(w, blow.on)
  ELSE w

\* Hits one after the other.
Struck(w, blows) ==
  LET after[n \in 0 .. Len(blows)] == IF n = 0 THEN w ELSE Hit(after[n - 1], blows[n])
  IN  after[Len(blows)]

\* Any of the targets, each once and in the order the query finds them.
Volleys(targets) ==
  {blows \in UNION {[1 .. n -> [on : targets, kills : BOOLEAN]] : n \in 0 .. Cardinality(targets)} :
     \A i, j \in DOMAIN blows : blows[i].on = blows[j].on => i = j}

\* What an ability of p may hit when it becomes active: a dash nothing, any
\* other whoever else is alive.
Blows(w, p, a) ==
  Volleys(IF Timing[a].dash THEN {} ELSE (AlivePlayers(w) \ {p}) \cup AliveNpcs(w))

Activated(w, id, blows) ==
  LET struck == Struck(SetPhase(w, id, "active"), blows)
      ticks  == Timing[Action(w, id).ability].active
  IN  IF ticks = 0 THEN Recover(struck, id) ELSE Advance(struck, id, ticks)

\* Mutant: the timer of an ended action finds whatever is in its slot now.
Named_BySlot(w, id) ==
  {x \in Ids(w.actions) : x.slot = id.slot}
Named(w, id) == {x \in Ids(w.actions) : x = id}

\* on_ability_phase_due: a timer whose action is gone does nothing.
PhaseDue(w, id, blows) ==
  CASE Action(w, id).phase = "windup"   -> Activated(w, id, blows)
    [] Action(w, id).phase = "active"   -> Recover(w, id)
    [] Action(w, id).phase = "recovery" -> EndActions(w, {id})

-----------------------------------------------------------------------------
(* Entities. *)

\* Mutant: an entity leaves its timers behind.
Cleanup_KeepsTimers(w, e) == IF e \in Player THEN Interrupted(w, {e}) ELSE w
\* cleanup_owned_runtime and the restorations: every job the entity owns is
\* cancelled and its action dropped.
Cleanup(w, e) ==
  LET quiet == CancelOwner(w, e) IN IF e \in Player THEN Interrupted(quiet, {e}) ELSE quiet

Ready(w, p) == [w EXCEPT !.cooling[p] = [a \in Ability |-> 0]]

\* The SpawnDue job takes its request; the monster gets a new identity.
Spawned(w, id) ==
  IF id \in Ids(w.spawns)
  THEN [w EXCEPT !.spawns = Take(@, {id}),
                 !.npcs = Append(@, [home |-> Item(w.spawns, id).home, state |-> "alive"])]
  ELSE w
Despawned(w, n) ==
  IF w.npcs[n].state = "gone" THEN w ELSE Cleanup([w EXCEPT !.npcs[n].state = "gone"], n)

Later(d) == IF d = 0 THEN 0 ELSE d - 1
Nearer(job) == [job EXCEPT !.due = @ - 1]
\* A tick passes.
Older(w) ==
  [w EXCEPT !.jobs.slots = [s \in DOMAIN @ |-> IF @[s] = Nothing THEN Nothing
                                               ELSE Nearer(@[s])],
            !.cooling = [p \in Player |-> [a \in Ability |-> Later(@[p][a])]]]

-----------------------------------------------------------------------------
(* The calls of a tick, in the order simulate_tick makes them. *)

SimInit ==
  /\ \E order \in [1 .. Cardinality(Home) -> Home] :
       /\ IsInjective(order)
       /\ world = [jobs |-> EmptyTable, owned |-> [e \in Entity |-> {}],
                   actions |-> EmptyTable, holds |-> [p \in Player |-> Nothing],
                   spawns |-> EmptyTable, body |-> [p \in Player |-> "alive"],
                   npcs |-> [n \in DOMAIN order |-> [home |-> order[n], state |-> "alive"]],
                   cooling |-> [p \in Player |-> [a \in Ability |-> 0]],
                   starts |-> 0, refused |-> FALSE]
  /\ phase = "messages" /\ fired = <<>> /\ stopped = {}

\* The world's half of respawning a dead player, of a transition that
\* begins, and of a player that leaves or comes.
Respawn(p) ==
  /\ phase = "messages" /\ world.body[p] = "dead"
  /\ world' = [Cleanup(world, p) EXCEPT !.body[p] = "alive"]
  /\ UNCHANGED <<phase, fired, stopped>>

BeginTransition(p) ==
  /\ phase = "messages" /\ world.body[p] # "out"
  /\ ActiveOf(world, p) # {}
  /\ world' = Interrupted(world, {p})
  /\ UNCHANGED <<phase, fired, stopped>>

Leave(p) ==
  /\ phase = "messages" /\ world.body[p] # "out"
  /\ world' = [Ready(Cleanup(world, p), p) EXCEPT !.body[p] = "out"]
  /\ UNCHANGED <<phase, fired, stopped>>

Enter(p) ==
  /\ phase = "messages" /\ world.body[p] = "out"
  /\ world' = [world EXCEPT !.body[p] = "alive"]
  /\ UNCHANGED <<phase, fired, stopped>>

DrainDue(w, lane) ==
  LET ids == Batch(w, lane)
  IN  /\ world' = TakenOut(w, ToSet(ids))
      /\ fired' = [i \in DOMAIN ids |-> JobOf(w, ids[i])]
      /\ phase' = lane

\* begin_tick, stop_uncommitted_player_actions, drain_critical_scheduler.
BeginTick ==
  /\ phase = "messages"
  /\ \E ended \in SUBSET {p \in Player : world.body[p] # "out"} :
       /\ stopped' = ended
       /\ DrainDue(Interrupted(Older(world), ended), "critical")

\* apply_fired_job, for the first job of the batch.
ApplyFired ==
  /\ fired # <<>> /\ fired' = Tail(fired)
  /\ LET job == Head(fired)
     IN  \/ /\ job.kind = "advance" /\ Named(world, job.of) = {}
            /\ UNCHANGED world
         \/ /\ job.kind = "advance"
            /\ \E id \in Named(world, job.of) :
               \E blows \in IF Action(world, id).phase # "windup" THEN {<<>>}
                            ELSE Blows(world, job.owner, Action(world, id).ability) :
                 world' = PhaseDue(world, id, blows)
         \/ job.kind = "spawn" /\ world' = Spawned(world, job.of)
         \/ job.kind = "despawn" /\ world' = Despawned(world, job.of)
  /\ UNCHANGED <<phase, stopped>>

CriticalApplied ==
  /\ phase = "critical" /\ fired = <<>> /\ phase' = "inputs"
  /\ UNCHANGED <<world, fired, stopped>>

\* request_ability, for a request whose input the tick has reached.  Its checks
\* that only refuse more are left out: respawn recovery, ground contact, grants,
\* input lock.
RequestAbility(p, a) ==
  /\ phase = "inputs" /\ p \notin stopped /\ world.starts < MaxStarts
  /\ world.body[p] = "alive" /\ ActiveOf(world, p) = {} /\ world.cooling[p][a] = 0
  /\ LET id   == NextId(world.actions)
         at   == IF Timing[a].windup > 0 THEN "windup" ELSE "active"
         made == [world EXCEPT !.actions = Put(@, [owner |-> p, ability |-> a, phase |-> at]),
                               !.holds[p] = id, !.cooling[p][a] = Timing[a].cooldown,
                               !.starts = @ + 1]
     IN  IF at = "windup"
         THEN world' = Advance(made, id, Timing[a].windup)
         ELSE \E blows \in Blows(world, p, a) : world' = Activated(made, id, blows)
  /\ UNCHANGED <<phase, fired, stopped>>

\* tick_npcs: the monsters that are alive hurt the players they touch, a
\* player once (damage immunity); then drain_deferred_scheduler.
NpcsAndDeferred ==
  /\ phase = "inputs"
  /\ \E touched \in Volleys(IF AliveNpcs(world) = {} THEN {} ELSE AlivePlayers(world)) :
       DrainDue(Struck(world, touched), "deferred")
  /\ UNCHANGED stopped

EndTick ==
  /\ phase = "deferred" /\ fired = <<>> /\ phase' = "messages" /\ stopped' = {}
  /\ UNCHANGED <<world, fired>>

Message == \E p \in Player : Respawn(p) \/ BeginTransition(p) \/ Leave(p) \/ Enter(p)
Tick == BeginTick \/ ApplyFired \/ CriticalApplied \/ NpcsAndDeferred \/ EndTick
SimNext == Message \/ Tick \/ \E p \in Player, a \in Ability : RequestAbility(p, a)

SimSpec == SimInit /\ [][SimNext]_SimVars
\* The server's tick loop always runs on, whatever clients send: only Tick
\* changes the phase, and in every state it is enabled until it has.
FairSim == SimSpec /\ []<><<TRUE>>_phase

-----------------------------------------------------------------------------
(* Properties. *)

\* The jobs of a kind for one thing: those in their slots and those drained.
Coming(kind, of) ==
  Cardinality({id \in Timers(world) : JobOf(world, id).kind = kind /\ JobOf(world, id).of = of})
  + Cardinality({i \in DOMAIN fired : fired[i].kind = kind /\ fired[i].of = of})

\* The variables have their types.
SimTypeOK ==
  /\ phase \in {"messages", "critical", "inputs", "deferred"}
  /\ stopped \subseteq Player
  /\ world.body \in [Player -> {"alive", "dead", "out"}]
  /\ world.npcs \in Seq([home : Home, state : {"alive", "dying", "gone"}])
  /\ Len(world.npcs) <= MaxNpc
  /\ world.starts \in 0 .. MaxStarts /\ world.refused \in BOOLEAN
  /\ \A i \in DOMAIN fired : fired[i].lane = phase
  /\ \A id \in Timers(world) : JobOf(world, id).owner \in Entity \cup {World}
  /\ Cardinality(Timers(world)) <= Capacity

\* A table's free list names exactly its empty slots, each once, whatever
\* order jobs fire, cancel and reuse slots in: no two items share a slot and
\* none is lost.
SlotsAreSound ==
  \A t \in {world.jobs, world.actions, world.spawns} :
    /\ IsInjective(t.free)
    /\ ToSet(t.free) = {s \in DOMAIN t.slots : t.slots[s] = Nothing}

\* The scheduler's list of an owner names exactly the jobs it owns, and only
\* what is still in the world owns a job: nothing fires for an entity that
\* has left, and cancelling an owner never reaches another's timer.
JobsHaveOwners ==
  \A e \in Entity :
    /\ world.owned[e] = {id \in Timers(world) : JobOf(world, id).owner = e}
    /\ world.owned[e] # {} =>
         IF e \in Player THEN world.body[e] # "out"
         ELSE e <= Len(world.npcs) /\ world.npcs[e].state = "dying"

\* Every ability that runs has exactly one timer that will advance it, unless
\* the scheduler has refused one: a timer left by an ended action never
\* advances the action that has its slot now, and no action waits for none.
ActionsAreTimed ==
  \A id \in Ids(world.actions) :
    \/ Coming("advance", id) = 1
    \/ world.refused /\ Coming("advance", id) = 0

\* A player's entry names the one action it has, and only players alive in
\* the world have one: no blow lands from the dead or from those who left.
OnlyTheLivingAct ==
  /\ \A id \in Ids(world.actions) :
       LET p == Action(world, id).owner
       IN  world.holds[p] = id /\ world.body[p] = "alive"
  /\ \A p \in Player : world.holds[p] # Nothing => ActiveOf(world, p) # {}

\* The tables of timers, actions and replacements agree with one another and
\* with the world.  The run checks them as one.
RuntimeIsSound ==
  SimTypeOK /\ SlotsAreSound /\ JobsHaveOwners /\ ActionsAreTimed /\ OnlyTheLivingAct

\* Each home has its one monster, alive or as a replacement that will come
\* exactly once, and never two bodies: the corpse is gone before the
\* replacement stands, however late the deferred lane runs.
PopulationIsKept ==
  ~world.refused =>
    \A h \in Home :
      LET bodies(s) == {n \in DOMAIN world.npcs : world.npcs[n] = [home |-> h, state |-> s]}
          pending   == {id \in Ids(world.spawns) : Item(world.spawns, id).home = h}
      IN  /\ Cardinality(bodies("alive")) + Cardinality(pending) = 1
          /\ Cardinality(bodies("alive") \cup bodies("dying")) <= 1
          /\ \A id \in pending : Coming("spawn", id) = 1
          /\ \A n \in bodies("dying") : Coming("despawn", n) = 1

HasMonster(h) == \E n \in AliveNpcs(world) : world.npcs[n].home = h

\* No ability occupies its player for ever and no home stays empty, as long
\* as the scheduler refuses nothing.
ServicesFinish ==
  /\ \A s \in 1 .. Cardinality(Player), g \in 1 .. MaxStarts :
       [slot |-> s, gen |-> g] \in Ids(world.actions)
         ~> world.refused \/ ~[slot |-> s, gen |-> g] \in Ids(world.actions)
  /\ \A h \in Home :
       ~ HasMonster(h) ~> world.refused \/ HasMonster(h)
=============================================================================
