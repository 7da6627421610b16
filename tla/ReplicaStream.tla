----------------------------- MODULE ReplicaStream -----------------------------
(***************************************************************************)
(* What one client sees of its surroundings.  The server keeps, for every  *)
(* connection, which entities the client knows and how much of each it has *)
(* been told (ObserverReplicationState); a tick puts at most one frame of  *)
(* Enter, Update and Leave records into a short queue (ReplicationPipe);   *)
(* the connection task writes the queue to a stream; the client applies    *)
(* the frames to its replica.  There is no acknowledgement: the server     *)
(* takes a record for known once its frame is in the queue.                *)
(*                                                                         *)
(* One observer is modelled and the entities around it.  The two nested    *)
(* rectangles of interest are the zones near (enter), edge (leave only)    *)
(* and far.  An entity's state is its look (transform and equipment) and   *)
(* its health; every record costs one unit of the frame's budget.          *)
(***************************************************************************)
EXTENDS Integers, Sequences, FiniteSets, FiniteSetsExt

CONSTANTS
  Subject,      \* the entities the observer may see
  PipeCap,      \* WRITER_QUEUE_CAP
  WireCap,      \* frames in flight to the client, bounded by flow control
  Budgets,      \* the records a frame has room for: it varies with the load
  MaxChanges    \* bound: changes of the world

ReplicaAssumption ==
  /\ {PipeCap, WireCap} \cup Budgets \subseteq Nat \ {0}
  /\ MaxChanges \in Nat
ASSUME ReplicaAssumption

VARIABLES
  world,    \* per entity: its zone and its state
  marked,   \* replication_dirty: entities changed since the last publish
  stale,    \* needs_classify: interest dirty, or never classified
  obs,      \* ObserverReplicationState
  fanout,   \* InterestFanoutIndex: entities whose changes reach this observer
  pipe,     \* ReplicationPipe
  wire,     \* frames taken from the pipe and not yet applied
  replica,  \* the client's copy
  changes   \* bound

vars == <<world, marked, stale, obs, fanout, pipe, wire, replica, changes>>

Zone == {"near", "edge", "far", "gone"}
Health == {"well", "immune", "dead"}    \* immune: damage_immunity_active
View == [look : 0 .. 1, health : Health]
Absent == [absent |-> TRUE]
NoRecord == [op |-> "none"]
Domain == {"look", "health"}

Record ==
  {NoRecord} \cup [op : {"leave"}] \cup [op : {"enter"}, view : View]
  \cup [op : {"update"}, of : SUBSET Domain, view : View]
Frame == [epoch : 0 .. MaxChanges, rec : [Subject -> Record]]

ViewOf(w, e) == [look |-> w[e].look, health |-> w[e].health]
Visible(w, e) == w[e].zone \in {"near", "edge"}
Dead(w, e) == w[e].health = "dead"
Immune(w, e) == w[e].health = "immune"
InState(o, s) == {e \in Subject : o.life[e] = s}

TypeOK ==
  /\ world \in [Subject -> [zone : Zone, look : 0 .. 1, health : Health]]
  /\ marked \subseteq Subject /\ fanout \subseteq Subject /\ stale \in BOOLEAN
  /\ obs \in [epoch : 0 .. MaxChanges,
              life : [Subject -> {"none", "wantEnter", "known", "wantLeave"}],
              lag : [Subject -> SUBSET Domain],  \* revisions above CommittedRevs
              immune : SUBSET Subject,           \* CommittedRevs, of those known
              dead : SUBSET Subject,             \* known_dead
              pending : SUBSET Subject]          \* pending_update_ids
  /\ pipe \in Seq(Frame) /\ Len(pipe) <= PipeCap
  /\ wire \in Seq(Frame) /\ Len(wire) <= WireCap
  /\ replica \in [epoch : 0 .. MaxChanges, ent : [Subject -> View \cup {Absent}]]
  /\ changes \in 0 .. MaxChanges

Fresh(epoch) ==
  [epoch |-> epoch, life |-> [e \in Subject |-> "none"], lag |-> [e \in Subject |-> {}],
   immune |-> {}, dead |-> {}, pending |-> {}]

Init ==
  /\ \E z \in [Subject -> {"near", "far"}], h \in {"well", "dead"} :
       world = [e \in Subject |-> [zone |-> z[e], look |-> 0, health |-> h]]
  /\ marked = {} /\ stale = TRUE
  /\ obs = Fresh(0) /\ fanout = {}
  /\ pipe = <<>> /\ wire = <<>>
  /\ replica = [epoch |-> 0, ent |-> [e \in Subject |-> Absent]]
  /\ changes = 0

(***************************************************************************)
(* Interest: what a classification makes of every entity.                  *)
(***************************************************************************)
(* Mutant: an entity that came back before its Leave went out is kept. *)
NewLife_Kept(w, e, life) ==
  CASE life \in {"none", "wantEnter"} -> IF w[e].zone = "near" THEN "wantEnter" ELSE "none"
    [] life = "known" /\ ~Visible(w, e)  -> "wantLeave"
    [] life = "wantLeave" /\ w[e].zone = "near" -> "wantEnter"
    [] OTHER                          -> life

(* Mutant: an entity out of the enter rectangle is given up at once. *)
NewLife_Dropped(w, e, life) ==
  CASE life \in {"none", "wantEnter"} -> IF w[e].zone = "near" THEN "wantEnter" ELSE "none"
    [] life = "known" /\ ~Visible(w, e)  -> "none"
    [] OTHER                          -> life

NewLife(w, e, life) ==
  CASE life \in {"none", "wantEnter"} -> IF w[e].zone = "near" THEN "wantEnter" ELSE "none"
    [] life = "known" /\ ~Visible(w, e)  -> "wantLeave"
    [] OTHER                          -> life  \* a Leave goes out before a new Enter

Classified(w, o) ==
  LET life == [e \in Subject |-> NewLife(w, e, o.life[e])]
      left == InState(o, "known") \ {e \in Subject : life[e] = "known"}
  IN [o EXCEPT !.life = life, !.pending = @ \ left,
               !.lag = [e \in Subject |-> IF e \in left THEN {} ELSE @[e]]]

(***************************************************************************)
(* Updates.  A health change is not sent to every observer: for one who is *)
(* no friend of the subject it is settled silently, unless it is a death,  *)
(* a revival the observer must see, or the end of an immunity.             *)
(***************************************************************************)
(* Mutants: one of the exceptions is forgotten. *)
MustTell_NotRevived(w, o, e) ==
  \/ "health" \in o.lag[e] /\ Dead(w, e)
  \/ e \in o.immune /\ ~Immune(w, e)
MustTell_NotImmunity(w, o, e) == "health" \in o.lag[e] /\ (Dead(w, e) \/ e \in o.dead)

MustTell(w, o, e) ==
  \/ "health" \in o.lag[e] /\ (Dead(w, e) \/ e \in o.dead)
  \/ e \in o.immune /\ ~Immune(w, e)

Eligible(w, o, friends, e) ==
  o.lag[e] \cap ({"look"} \cup IF e \in friends \/ MustTell(w, o, e) THEN {"health"} ELSE {})

(* Committed: the observer is taken to know the present state of `es`. *)
Settle(w, o, es) ==
  [o EXCEPT !.lag = [e \in Subject |-> IF e \in es THEN {} ELSE @[e]],
            !.immune = (@ \ {e \in es : "health" \in o.lag[e]})
                       \cup {e \in es : "health" \in o.lag[e] /\ Immune(w, e)}]

Known(w, o, es) ==
  [Settle(w, [o EXCEPT !.lag = [e \in Subject |-> IF e \in es THEN {"health"} ELSE @[e]]], es)
     EXCEPT !.life = [e \in Subject |-> IF e \in es THEN "known" ELSE @[e]],
            !.dead = (@ \ es) \cup {e \in es : Dead(w, e)}]

Left(o, es) ==
  [o EXCEPT !.life = [e \in Subject |-> IF e \in es THEN "none" ELSE @[e]],
            !.pending = @ \ es, !.dead = @ \ es, !.immune = @ \ es]

(* The entities of `es` whose records fit into what is left of the budget. *)
Fitting(es, room) ==
  LET n == Cardinality(es) IN kSubset(IF n < room THEN n ELSE room, es)

(* Mutant: an entity is registered only when it is updated. *)
Registered_NotEntered(f, in, out) == f \ out

(* The fan-out index follows the frame: entered entities in, left ones out. *)
Registered(f, in, out) == (f \cup in) \ out

(***************************************************************************)
(* One frame for the observer: Leaves, then Enters, then Updates, as far   *)
(* as the budget goes.  `p` is the queue with room for it.  Which of the   *)
(* pending records fit depends on their order and sizes, who is a friend   *)
(* and whose cadence lets an update out in this tick on distances and the  *)
(* load: those are left open.  Now and then a scan rescues what was lost.  *)
(***************************************************************************)
Packed(w, o, out, in, upd, friends) ==
  [epoch |-> o.epoch,
   rec |-> [e \in Subject |->
     IF e \in out THEN [op |-> "leave"]
     ELSE IF e \in in THEN [op |-> "enter", view |-> ViewOf(w, e)]
     ELSE IF e \in upd THEN [op |-> "update", of |-> Eligible(w, o, friends, e), view |-> ViewOf(w, e)]
     ELSE NoRecord]]

Publish(w, o, f, p) ==
  LET behind == {e \in InState(o, "known") : o.lag[e] # {} /\ w[e].zone # "gone"} IN
  \E room \in Budgets, work \in {behind \cap o.pending, behind} :
  \E friends \in SUBSET {e \in work : "health" \in o.lag[e]} :
    LET silent == {e \in work : Eligible(w, o, friends, e) = {}}
        ranked == work \ silent
    IN \E late \in SUBSET ranked, out \in Fitting(InState(o, "wantLeave"), room) :
       \E in \in Fitting(InState(o, "wantEnter"), room - Cardinality(out)) :
       \E upd \in Fitting(ranked \ late, room - Cardinality(out) - Cardinality(in)) :
         LET seen == {e \in upd : "health" \in Eligible(w, o, friends, e)}
             told == [Settle(w, o, silent \cup upd) EXCEPT
                        !.dead = (@ \ seen) \cup {e \in seen : Dead(w, e)},
                        !.pending = ranked \ upd]
         IN /\ pipe' = Append(p, Packed(w, o, out, in, upd, friends))
            /\ obs' = Known(w, Left(told, out), in)
            /\ fanout' = Registered(f, in, out)

(* One tick of the gameplay owner, as far as this observer is concerned.   *)
(* With the queue full only the changed entities are noted.                *)
Noted(o) == [o EXCEPT !.pending = @ \cup (marked \cap fanout)]
Interest(o) == IF stale THEN Classified(world, o) ELSE o
PublishTick ==
  LET o == Interest(Noted(obs)) IN Publish(world, o, fanout \ InState(o, "wantLeave"), pipe)
Skip == obs' = Noted(obs) /\ UNCHANGED <<fanout, pipe>>
Full == Len(pipe) >= PipeCap

(* Mutant: the interest counts as classified though the queue was full. *)
Tick_ClearsStale ==
  /\ IF Full THEN Skip ELSE PublishTick
  /\ marked' = {} /\ stale' = FALSE
  /\ UNCHANGED <<world, wire, replica, changes>>

(* Mutant: the frame is pushed without a look at the room in the queue. *)
Tick_Unchecked ==
  /\ PublishTick
  /\ marked' = {} /\ stale' = FALSE
  /\ UNCHANGED <<world, wire, replica, changes>>

Tick ==
  /\ IF Full THEN Skip /\ UNCHANGED stale ELSE PublishTick /\ stale' = FALSE
  /\ marked' = {}
  /\ UNCHANGED <<world, wire, replica, changes>>

(***************************************************************************)
(* The world around the observer.                                          *)
(***************************************************************************)
Change ==
  /\ changes < MaxChanges
  /\ changes' = changes + 1
  /\ UNCHANGED <<wire, replica>>

Alive(e) == world[e].zone # "gone"
Lagging(e, d) ==
  [obs EXCEPT !.lag[e] = IF obs.life[e] = "known" THEN @ \cup {d} ELSE @]
Relocated(z) == [e \in Subject |-> [world[e] EXCEPT !.zone = IF Alive(e) THEN z[e] ELSE @]]

(* An entity moves; crossing the edge of a rectangle dirties the interest. *)
Move(e) ==
  /\ Change /\ Alive(e)
  /\ \E z \in {"near", "edge", "far"} :
       /\ world' = [world EXCEPT ![e].zone = z, ![e].look = 1 - @]
       /\ stale' = (stale \/ z # world[e].zone)
  /\ marked' = marked \cup {e}
  /\ obs' = Lagging(e, "look")
  /\ UNCHANGED <<fanout, pipe>>

(* The observer moves: every entity may be in another zone. *)
ObserverMove ==
  /\ Change
  /\ \E z \in [Subject -> {"near", "edge", "far"}] : world' = Relocated(z)
  /\ stale' = TRUE
  /\ UNCHANGED <<marked, obs, fanout, pipe>>

(* Damage, death, revival, the start and the end of an immunity. *)
SetHealth(e) ==
  /\ Change /\ Alive(e)
  /\ \E h \in Health : world' = [world EXCEPT ![e].health = h]
  /\ marked' = marked \cup {e}
  /\ obs' = Lagging(e, "health")
  /\ UNCHANGED <<stale, fanout, pipe>>

(* A despawned entity never comes back; a player's also leaves the index. *)
Despawn(e) ==
  /\ Change /\ Alive(e)
  /\ world' = [world EXCEPT ![e].zone = "gone"]
  /\ stale' = (stale \/ Visible(world, e))
  /\ marked' = marked \ {e}
  /\ fanout' \in {fanout, fanout \ {e}}
  /\ UNCHANGED <<obs, pipe>>

(* The observer goes to another map or channel: what was committed is void, *)
(* frames not yet written are purged, and a new baseline is published.     *)
Purged(p, epoch) ==
  LET kept == {i \in 1 .. Len(p) : p[i].epoch >= epoch}
      nth(n) == CHOOSE i \in kept : Cardinality({j \in kept : j <= i}) = n
  IN  [n \in 1 .. Cardinality(kept) |-> p[nth(n)]]

(* Mutant: the new epoch is told by nothing but its number. *)
Bumped_Kept(o) == [o EXCEPT !.epoch = @ + 1]
Bumped(o) == Fresh(o.epoch + 1)

Transition ==
  /\ Change
  /\ \E z \in [Subject -> {"near", "far"}] :
       /\ world' = Relocated(z)
       /\ LET w == Relocated(z)
              o == Classified(w, Bumped(obs))
          IN Publish(w, o, {}, Purged(pipe, o.epoch))
  /\ marked' = {} /\ stale' = FALSE

(***************************************************************************)
(* The connection task and the client.                                     *)
(***************************************************************************)
Write ==
  /\ pipe # <<>> /\ Len(wire) < WireCap
  /\ pipe' = Tail(pipe)
  /\ wire' = Append(wire, Head(pipe))
  /\ UNCHANGED <<world, marked, stale, obs, fanout, replica, changes>>

(* apply_frame: an update of an entity the replica lacks is passed over. *)
Merged(old, r) ==
  CASE r.op = "enter" -> r.view
    [] r.op = "leave" -> Absent
    [] r.op = "update" /\ old # Absent ->
         [look |-> IF "look" \in r.of THEN r.view.look ELSE old.look,
          health |-> IF "health" \in r.of THEN r.view.health ELSE old.health]
    [] OTHER -> old

(* Mutant: a frame of a newer epoch is laid over the old replica. *)
Applied_NoReset(r, f) ==
  IF f.epoch < r.epoch THEN r
  ELSE [epoch |-> f.epoch, ent |-> [e \in Subject |-> Merged(r.ent[e], f.rec[e])]]

Applied(r, f) ==
  IF f.epoch < r.epoch THEN r
  ELSE [epoch |-> f.epoch,
        ent |-> [e \in Subject |->
                   Merged(IF f.epoch > r.epoch THEN Absent ELSE r.ent[e], f.rec[e])]]

Apply ==
  /\ wire # <<>>
  /\ wire' = Tail(wire)
  /\ replica' = Applied(replica, Head(wire))
  /\ UNCHANGED <<world, marked, stale, obs, fanout, pipe, changes>>

Next ==
  \/ Tick \/ Write \/ Apply \/ ObserverMove \/ Transition
  \/ \E e \in Subject : Move(e) \/ SetHealth(e) \/ Despawn(e)

Spec == Init /\ [][Next]_vars

(* The connection task and the client run on, and so does the owner; the    *)
(* cadences are periodic.  So when the queue has room again and again, then *)
(* again and again in a tick that finds room the update of `e` is due: it   *)
(* goes out unless other records take the budget.  (Strong fairness of such *)
(* a tick, which can be taken whenever the queue has room.)                *)
TickDue(e) ==
  /\ Len(pipe') = Len(pipe) + 1
  /\ obs'.lag[e] = {} \/ \E x \in Subject \ {e} : pipe'[Len(pipe')].rec[x] # NoRecord

FairSpec ==
  /\ Spec
  /\ WF_vars(Write) /\ WF_vars(Apply)
  /\ \A e \in Subject : []<>(~Full) => []<><<TickDue(e)>>_vars

(***************************************************************************)
(* Properties.                                                             *)
(***************************************************************************)
(* The frames under way, the replicas they will make one after another, and *)
(* what the client has when all are applied.                               *)
Stream == wire \o pipe
Replicas ==
  LET after[k \in 0 .. Len(Stream)] ==
        IF k = 0 THEN replica ELSE Applied(after[k - 1], Stream[k])
  IN  after
Arriving == Replicas[Len(Stream)]
Held == InState(obs, "known") \cup InState(obs, "wantLeave")

(* The server takes a record for known when its frame is queued, and asks   *)
(* for no acknowledgement.  Purges, full queues, epochs and deferrals must  *)
(* keep that true: when the frames under way are applied, the client has    *)
(* exactly the entities the server counts as known.                        *)
StreamIsCommitted ==
  Arriving.epoch = obs.epoch /\ {e \in Subject : Arriving.ent[e] # Absent} = Held

(* A record fits the replica it will meet: an update or a Leave finds its   *)
(* entity, an Enter does not (the client passes over an orphan in silence). *)
RecordsFindEntities ==
  \A k \in 1 .. Len(Stream) :
    LET f == Stream[k]
        before == Replicas[k - 1]
    IN \A e \in Subject : f.epoch = before.epoch =>
         (f.rec[e].op \in {"update", "leave"} => before.ent[e] # Absent)
         /\ (f.rec[e].op = "enter" => before.ent[e] = Absent)

(* Health is settled without a record for most observers.  What was settled *)
(* is still true where it shows: the client has the look, knows the dead    *)
(* from the living, and does not keep an immunity that is over.            *)
SettledIsShown ==
  \A e \in InState(obs, "known") :
    LET v == Arriving.ent[e] IN
    /\ v.health = "dead" <=> e \in obs.dead
    /\ "look" \notin obs.lag[e] => v.look = world[e].look
    /\ "health" \notin obs.lag[e] =>
         (v.health = "dead" <=> Dead(world, e)) /\ (v.health = "immune" => Immune(world, e))

(* The server's record of what it has told the observer is true all along.  *)
(* The run checks the three as one.                                        *)
StreamIsSound == TypeOK /\ StreamIsCommitted /\ RecordsFindEntities /\ SettledIsShown

(* Every change of a known entity is on its way to this observer's pending  *)
(* updates, so that the recovery scan has nothing to rescue.               *)
ChangesAreScheduled ==
  \A e \in InState(obs, "known") :
    obs.lag[e] # {} /\ Alive(e) => e \in obs.pending \/ (e \in marked /\ e \in fanout)

(* When the world is at rest, the client comes to see an entity that is     *)
(* near, in its present state, and loses one that is away.  Excepted is an  *)
(* entity that came back before its Leave was out: see ReturnedIsSeen.     *)
Shows(e) ==
  /\ replica.ent[e] # Absent
  /\ replica.ent[e].look = world[e].look
  /\ replica.ent[e].health = "dead" <=> Dead(world, e)
  /\ replica.ent[e].health = "immune" => Immune(world, e)
AtRest == changes = MaxChanges
Noticed(e) ==
  obs.life[e] \in {"wantEnter", "known"} \/ (stale /\ obs.life[e] = "none")

ClientConverges ==
  \A e \in Subject :
    /\ AtRest /\ world[e].zone = "near" /\ Noticed(e) ~> Shows(e)
    /\ AtRest /\ ~Visible(world, e) ~> replica.ent[e] = Absent

(* An entity that comes back into view is entered anew. *)
ReturnedIsSeen ==
  \A e \in Subject : AtRest /\ world[e].zone = "near" ~> replica.ent[e] # Absent
================================================================================
