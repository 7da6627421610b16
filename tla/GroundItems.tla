------------------------------ MODULE GroundItems ------------------------------
(***************************************************************************)
(* The items that lie on the ground of one channel, from the death of a    *)
(* monster or the drop of a player until somebody picks them up or their   *)
(* time is over.  World, the bookkeeping of GameplayOwner, the commands    *)
(* that carry an item's fate to the database, and the rows there, change   *)
(* at different times; meanwhile a pickup may race the expiry, an answer   *)
(* may be lost, a player may walk off, and the channel may be taken over   *)
(* by another process.                                                     *)
(*                                                                         *)
(* Item ids are the numbers the database issues.  Times are kept as what   *)
(* is left of them, so no clock is needed.  Revisions, snapshots and the   *)
(* keys of player commands are the subject of DurableCommands; inventory   *)
(* slots, reach and health are the choice whether World accepts an effect. *)
(***************************************************************************)
EXTENDS Integers, FiniteSets, Sequences, Functions

CONSTANTS
  Character,     \* the players, who are also the killers
  MaxItem,       \* the last item id the database can issue
  Carried,       \* items 1..Carried are owned by players at the start
  Lifetime,      \* GROUND_LIFETIME, in ticks of the ground clock
  Window,        \* GROUND_EXCLUSIVE_WINDOW
  WakeBatch,     \* GROUND_RETIRE_BATCH
  ReserveBatch,  \* ID_RESERVE_BATCH
  LowWater,      \* ID_RESERVE_LOW_WATER
  MaxPlans,      \* MAX_PENDING_MONSTER_LOOT
  MaxRoll,       \* the most drops one death rolls
  Wander,        \* TRUE: a player may die or leave the reach of a pickup in flight
  Release        \* TRUE: built without debug assertions

GroundAssumption ==
  /\ MaxItem \in Nat /\ Carried \in 0 .. MaxItem
  /\ {Lifetime, Window, WakeBatch, ReserveBatch, MaxRoll} \subseteq Nat \ {0}
  /\ {LowWater, MaxPlans} \subseteq Nat
  /\ {Wander, Release} \subseteq BOOLEAN
  /\ Character \cap (1 .. MaxItem) = {}
  /\ Character \cap {"none", "drop", "ground", "retired"} = {}
ASSUME GroundAssumption

VARIABLES
  own,        \* GameplayOwner's bookkeeping of ground items
  world,      \* where the item record of World is: no record, a drop, a player
  shown,      \* items whose drop entity is in World
  loot,       \* pending_loot: planned drops that wait for an item id
  pool,       \* id_pool
  replenish,  \* the request for more ids
  command,    \* DurablePending of a player, or of an item to be retired
  player,     \* bindings: away, here, or leaving when its command is over
  row,        \* database: nothing, on the ground, retired, or the owner
  issued,     \* database: the last item id issued
  channel     \* live, ended by its local deadline, or taken over

vars == <<own, world, shown, loot, pool, replenish, command, player, row,
          issued, channel>>
ids == <<pool, replenish, issued>>

Item == 1 .. MaxItem
Token == Character \cup Item    \* a player's command, or an item's retirement
Idle == [kind |-> "idle"]
Off == [kind |-> "off"]

Live == [kind : {"drop", "loot"}, killer : Character, age : 0 .. Window, due : 0 .. Lifetime]
Command ==
  [kind : {"drop", "pickup", "retire"},
   item : Item,
   reserved : BOOLEAN,   \* the id has no row yet: the command inserts it
   stored : BOOLEAN,     \* its key and result are in the database
   at : {"outbound", "sent", "done", "refused", "unknown", "retry",
         "reconcile", "stuck"}]

Active(t) == command[t] # Idle
ItemsOf(c) == {i \in Item : row[i] = c}

TypeOK ==
  /\ own \in [live : [Item -> Live \cup {Off}],
              expiry : SUBSET ((0 .. Lifetime) \X Item),
              deferred : Seq(Item), member : SUBSET Item, held : SUBSET Item,
              visible : SUBSET Item, durable : SUBSET Item]
  /\ world \in [Item -> Character \cup {"none", "drop"}]
  /\ shown \subseteq Item
  /\ loot \in Seq([killer : Character, left : 1 .. MaxRoll]) /\ Len(loot) <= MaxPlans
  /\ pool \in Seq(Item)
  /\ replenish \in [at : {"idle", "asked", "answered"}, got : Seq(Item)]
  /\ command \in [Token -> Command \cup {Idle}]
  /\ player \in [Character -> {"away", "here", "leaving"}]
  /\ row \in [Item -> Character \cup {"none", "ground", "retired"}]
  /\ issued \in 0 .. MaxItem
  /\ channel \in {"live", "ended", "taken"}

Init ==
  /\ row \in [Item -> Character \cup {"none"}]
  /\ \A i \in Item : row[i] = "none" <=> i > Carried
  /\ issued = Carried
  /\ own = [live |-> [i \in Item |-> Off], expiry |-> {}, deferred |-> <<>>,
            member |-> {}, held |-> {}, visible |-> {}, durable |-> {}]
  /\ world = [i \in Item |-> "none"]
  /\ shown = {}
  /\ loot = <<>>
  /\ pool = <<>>
  /\ replenish = [at |-> "idle", got |-> <<>>]
  /\ command = [t \in Token |-> Idle]
  /\ player = [c \in Character |-> "away"]
  /\ channel = "live"

(***************************************************************************)
(* Bookkeeping of one item: the methods of GameplayOwner, as functions of  *)
(* `own`.                                                                  *)
(***************************************************************************)
Entry(o, i) == IF o.live[i] = Off THEN {} ELSE {<<o.live[i].due, i>>}

Track(o, i, kind, killer) ==
  [o EXCEPT !.live[i] = [kind |-> kind, killer |-> killer, age |-> 0, due |-> Lifetime],
            !.expiry = (@ \ Entry(o, i)) \cup {<<Lifetime, i>>}]

Forget(o, i) ==
  [o EXCEPT !.live[i] = Off, !.expiry = @ \ Entry(o, i), !.member = @ \ {i}]

NotePicked(o, i) ==
  LET f == Forget(o, i)
  IN  [f EXCEPT !.visible = @ \ {i}, !.durable = @ \cup {i}]

(* Mutant: a reserved item that is due is put aside for good. *)
Defer_Drops(o, i) == o
Defer(o, i) ==
  IF i \in o.member THEN o
  ELSE [o EXCEPT !.member = @ \cup {i}, !.deferred = Append(@, i)]

(* Mutant: a refused retirement is not scheduled again. *)
RestoreUnretired_Forgets(o, i) == o

(* A refused retirement is tried again after a second. *)
RestoreUnretired(o, i) ==
  IF world[i] # "drop" THEN [o EXCEPT !.live[i] = Off]
  ELSE IF o.live[i] = Off THEN o
  ELSE [o EXCEPT !.live[i].due = 1, !.expiry = @ \cup {<<1, i>>}]

Unhold(o, i) == [o EXCEPT !.held = @ \ {i}]

(* What the loop of promote_due_ground does with one item it has taken.    *)
(* An item that is neither reserved nor durable does not lie on the ground *)
(* (GroundMatchesStore), so the local removal of such items is left out.   *)
Consider(o, i) ==
  IF i \in o.held THEN Defer(o, i)
  ELSE IF world[i] # "drop" THEN [o EXCEPT !.live[i] = Off, !.visible = @ \ {i}]
  ELSE [o EXCEPT !.held = @ \cup {i}]

Due(o) == {i \in Item : <<0, i>> \in o.expiry}
First(S) == CHOOSE i \in S : \A j \in S : i <= j

(* One turn of the loop: a deferred item first, a due one otherwise. *)
Inspect(o) ==
  IF o.deferred # <<>> THEN
    LET i == Head(o.deferred)
        taken == [o EXCEPT !.deferred = Tail(@), !.member = @ \ {i}]
    IN  IF i \in o.member THEN Consider(taken, i) ELSE taken
  ELSE IF Due(o) # {} THEN
    LET i == First(Due(o))
    IN  Consider([o EXCEPT !.expiry = @ \ {<<0, i>>}], i)
  ELSE o

(* What is on the ground after WakeBatch turns. *)
Promoted ==
  LET turn[n \in 0 .. WakeBatch] == IF n = 0 THEN own ELSE Inspect(turn[n - 1])
  IN  turn[WakeBatch]

(***************************************************************************)
(* Item ids.                                                               *)
(***************************************************************************)
AskIds ==
  /\ replenish.at = "idle" /\ Len(pool) < LowWater
  /\ replenish' = [at |-> "asked", got |-> <<>>]
  /\ UNCHANGED <<own, world, shown, loot, pool, command, player, row, issued, channel>>

(* The range and the counter are one transaction; its answer may be lost. *)
ReserveIds ==
  /\ replenish.at = "asked"
  /\ \/ /\ channel # "taken" /\ issued + ReserveBatch <= MaxItem
        /\ issued' = issued + ReserveBatch
        /\ \E got \in {<<>>, [n \in 1 .. ReserveBatch |-> issued + n]} :
             replenish' = [at |-> "answered", got |-> got]
     \/ /\ replenish' = [at |-> "answered", got |-> <<>>]
        /\ UNCHANGED issued
  /\ UNCHANGED <<own, world, shown, loot, pool, command, player, row, channel>>

(* One turn of install_reserved_ids: an id that is known or already in the *)
(* pool is skipped.                                                        *)
Install(s) ==
  IF s.got = <<>> THEN s
  ELSE LET i == Head(s.got)
       IN  [got |-> Tail(s.got),
            pool |-> IF i \in own.visible \cup own.durable \cup Range(s.pool) THEN s.pool
                     ELSE Append(s.pool, i)]

(* The pool after a turn for every id of the answer. *)
Installed ==
  LET turn[n \in 0 .. Len(replenish.got)] ==
        IF n = 0 THEN [got |-> replenish.got, pool |-> pool] ELSE Install(turn[n - 1])
  IN  turn[Len(replenish.got)].pool

(* Mutant: the answer of a reservation is installed again and again. *)
InstallIds_Repeated ==
  /\ replenish.at = "answered"
  /\ pool' = Installed
  /\ UNCHANGED <<own, world, shown, loot, replenish, command, player, row, issued, channel>>

InstallIds ==
  /\ replenish.at = "answered"
  /\ pool' = Installed
  /\ replenish' = [at |-> "idle", got |-> <<>>]
  /\ UNCHANGED <<own, world, shown, loot, command, player, row, issued, channel>>

(***************************************************************************)
(* Loot.  The planned drops are shown in order as long as there are ids;   *)
(* an unfinished plan keeps its place, and the others wait behind it.      *)
(***************************************************************************)
Manifest(s) ==
  IF s.pool = <<>> \/ s.loot = <<>> THEN s
  ELSE LET i == Head(s.pool)
           plan == Head(s.loot)
       IN  [pool |-> Tail(s.pool),
            loot |-> IF plan.left = 1 THEN Tail(s.loot)
                     ELSE <<[plan EXCEPT !.left = @ - 1]>> \o Tail(s.loot),
            own |-> [Track(s.own, i, "loot", plan.killer) EXCEPT !.visible = @ \cup {i}],
            new |-> s.new \cup {i}]

(* What is left and what is new after a turn for every id of the pool. *)
Flushed(plans) ==
  LET turn[n \in 0 .. Len(pool)] ==
        IF n = 0 THEN [pool |-> pool, loot |-> plans, own |-> own, new |-> {}]
        ELSE Manifest(turn[n - 1])
  IN  turn[Len(pool)]

(* flush_pending_monster_loot; an ended channel abandons every plan. *)
Flush(plans) ==
  IF channel # "live"
  THEN loot' = <<>> /\ UNCHANGED <<own, world, shown, pool>>
  ELSE LET f == Flushed(plans)
       IN  /\ loot' = f.loot /\ pool' = f.pool /\ own' = f.own
           /\ world' = [i \in Item |-> IF i \in f.new THEN "drop" ELSE world[i]]
           /\ shown' = shown \cup f.new

(* Mutant: the queue of planned loot has no limit. *)
Kill_Unlimited(c) ==
  /\ player[c] # "away"
  /\ channel = "live"
  /\ \E n \in 1 .. MaxRoll : Flush(Append(loot, [killer |-> c, left |-> n]))
  /\ UNCHANGED <<replenish, command, player, row, issued, channel>>

(* A monster dies by the hand of c.  A full queue abandons the new plan. *)
Kill(c) ==
  /\ player[c] # "away"
  /\ channel = "live"
  /\ Len(loot) < MaxPlans
  /\ \E n \in 1 .. MaxRoll : Flush(Append(loot, [killer |-> c, left |-> n]))
  /\ UNCHANGED <<replenish, command, player, row, issued, channel>>

FlushLoot ==
  /\ loot # <<>>
  /\ Flush(loot)
  /\ UNCHANGED <<replenish, command, player, row, issued, channel>>

(***************************************************************************)
(* Players.                                                                *)
(***************************************************************************)
Enter(c) ==
  /\ player[c] = "away" /\ channel = "live"
  /\ \A i \in ItemsOf(c) : world[i] = "none"
  /\ player' = [player EXCEPT ![c] = "here"]
  /\ world' = [i \in Item |-> IF row[i] = c THEN c ELSE world[i]]
  /\ own' = [own EXCEPT !.durable = @ \cup ItemsOf(c)]
  /\ UNCHANGED <<shown, loot, ids, command, row, channel>>

(* World without the items of c, and what stays registered then. *)
Cleared(w, c) == [i \in Item |-> IF w[i] = c THEN "none" ELSE w[i]]
(* Mutant: the items of a player who has left stay registered. *)
Registered_All(o, w) == o
Registered(o, w) == [o EXCEPT !.durable = {i \in @ : w[i] # "none"}]

Leave(c) ==
  /\ player[c] = "here"
  /\ IF Active(c)
     THEN player' = [player EXCEPT ![c] = "leaving"] /\ UNCHANGED <<own, world>>
     ELSE /\ player' = [player EXCEPT ![c] = "away"]
          /\ world' = Cleared(world, c)
          /\ own' = Registered(own, world')
  /\ UNCHANGED <<shown, loot, ids, command, row, channel>>

(* Commands of c are over: release the item, and let c go if it wanted to. *)
Finish(c, o, w) ==
  /\ command' = [command EXCEPT ![c] = Idle]
  /\ IF player[c] = "leaving"
     THEN /\ player' = [player EXCEPT ![c] = "away"]
          /\ world' = Cleared(w, c)
          /\ own' = Registered(Unhold(o, command[c].item), world')
     ELSE /\ world' = w
          /\ own' = Unhold(o, command[c].item)
          /\ UNCHANGED player

(* Mutant: an item that another command has reserved is taken too. *)
Stage_Unchecked(c, kind, i) ==
  /\ player[c] = "here" /\ ~Active(c) /\ channel = "live"
  /\ command' = [command EXCEPT ![c] =
       [kind |-> kind, item |-> i, stored |-> FALSE, at |-> "outbound",
        reserved |-> kind = "pickup" /\ i \in own.visible]]
  /\ own' = [own EXCEPT !.held = @ \cup {i}]
  /\ UNCHANGED <<world, shown, loot, ids, player, row, channel>>

Stage(c, kind, i) ==
  /\ player[c] = "here" /\ ~Active(c) /\ channel = "live"
  /\ i \notin own.held
  /\ command' = [command EXCEPT ![c] =
       [kind |-> kind, item |-> i, stored |-> FALSE, at |-> "outbound",
        reserved |-> kind = "pickup" /\ i \in own.visible]]
  /\ own' = [own EXCEPT !.held = @ \cup {i}]
  /\ UNCHANGED <<world, shown, loot, ids, player, row, channel>>

StageDrop(c, i) ==
  /\ world[i] = c /\ i \in own.durable
  /\ Stage(c, "drop", i)

(* Loot belongs to the killer until the window is over. *)
Collectible(c, i) ==
  LET l == own.live[i]
  IN  l = Off \/ l.kind = "drop" \/ l.age = Window \/ l.killer = c

StagePickup(c, i) ==
  /\ world[i] = "drop" /\ i \in shown
  /\ Collectible(c, i)
  /\ Stage(c, "pickup", i)

(***************************************************************************)
(* Submission, the database, and the answer.                               *)
(***************************************************************************)
Waiting == {t \in Token : Active(t) /\ command[t].at = "retry"}

(* take_durable_commits: expire what is due, then submit what is staged    *)
(* and the retries whose pause is over.                                    *)
WakeWith(due) ==
  /\ \E o \in {IF channel = "live" THEN Promoted ELSE own} :
       LET expired == o.held \ own.held
     IN  /\ own' = o
         /\ command' = [t \in Token |->
              IF t \in expired
              THEN [kind |-> "retire", item |-> t, stored |-> FALSE, at |-> "sent",
                    reserved |-> t \in own.visible]
              ELSE IF t \in due \/ (Active(t) /\ command[t].at = "outbound")
              THEN [command[t] EXCEPT !.at = "sent"]
              ELSE command[t]]
  /\ <<own', command'>> # <<own, command>>
  /\ UNCHANGED <<world, shown, loot, ids, player, row, channel>>
Wake == \E due \in SUBSET Waiting : WakeWith(due)

(* The row a command needs, what it makes of it, and whether it has to be  *)
(* written under the live channel generation.                              *)
Needs(t) ==
  CASE command[t].reserved -> "none"
    [] command[t].kind = "drop" -> t
    [] OTHER -> "ground"
Becomes(t) ==
  CASE command[t].kind = "drop" -> "ground"
    [] command[t].kind = "pickup" -> t
    [] command[t].kind = "retire" -> "retired"
(* Mutant: the drop of a player is not tied to the channel generation. *)
Fenced_NotDrop(t) == command[t].kind = "retire" \/ command[t].reserved
Fenced(t) == command[t].kind # "pickup" \/ command[t].reserved

Accepts(t) ==
  /\ row[command[t].item] = Needs(t)
  /\ Fenced(t) => channel # "taken"

Answer(t, at) == command' = [command EXCEPT ![t].at = at]

(* The worker executes a command.  A stored key answers at once. *)
Execute(t) ==
  /\ Active(t) /\ command[t].at = "sent"
  /\ \/ command[t].stored /\ Answer(t, "done") /\ UNCHANGED row
     \/ /\ ~command[t].stored /\ Accepts(t)
        /\ row' = [row EXCEPT ![command[t].item] = Becomes(t)]
        /\ \E at \in {"done", "unknown"} :
             command' = [command EXCEPT ![t].at = at, ![t].stored = TRUE]
     \/ ~command[t].stored /\ ~Accepts(t) /\ Answer(t, "refused") /\ UNCHANGED row
  /\ UNCHANGED <<own, world, shown, loot, ids, player, channel>>

(* The database cannot be reached, or refuses for another reason: a lost   *)
(* lease, an expired channel row, a renewal that failed.                   *)
Fault(t) ==
  /\ Active(t) /\ command[t].at = "sent"
  /\ \/ Answer(t, "unknown")
     \/ ~command[t].stored /\ Answer(t, "refused")
  /\ UNCHANGED <<own, world, shown, loot, ids, player, row, channel>>

SettleUnknown(t) ==
  /\ Active(t) /\ command[t].at = "unknown"
  /\ Answer(t, "retry")
  /\ UNCHANGED <<own, world, shown, loot, ids, player, row, channel>>

SettleRefused(t) ==
  /\ Active(t) /\ command[t].at = "refused"
  /\ IF t \in Character
     THEN Finish(t, own, world)
     ELSE /\ own' = RestoreUnretired(Unhold(own, t), t)
          /\ command' = [command EXCEPT ![t] = Idle]
          /\ UNCHANGED <<world, player>>
  /\ UNCHANGED <<shown, loot, ids, row, channel>>

SettleRetired(i) ==
  /\ Active(i) /\ command[i].at = "done"
  /\ own' = LET f == Forget(Unhold(own, i), i)
            IN  [f EXCEPT !.durable = @ \ {i}, !.visible = @ \ {i}]
  /\ world' = [world EXCEPT ![i] = IF @ = "drop" THEN "none" ELSE @]
  /\ shown' = IF world[i] = "drop" THEN shown \ {i} ELSE shown
  /\ command' = [command EXCEPT ![i] = Idle]
  /\ UNCHANGED <<loot, ids, player, row, channel>>

SettleDropped(c) ==
  /\ Active(c) /\ command[c].at = "done" /\ command[c].kind = "drop"
  /\ LET i == command[c].item
     IN  /\ Finish(c, Track(own, i, "drop", c), [world EXCEPT ![i] = "drop"])
         /\ shown' = shown \cup {i}
  /\ UNCHANGED <<loot, ids, row, channel>>

(* pickup_world_drop removes the entity inside a debug_assert. *)
SettlePicked(c) ==
  /\ Active(c) /\ command[c].at = "done" /\ command[c].kind = "pickup"
  /\ LET i == command[c].item
     IN  /\ Finish(c, NotePicked(own, i), [world EXCEPT ![i] = c])
         /\ shown' = IF Release THEN shown ELSE shown \ {i}
  /\ UNCHANGED <<loot, ids, row, channel>>

(* World does not take the committed effect: the player is busy or dead at *)
(* a drop, dead or out of reach at a pickup.                               *)
SettleUnapplied(c) ==
  /\ Active(c) /\ command[c].at = "done"
  /\ command[c].kind = "pickup" => Wander
  /\ Answer(c, "reconcile")
  /\ UNCHANGED <<own, world, shown, loot, ids, player, row, channel>>

(* complete_reconcile: the live character is replaced by the stored one.   *)
(* An item record that still exists elsewhere makes the restore fail, and  *)
(* nobody asks again.                                                      *)
Reconcile(c) ==
  /\ Active(c) /\ command[c].at = "reconcile"
  /\ LET i == command[c].item
         cleared == Cleared(world, c)
         kept == [own EXCEPT !.durable = @ \ {j \in Item : world[j] = c}]
         restored == [kept EXCEPT !.durable = @ \cup ItemsOf(c)]
         carrying == [j \in Item |-> IF row[j] = c THEN c ELSE cleared[j]]
     IN  \/ /\ \E j \in ItemsOf(c) : cleared[j] # "none"
            /\ own' = kept /\ world' = cleared
            /\ Answer(c, "stuck")
            /\ UNCHANGED <<shown, player>>
         \/ /\ \A j \in ItemsOf(c) : cleared[j] = "none"
            /\ IF command[c].kind = "drop"
               THEN /\ Finish(c, Track([restored EXCEPT !.durable = @ \cup {i}], i, "drop", c),
                              [carrying EXCEPT ![i] = "drop"])
                    /\ shown' = shown \cup {i}
               ELSE Finish(c, restored, carrying) /\ UNCHANGED shown
  /\ UNCHANGED <<loot, ids, row, channel>>

(***************************************************************************)
(* Time and the channel.                                                   *)
(***************************************************************************)
Later(n) == IF n = 0 THEN 0 ELSE n - 1
Aged(l) == [l EXCEPT !.due = Later(@), !.age = IF @ < Window THEN @ + 1 ELSE @]

Tick ==
  /\ own' = [own EXCEPT
       !.live = [i \in Item |-> IF own.live[i] = Off THEN Off ELSE Aged(own.live[i])],
       !.expiry = {<<Later(e[1]), e[2]>> : e \in @}]
  /\ own' # own
  /\ UNCHANGED <<world, shown, loot, ids, command, player, row, channel>>

(* The local deadline of the channel passes. *)
ChannelEnds ==
  /\ channel = "live"
  /\ channel' = "ended"
  /\ UNCHANGED <<own, world, shown, loot, ids, command, player, row>>

(* Another process claims the channel and retires what lies on the ground. *)
TakeOver ==
  /\ channel = "ended"
  /\ channel' = "taken"
  /\ row' = [i \in Item |-> IF row[i] = "ground" THEN "retired" ELSE row[i]]
  /\ UNCHANGED <<own, world, shown, loot, ids, command, player>>

(* What the owner does with the answer of a command. *)
Settle(t) ==
  \/ SettleUnknown(t) \/ SettleRefused(t)
  \/ t \in Item /\ SettleRetired(t)
  \/ /\ t \in Character
     /\ SettleDropped(t) \/ SettlePicked(t) \/ SettleUnapplied(t) \/ Reconcile(t)

Next ==
  \/ AskIds \/ ReserveIds \/ InstallIds
  \/ FlushLoot \/ Wake \/ Tick \/ ChannelEnds \/ TakeOver
  \/ \E c \in Character : Kill(c) \/ Enter(c) \/ Leave(c)
  \/ \E c \in Character, i \in Item : StageDrop(c, i) \/ StagePickup(c, i)
  \/ \E t \in Token : Execute(t) \/ Fault(t) \/ Settle(t)

Spec == Init /\ [][Next]_vars

(***************************************************************************)
(* Properties.                                                             *)
(***************************************************************************)

(* Nothing lies on the ground for ever: while the record of an item is a   *)
(* drop, the item is in the expiry map under the time that is recorded for *)
(* it, or waits in the deferred queue, or a command that will decide about *)
(* it holds it.  (track_ground, promote_due_ground, defer_ground,          *)
(* restore_unretired_ground and forget_ground_item keep four collections   *)
(* in step.)                                                               *)
EveryDropIsTimed ==
  \A i \in Item : world[i] = "drop" =>
    /\ own.live[i] # Off
    /\ \/ <<own.live[i].due, i>> \in own.expiry
       \/ i \in own.member /\ i \in Range(own.deferred)
       \/ i \in own.held

(* An item that no command holds is in World what it is in the database: a *)
(* drop is a ground row, or has no row yet and is known as reserved; a     *)
(* carried item is the row of its owner and no longer reserved; what World *)
(* does not show is not on the ground.  A wrong `visible` would send the   *)
(* wrong kind of command for the rest of the item's life.                  *)
GroundMatchesStore ==
  channel # "taken" => \A i \in Item \ own.held :
    /\ world[i] = "drop" =>
         IF i \in own.visible THEN row[i] = "none" /\ i \notin own.durable
         ELSE row[i] = "ground" /\ i \in own.durable
    /\ world[i] \in Character =>
         row[i] = world[i] /\ i \in own.durable \ own.visible
    /\ world[i] = "none" => row[i] # "ground" /\ i \notin own.visible \cup own.durable

(* A reservation belongs to exactly one command and ends with it, whatever *)
(* way the command ends: two commands never decide about one item, and no  *)
(* item stays reserved without a command.                                  *)
HeldByOneCommand ==
  \A i \in Item :
    Cardinality({t \in Token : Active(t) /\ command[t].item = i})
      = IF i \in own.held THEN 1 ELSE 0

(* An id is shown once: what is in the pool has no row, is not in World    *)
(* and not known, and is in the pool once, although answers of             *)
(* reservations are lost and ids of unanswered ones are skipped.           *)
PoolIsFresh ==
  /\ \A i \in Range(pool) : row[i] = "none" /\ world[i] = "none" /\ i \notin own.visible \cup own.durable
  /\ Cardinality(Range(pool)) = Len(pool)

(* Every value has its type, and the four collections, the reservations    *)
(* and the pool keep what the three invariants above say of them.          *)
GroundIsSound == TypeOK /\ EveryDropIsTimed /\ HeldByOneCommand /\ PoolIsFresh

(* Once another process has taken the channel, no command this process had *)
(* in flight changes a row: reserved ids and ground rows of the older      *)
(* generation are refused, also to a pickup, which is not fenced itself.   *)
TakenWritesNothing == [][channel = "taken" => row' = row]_vars

(* Recovery replaces the live character by the committed one: no restore   *)
(* is refused by an item record that World still has.                      *)
RestoreApplies == \A c \in Character : Active(c) => command[c].at # "stuck"

(* pickup_moves_item_once_and_despawns_manifestation: an entity is a drop  *)
(* only as long as the record of its item says so.                         *)
DropEntityHasItem == \A i \in shown : world[i] = "drop"

(* While the channel lives and no restore has failed for good, what lies   *)
(* on the ground disappears.                                               *)
DropsDisappear ==
  \A i \in Item : world[i] = "drop" ~>
    \/ world[i] # "drop" \/ channel # "live"
    \/ \E c \in Character : Active(c) /\ command[c].at = "stuck"

(* And the wakes get to every item: a drop that nobody has reserved is     *)
(* taken out of the expiry map at last, whatever happens to other items.   *)
ExpiryReachesAll ==
  \A i \in Item : world[i] = "drop" ~>
    (world[i] # "drop" \/ i \in own.held \/ channel # "live")

(* The network loop wakes, drains its queue and advances the ground clock; *)
(* the worker executes what it is given, and a storage that is asked again *)
(* and again is reached at last.                                           *)
Fairness ==
  /\ WF_vars(Wake) /\ WF_vars(Tick)
  /\ \A t \in Token :
       /\ WF_vars(\E due \in SUBSET Waiting : t \in due /\ WakeWith(due))
       /\ SF_vars(Execute(t)) /\ WF_vars(Settle(t))

FairSpec == Spec /\ Fairness
==============================================================================
