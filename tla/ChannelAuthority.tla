---------------------------- MODULE ChannelAuthority ----------------------------
(***************************************************************************)
(* Who may run the channel.  Every server process claims it at startup,    *)
(* renews it while it serves and releases it when it shuts down; what its  *)
(* players drop is stamped with the generation it claimed, and the next    *)
(* claim retires what an earlier generation left on the ground.  A worker  *)
(* executes one request of its process after the other, each in a          *)
(* transaction that waits for the rows another process has locked, while   *)
(* time passes.  Processes crash, start late, and start while another one  *)
(* is still alive.                                                         *)
(*                                                                         *)
(* Clocks advance together, as in CharacterLease.  The leases, revisions   *)
(* and keys a command of a player also needs are the subject of            *)
(* CharacterLease and DurableCommands, the timers of the ground that of    *)
(* GroundItems.                                                            *)
(***************************************************************************)
EXTENDS Integers, FiniteSets, Sequences

CONSTANTS
  Process,        \* server processes that share the database
  Nobody,         \* holder of a row that is not locked
  Item,           \* items of players
  Expiry,         \* CHANNEL_GENERATION_EXPIRY
  Crashable,      \* bound: the processes that may crash
  Playing,        \* bound: the processes whose players and ground are active
  MailCap,        \* capacity of the lifecycle queue
  QueueCap,       \* capacity of the worker's queue
  MaxClock,       \* bound: last instant of the model
  MaxGeneration   \* bound: no process starts behind this generation

ChannelAssumption ==
  /\ Nobody \notin Process /\ Crashable \cup Playing \subseteq Process
  /\ {Expiry, MailCap, QueueCap} \subseteq Nat \ {0}
  /\ {MaxClock, MaxGeneration} \subseteq Nat
ASSUME ChannelAssumption

VARIABLES
  clock,    \* the time every clock shows
  row,      \* the row of channel_generations; generation 0 is "no row"
  items,    \* item_instances: whose they are, and the stamp of the ground
  locked,   \* who has locked the channel's row
  claimed,  \* for every item, who has locked its row
  server,   \* main loop, supervisor and owner of a process
  queue,    \* requests to the worker of a process
  known,    \* the generation its database connection remembers
  tx,       \* the transaction of its worker
  wrote     \* history: the generations that wrote the ground, in order

vars == <<clock, row, items, locked, claimed, server, queue, known, tx, wrote>>

ItemOp == {"drop", "pickup", "retire"}
Request == [op : {"claim", "renew", "release", "shutdown"}, generation : Nat]
           \cup [op : ItemOp, item : Item]
None == [op |-> "none"]
Row == [generation : Nat, expires : Int]
Transaction ==
  [op : {"claim", "renew", "release", "shutdown"} \cup ItemOp,
   stage : {"channel", "rows", "commit"},
   sets : Row,             \* what becomes of the channel's row, or its generation
   takes : SUBSET Item]    \* the items it changes
Mail == [kind : {"deadline", "lose"}, at : Int]

TypeOK ==
  /\ clock \in Nat /\ row \in Row
  /\ items \in [Item -> [at : {"owned", "ground", "retired"}, stamp : Nat]]
  /\ locked \in Process \cup {Nobody} /\ claimed \in [Item -> Process \cup {Nobody}]
  /\ server \in [Process ->
       [state : {"off", "claiming", "claimed", "refused", "giving", "serving", "leaving"},
        generation : Nat,
        sent : Nat,                                      \* when the last request was
        deadline : Int, lost : BOOLEAN, mail : Seq(Mail),  \* the owner
        renewal : {"off", "waiting", "sent", "ok", "err"}, extended : Int,
        shown : SUBSET Item, asked : SUBSET Item]]       \* drops, and items in a command
  /\ queue \in [Process -> Seq(Request)]
  /\ \A p \in Process : Len(queue[p]) <= QueueCap /\ Len(server[p].mail) <= MailCap
  /\ known \in [Process -> Nat]
  /\ tx \in [Process -> Transaction \cup {None}]
  /\ wrote \in Seq(Nat)

Off == [state |-> "off", generation |-> 0, sent |-> 0, deadline |-> 0, lost |-> FALSE,
        mail |-> <<>>, renewal |-> "off", extended |-> 0, shown |-> {}, asked |-> {}]

Init ==
  /\ clock = 0 /\ row = [generation |-> 0, expires |-> 0]
  /\ items = [i \in Item |-> [at |-> "owned", stamp |-> 0]]
  /\ locked = Nobody /\ claimed = [i \in Item |-> Nobody]
  /\ server = [p \in Process |-> Off] /\ queue = [p \in Process |-> <<>>]
  /\ known = [p \in Process |-> 0] /\ tx = [p \in Process |-> None] /\ wrote = <<>>

database == <<row, items, locked, claimed, known, tx, wrote>>

Tick == clock < MaxClock /\ clock' = clock + 1 /\ UNCHANGED <<server, queue, database>>

Set(p, s) == server' = [server EXCEPT ![p] = s]
Ask(p, request) ==
  /\ Len(queue[p]) < QueueCap
  /\ queue' = [queue EXCEPT ![p] = Append(@, request)]

FromRequest(sent) == sent + Expiry
StillAuthorizes(deadline) == clock < deadline

(***************************************************************************)
(* The main task: claim_startup_channel, run_server and finish_shutdown.   *)
(***************************************************************************)
Start(p) ==
  /\ server[p].state = "off" /\ tx[p] = None /\ row.generation < MaxGeneration
  /\ Set(p, [Off EXCEPT !.state = "claiming", !.sent = clock])
  /\ Ask(p, [op |-> "claim", generation |-> 0])
  /\ UNCHANGED <<clock, database>>

\* Mutant: the answer is used whenever it comes, from then on.
ClaimAnswered_AnyTime(p) ==
  LET deadline == FromRequest(clock) IN
  /\ server[p].state = "claimed"
  /\ Set(p, [server[p] EXCEPT !.state = "serving", !.deadline = deadline,
                              !.extended = deadline, !.renewal = "waiting"])
  /\ UNCHANGED <<clock, queue, database>>

\* Mutant: a late answer is logged, and nothing is given back.
ClaimAnswered_Unreturned(p) ==
  LET deadline == FromRequest(server[p].sent) IN
  /\ server[p].state = "claimed" /\ StillAuthorizes(deadline)
  /\ Set(p, [server[p] EXCEPT !.state = "serving", !.deadline = deadline,
                              !.extended = deadline, !.renewal = "waiting"])
  /\ UNCHANGED <<clock, queue, database>>

\* An answer that crossed the deadline gives the generation back.
ClaimAnswered(p) ==
  LET deadline == FromRequest(server[p].sent) IN
  /\ server[p].state = "claimed"
  /\ \/ /\ StillAuthorizes(deadline)
        /\ Set(p, [server[p] EXCEPT !.state = "serving", !.deadline = deadline,
                                    !.extended = deadline, !.renewal = "waiting"])
        /\ UNCHANGED queue
     \/ /\ ~StillAuthorizes(deadline)
        /\ Set(p, [server[p] EXCEPT !.state = "giving", !.sent = 0])
        /\ Ask(p, [op |-> "release", generation |-> server[p].generation])
  /\ UNCHANGED <<clock, database>>

\* Busy, or an error.
ClaimRefused(p) ==
  /\ server[p].state = "refused" /\ Set(p, Off)
  /\ UNCHANGED <<clock, queue, database>>

\* The supervisor is cancelled, and the owner simulates no more.
Shutdown(p) ==
  /\ server[p].state = "serving"
  /\ Set(p, [Off EXCEPT !.state = "leaving", !.generation = server[p].generation])
  /\ Ask(p, [op |-> "shutdown", generation |-> server[p].generation])
  /\ UNCHANGED <<clock, database>>

\* A crash, a closed endpoint, or a shutdown that is out of time.  What the
\* database was told to commit it may still commit.
Crash(p) ==
  /\ p \in Crashable /\ server[p].state /= "off" /\ Set(p, Off)
  /\ queue' = [queue EXCEPT ![p] = <<>>]
  /\ known' = [known EXCEPT ![p] = 0]
  /\ UNCHANGED <<clock, row, items, locked, claimed, tx, wrote>>

(***************************************************************************)
(* supervise_renewal, as spawn_channel_renewal runs it.                    *)
(***************************************************************************)
SendRenew(p) ==
  /\ server[p].renewal = "waiting" /\ StillAuthorizes(server[p].extended)
  /\ clock > server[p].sent
  /\ Set(p, [server[p] EXCEPT !.renewal = "sent", !.sent = clock])
  /\ Ask(p, [op |-> "renew", generation |-> server[p].generation])
  /\ UNCHANGED <<clock, database>>

Extended(p) == FromRequest(server[p].sent)

\* try_note_channel_deadline: a full queue drops the note.
Noted(mail, deadline) ==
  IF Len(mail) < MailCap THEN Append(mail, [kind |-> "deadline", at |-> deadline]) ELSE mail

RenewalExtends(p) ==
  /\ server[p].renewal = "ok" /\ StillAuthorizes(server[p].extended)
  /\ StillAuthorizes(Extended(p))
  /\ Set(p, [server[p] EXCEPT !.renewal = "waiting", !.extended = Extended(p),
                              !.mail = Noted(@, Extended(p))])
  /\ UNCHANGED <<clock, queue, database>>

\* Expired or rejected: LoseAllAuthority is sent, waiting for queue space.
RenewalEnds(p) ==
  /\ server[p].renewal /= "off"
  /\ \/ ~StillAuthorizes(server[p].extended)
     \/ server[p].renewal = "err"
     \/ server[p].renewal = "ok" /\ ~StillAuthorizes(Extended(p))
  /\ Len(server[p].mail) < MailCap
  /\ Set(p, [server[p] EXCEPT !.renewal = "off", !.sent = 0, !.extended = 0,
                              !.mail = Append(@, [kind |-> "lose", at |-> 0])])
  /\ UNCHANGED <<clock, queue, database>>

(***************************************************************************)
(* GameplayOwner.  It acts, which its ground does as it expires, until the *)
(* deadline it knows passes; players also need that it has not lost        *)
(* authority.                                                              *)
(***************************************************************************)
Acts(p) == server[p].state = "serving" /\ StillAuthorizes(server[p].deadline)

Drain(p) ==
  /\ server[p].mail /= <<>>
  /\ LET m == Head(server[p].mail) IN
     Set(p, [server[p] EXCEPT !.mail = Tail(@),
               !.deadline = IF m.kind = "deadline" THEN m.at ELSE @,
               !.lost = @ \/ m.kind = "lose"])
  /\ UNCHANGED <<clock, queue, database>>

AskItem(p, op, i) ==
  /\ p \in Playing /\ Acts(p) /\ i \notin server[p].asked
  /\ op = "retire" \/ ~server[p].lost
  /\ IF op = "drop" THEN items[i].at = "owned" ELSE i \in server[p].shown
  /\ Set(p, [server[p] EXCEPT !.asked = @ \cup {i}])
  /\ Ask(p, [op |-> op, item |-> i])
  /\ UNCHANGED <<clock, database>>

(***************************************************************************)
(* The worker of a process, one transaction after the other.               *)
(***************************************************************************)
Running(p) == server[p].state /= "off" /\ tx[p] /= None
Waits(p, lock) == tx[p] /= None /\ tx[p].stage = lock

\* What an answer does to the process that waits for it.
Answered(p, ok) ==
  LET s == server[p]
      t == tx[p] IN
  IF s.state = "off" THEN s ELSE
  CASE t.op = "claim" -> [s EXCEPT !.state = IF ok THEN "claimed" ELSE "refused",
                                   !.generation = t.sets.generation]
    [] t.op = "renew" ->
         IF s.renewal = "sent" THEN [s EXCEPT !.renewal = IF ok THEN "ok" ELSE "err"] ELSE s
    [] t.op \in {"release", "shutdown"} -> Off
    [] t.op \in ItemOp ->
         [s EXCEPT !.asked = @ \ t.takes,
                   !.shown = IF ~ok THEN @
                             ELSE IF t.op = "drop" THEN @ \cup t.takes ELSE @ \ t.takes]

\* The transaction is over: it answers, its locks are free, and its process
\* remembers generation g.  A process that is off remembers nothing.
Ended(p, ok, g) ==
  /\ tx' = [tx EXCEPT ![p] = None]
  /\ locked' = IF locked = p THEN Nobody ELSE locked
  /\ claimed' = [i \in Item |-> IF claimed[i] = p THEN Nobody ELSE claimed[i]]
  /\ Set(p, Answered(p, ok))
  /\ known' = [known EXCEPT ![p] = IF server'[p].state = "off" THEN 0 ELSE g]

\* A failed renewal forgets the generation, another error does not.
Rejected(p) == Ended(p, FALSE, IF tx[p].op = "renew" THEN 0 ELSE known[p])

\* apply_command reads the remembered generation before it locks the channel.
Begun(p, r) ==
  [op |-> r.op,
   stage |-> IF r.op \in {"pickup", "retire"} THEN "rows" ELSE "channel",
   sets |-> [generation |-> IF r.op \in ItemOp THEN known[p] ELSE r.generation,
             expires |-> 0],
   takes |-> IF r.op \in ItemOp THEN {r.item} ELSE {}]

\* At shutdown the worker drops what is queued behind the request.
Begin(p) ==
  /\ queue[p] /= <<>> /\ tx[p] = None
  /\ tx' = [tx EXCEPT ![p] = Begun(p, Head(queue[p]))]
  /\ queue' = [queue EXCEPT ![p] = IF Head(@).op = "shutdown" THEN <<>> ELSE Tail(@)]
  /\ UNCHANGED <<clock, row, items, locked, claimed, server, known, wrote>>

Goes(p, stage) == tx' = [tx EXCEPT ![p].stage = stage]

LockRow(p, i) ==
  /\ Running(p) /\ Waits(p, "rows") /\ i \in tx[p].takes /\ claimed[i] = Nobody
  /\ claimed' = [claimed EXCEPT ![i] = p]
  /\ UNCHANGED <<clock, row, items, locked, server, queue, known, tx, wrote>>

\* lock_live_channel and the WHERE clauses of renewal and release.
\* Mutant: the time is compared, the generation is not.
Live_AnyGeneration(p) == row.expires > clock

Live(p) == row.generation = tx[p].sets.generation /\ row.expires > clock

\* Mutant: the claim takes what an earlier generation left for its own.
Leftover_Kept(generation) == {}

\* retire_ground.
Leftover(generation) ==
  {i \in Item : items[i].at = "ground" /\ items[i].stamp /= generation}

Holds(p) == locked' = p /\ UNCHANGED <<claimed, server, known>>

\* claim_channel: Busy, or the next generation and what has to be retired.
\* Mutant: a live generation is replaced.
Claims_Live(p) ==
  LET next == row.generation + 1 IN
  /\ tx' = [tx EXCEPT ![p] = [@ EXCEPT !.stage = "rows", !.takes = Leftover(next),
                !.sets = [generation |-> next, expires |-> FromRequest(clock)]]]
  /\ Holds(p)

Claims(p) ==
  LET next == row.generation + 1 IN
  \/ /\ row.expires > clock
     /\ Rejected(p)
  \/ /\ row.expires <= clock
     /\ tx' = [tx EXCEPT ![p] = [@ EXCEPT !.stage = "rows", !.takes = Leftover(next),
                   !.sets = [generation |-> next, expires |-> FromRequest(clock)]]]
     /\ Holds(p)

\* What a renewal and a release leave in the row.
\* Mutant: the release deletes the row.
Left_Deleted(p) ==
  IF tx[p].op = "renew" THEN [row EXCEPT !.expires = FromRequest(clock)]
  ELSE [generation |-> 0, expires |-> 0]

Left(p) ==
  [row EXCEPT !.expires = IF tx[p].op = "renew" THEN FromRequest(clock) ELSE clock - 1]

Own(p) ==
  tx[p].op = "retire" => \A i \in tx[p].takes : items[i].stamp = row.generation

Continues(p) ==
  CASE tx[p].op \in {"renew", "release", "shutdown"} ->
         tx' = [tx EXCEPT ![p] = [@ EXCEPT !.stage = "commit", !.sets = Left(p)]]
    [] tx[p].op = "drop" -> Goes(p, "rows")
    [] tx[p].op = "retire" -> Goes(p, "commit")

\* Whoever gets the lock reads the time after it has waited.  A ground item
\* has to be of the generation that retires it.
LockChannel(p) ==
  /\ Running(p) /\ Waits(p, "channel") /\ locked = Nobody
  /\ \/ tx[p].op = "claim" /\ Claims(p)
     \/ tx[p].op /= "claim" /\ Live(p) /\ Own(p) /\ Continues(p) /\ Holds(p)
     \/ tx[p].op /= "claim" /\ ~(Live(p) /\ Own(p)) /\ Rejected(p)
  /\ UNCHANGED <<clock, row, items, queue, wrote>>

\* All rows are locked.  A claim's retirement follows the rows it found when
\* it began, wherever they are by now.
From(op) == IF op = "drop" THEN "owned" ELSE "ground"
RowsLocked(p) ==
  LET t == tx[p] IN
  /\ Running(p) /\ Waits(p, "rows") /\ \A i \in t.takes : claimed[i] = p
  /\ \/ /\ t.op = "claim" \/ \A i \in t.takes : items[i].at = From(t.op)
        /\ Goes(p, IF t.op = "retire" THEN "channel" ELSE "commit")
        /\ UNCHANGED <<locked, claimed, server, known>>
     \/ /\ t.op /= "claim" /\ \E i \in t.takes : items[i].at /= From(t.op)
        /\ Rejected(p)
  /\ UNCHANGED <<clock, row, items, queue, wrote>>

To(op, stamp) ==
  CASE op = "drop" -> [at |-> "ground", stamp |-> stamp]
    [] op = "pickup" -> [at |-> "owned", stamp |-> 0]
    [] OTHER -> [at |-> "retired", stamp |-> 0]

\* The history repeats no generation.
Written(op, generation) ==
  IF op \in {"drop", "retire"} /\ (wrote = <<>> \/ wrote[Len(wrote)] /= generation)
  THEN Append(wrote, generation) ELSE wrote

Stored(p) ==
  LET t == tx[p] IN
  /\ row' = IF t.op \in ItemOp THEN row ELSE t.sets
  /\ items' = [i \in Item |-> IF i \in t.takes THEN To(t.op, t.sets.generation) ELSE items[i]]
  /\ wrote' = Written(t.op, t.sets.generation)
  /\ UNCHANGED <<clock, queue>>

Commit(p) ==
  /\ Waits(p, "commit") /\ Stored(p)
  /\ Ended(p, TRUE, CASE tx[p].op \in {"claim", "renew"} -> tx[p].sets.generation
                      [] tx[p].op \in {"release", "shutdown"} -> 0
                      [] tx[p].op \in ItemOp -> known[p])

\* The commit is stored and its answer lost: an error that keeps what the
\* connection remembers.
CommitLost(p) ==
  /\ Running(p) /\ Waits(p, "commit") /\ tx[p].op \notin ItemOp
  /\ Stored(p) /\ Ended(p, FALSE, known[p])

\* A storage error, or a transaction whose process is gone.
Abort(p) ==
  /\ tx[p] /= None /\ Rejected(p)
  /\ UNCHANGED <<clock, row, items, queue, wrote>>

Next ==
  \/ Tick
  \/ \E p \in Process :
       \/ Start(p) \/ ClaimAnswered(p) \/ ClaimRefused(p) \/ Shutdown(p) \/ Crash(p)
       \/ SendRenew(p) \/ RenewalExtends(p) \/ RenewalEnds(p) \/ Drain(p)
       \/ \E op \in ItemOp, i \in Item : AskItem(p, op, i)
       \/ Begin(p) \/ LockChannel(p) \/ RowsLocked(p)
       \/ \E i \in Item : LockRow(p, i)
       \/ Commit(p) \/ CommitLost(p) \/ Abort(p)

(***************************************************************************)
(* The main task and the worker run while their process does, and the      *)
(* database queues who waits for a lock in order.  Two transactions that   *)
(* wait for each other are broken up, and one without a process is ended.  *)
(***************************************************************************)
Stuck(p) ==
  \/ tx[p] /= None /\ server[p].state = "off"
  \/ /\ Waits(p, "channel") /\ locked \notin {Nobody, p}
     /\ \E i \in Item : claimed[i] = p /\ Waits(locked, "rows") /\ i \in tx[locked].takes
Fairness ==
  \A p \in Process :
    /\ WF_vars(Begin(p) \/ RowsLocked(p) \/ Commit(p))
    /\ SF_vars(LockChannel(p) \/ \E i \in Item : LockRow(p, i))
    /\ WF_vars(Stuck(p) /\ Abort(p))
    /\ WF_vars(ClaimAnswered(p) \/ ClaimRefused(p))

Spec == Init /\ [][Next]_vars /\ Fairness

-----------------------------------------------------------------------------
(* Properties. *)

\* At most one process acts for the channel, and the row in the database
\* agrees with it: it has that process's generation and has not expired.
\* ("Local authority must not outlive the database", lease_clock.rs.)
OneActs ==
  \A p \in Process : Acts(p) =>
    /\ row.generation = server[p].generation /\ row.expires > clock
    /\ \A q \in Process \ {p} : ~Acts(q)

\* A ground item is of the generation that is in the row, although processes
\* that wrote it crash and others follow; what the acting owner shows is on
\* the ground, unless a command of its own is changing it.
GroundIsCurrent ==
  /\ \A i \in Item : items[i].at = "ground" => items[i].stamp = row.generation
  /\ \A p \in Process : Acts(p) =>
       \A i \in server[p].shown \ server[p].asked : items[i].at = "ground"

\* Every value has its type, at most one process acts, and the ground is of
\* the generation that may.
ChannelIsSound == TypeOK /\ OneActs /\ GroundIsCurrent

Holder ==
  IF \E p \in Process : Acts(p)
  THEN server[CHOOSE p \in Process : Acts(p)].generation ELSE 0

\* The channel is fenced: a generation is issued while none is in use, the
\* one in use is the last one issued, and the ground is dropped on and
\* expired under the last one only.
Fenced == INSTANCE FencedLease
            WITH Character <- {"ground"}, issued <- row.generation, holder <- Holder,
                 stored <- [c \in {"ground"} |-> wrote]
ChannelIsFenced == Fenced!Spec

\* A process that starts ends up serving or off, even when another one holds
\* the locks it needs, crashes with them, or waits for it.
StartEnds ==
  \A p \in Process : (server[p].state = "claiming") ~> (server[p].state \in {"serving", "off"})

\* An item a player has is not retired.  A claim that waits for the row of an
\* item that is being picked up retires it all the same.
KeptIsKept == [][\A i \in Item : items[i].at = "owned" => items'[i].at /= "retired"]_vars
=============================================================================
