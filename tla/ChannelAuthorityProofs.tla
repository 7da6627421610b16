------------------------- MODULE ChannelAuthorityProofs -------------------------
(***************************************************************************)
(* Theorems about ChannelAuthority, for every set of processes and items   *)
(* and every value of the bounds.                                          *)
(***************************************************************************)
EXTENDS ChannelAuthority, TLAPS

-----------------------------------------------------------------------------
(***************************************************************************)
(* The inductive invariant.  It is a conjunction of parts; those that end  *)
(* in "Of" speak of one process.                                           *)
(***************************************************************************)

(* Who has the lock of the channel's row: a claim that retires, a drop     *)
(* that waits for its item, and whatever waits to commit but a pickup.     *)
HoldsChannel(p) ==
  /\ tx[p] # None
  /\ \/ tx[p].op \in {"claim", "drop"} /\ tx[p].stage = "rows"
     \/ tx[p].op # "pickup" /\ tx[p].stage = "commit"

HoldsRows(p) ==
  /\ tx[p] # None
  /\ \/ tx[p].stage = "commit"
     \/ tx[p].op = "retire" /\ tx[p].stage = "channel"

LocksOf(p) ==
  /\ locked = p <=> HoldsChannel(p)
  /\ HoldsRows(p) => \A i \in tx[p].takes : claimed[i] = p
  /\ tx[p].op = "pickup" => tx[p].stage # "channel"
  /\ tx[p].op \in {"renew", "release", "shutdown"} =>
       tx[p].stage # "rows" /\ tx[p].takes = {}

Locks == \A p \in Process : LocksOf(p)

Times ==
  /\ row.expires <= clock + Expiry
  /\ \A p \in Process : server[p].sent <= clock

(* What a transaction found in the rows it holds is still there.           *)
JudgedOf(p) ==
  LET t == tx[p] IN
  HoldsChannel(p) =>
    /\ t.op \in {"claim", "renew"} => t.sets.expires <= clock + Expiry
    /\ t.op = "claim" =>
         /\ t.sets.generation = row.generation + 1
         /\ row.expires <= clock
         /\ \A i \in Item : items[i].at = "ground" => i \in t.takes
         /\ server[p].state = "claiming" =>
              FromRequest(server[p].sent) <= t.sets.expires
    /\ t.op # "claim" => t.sets.generation = row.generation
    /\ t.op = "renew" =>
         /\ row.expires <= t.sets.expires
         /\ server[p].renewal = "sent" =>
              FromRequest(server[p].sent) <= t.sets.expires
    /\ t.op \in {"release", "shutdown"} => t.sets.expires <= clock

FoundOf(p) ==
  HoldsRows(p) /\ tx[p].op \in ItemOp =>
    \A i \in tx[p].takes : items[i].at = From(tx[p].op)

Judged == \A p \in Process : JudgedOf(p) /\ FoundOf(p)

(* The states in which a process has asked for op and not been answered.   *)
Asks(op) ==
  CASE op = "claim" -> {"claiming"}
    [] op = "release" -> {"giving"}
    [] op = "shutdown" -> {"leaving"}
    [] OTHER -> {"serving", "leaving"}

Bare == {"off", "claiming", "claimed", "refused", "giving"}

(* What a process may have asked for, and hold, in each state.             *)
PhaseOf(p) ==
  LET s == server[p]
      t == tx[p] IN
  /\ \A j \in DOMAIN queue[p] :
       /\ s.state \in Asks(queue[p][j].op)
       /\ queue[p][j].op \in {"renew", "release", "shutdown"} =>
            queue[p][j].generation = s.generation
  /\ t # None /\ s.state # "off" => s.state \in Asks(t.op)
  /\ t # None /\ t.op \in {"claim", "release", "shutdown"} => queue[p] = <<>>
  /\ t # None /\ s.state # "off" /\ t.op \in {"renew", "release", "shutdown"}
       => t.sets.generation = s.generation
  /\ s.state \in {"claiming", "giving"} => Len(queue[p]) <= 1
  /\ s.state \in Bare => s.shown = {} /\ s.asked = {}
  /\ s.state # "serving" => s.renewal = "off" /\ s.mail = <<>>

Phases == \A p \in Process : PhaseOf(p)

(* A renewal is asked for when none is pending.                            *)
RenewsOf(p) ==
  LET renews == {j \in DOMAIN queue[p] : queue[p][j].op = "renew"} IN
  /\ server[p].renewal \in {"waiting", "ok", "err"} =>
       renews = {} /\ tx[p].op # "renew"
  /\ server[p].renewal = "sent" =>
       /\ \A j, k \in renews : j = k
       /\ tx[p].op = "renew" => renews = {}

Renews == \A p \in Process : RenewsOf(p)

(* Item i is the subject of a request that waits, or of the transaction.   *)
Wants(p, j, i) == queue[p][j].op \in ItemOp /\ queue[p][j].item = i
Changes(p, i) == tx[p].op \in ItemOp /\ i \in tx[p].takes

(* One request of a process at a time is about an item.                    *)
OneRequestOf(p) ==
  \A i \in Item :
    /\ \A j, k \in DOMAIN queue[p] : Wants(p, j, i) /\ Wants(p, k, i) => j = k
    /\ \A j \in DOMAIN queue[p] : Wants(p, j, i) => ~Changes(p, i)
    /\ server[p].state = "serving" =>
         /\ \A j \in DOMAIN queue[p] : Wants(p, j, i) => i \in server[p].asked
         /\ Changes(p, i) => i \in server[p].asked

OneRequest == \A p \in Process : OneRequestOf(p)

(* A deadline kept for generation g is over, or the row backs it.          *)
Backed(g, d) == d <= clock \/ (g = row.generation /\ d <= row.expires)

DeadlinesOf(p) ==
  LET s == server[p] IN
  /\ s.state = "claimed" => Backed(s.generation, FromRequest(s.sent))
  /\ s.state = "serving" =>
       /\ Backed(s.generation, s.deadline)
       /\ s.renewal = "ok" => Backed(s.generation, FromRequest(s.sent))
       /\ \A j \in DOMAIN s.mail :
            s.mail[j].kind = "deadline" => Backed(s.generation, s.mail[j].at)

Deadlines == \A p \in Process : DeadlinesOf(p)

(* A generation that may act has one process; one that ends is another's.  *)
Uses(p, g) == server[p].state \in {"claimed", "serving"} /\ server[p].generation = g
Names(p, g) ==
  \/ /\ server[p].state \in {"claimed", "giving", "serving", "leaving"}
     /\ server[p].generation = g
  \/ /\ tx[p] # None /\ tx[p].op \in {"release", "shutdown"}
     /\ tx[p].sets.generation = g

Issued == \A p \in Process, g \in Nat : Names(p, g) => g <= row.generation
OneUser == \A p, q \in Process, g \in Nat : Uses(p, g) /\ Names(q, g) => p = q

(* Process p shows item i on its ground or is about to take it away.       *)
Touches(p, i) ==
  \/ i \in server[p].shown
  \/ \E j \in DOMAIN queue[p] :
       Wants(p, j, i) /\ queue[p][j].op \in {"pickup", "retire"}
  \/ Changes(p, i) /\ tx[p].op \in {"pickup", "retire"}

Grounds ==
  /\ \A i \in Item : items[i].at = "ground" => items[i].stamp = row.generation
  /\ \A p \in Process, i \in Item : Touches(p, i) => items[i].at # "owned"
  /\ \A p, q \in Process, i \in Item :
       Touches(p, i) /\ Touches(q, i) => p = q \/ items[i].at = "retired"
  /\ \A p \in Process :
       server[p].state = "serving" /\ server[p].generation = row.generation =>
         \A i \in server[p].shown : items[i].at = "ground"

ChannelInv ==
  /\ TypeOK /\ Locks /\ Times /\ Judged /\ Phases /\ Renews /\ OneRequest
  /\ Deadlines /\ Issued /\ OneUser /\ Grounds
-----------------------------------------------------------------------------
(***************************************************************************)
(* Types.                                                                  *)
(***************************************************************************)
ServerType ==
  [state : {"off", "claiming", "claimed", "refused", "giving", "serving", "leaving"},
   generation : Nat, sent : Nat, deadline : Int, lost : BOOLEAN, mail : Seq(Mail),
   renewal : {"off", "waiting", "sent", "ok", "err"}, extended : Int,
   shown : SUBSET Item, asked : SUBSET Item]

(* What TypeOK says of one variable, and of the constants.                 *)
LEMMA Numbers ==
  ASSUME TypeOK
  PROVE  /\ clock \in Nat /\ Expiry \in Nat /\ Expiry > 0
         /\ QueueCap \in Nat /\ QueueCap > 0 /\ MailCap \in Nat /\ MailCap > 0
         /\ row.generation \in Nat /\ row.expires \in Int
         /\ Nobody \notin Process
  BY ChannelAssumption DEF TypeOK, Row, ChannelAssumption

(* The record of a process, by name.                                       *)
LEMMA ServerIs ==
  ASSUME TypeOK
  PROVE  /\ server \in [Process -> ServerType]
         /\ \A p \in Process : server[p] \in ServerType
  BY DEF TypeOK, ServerType

(* The record of a process that is off has its type.                       *)
LEMMA OffType == Off \in ServerType
  BY DEF Off, ServerType, Mail

(* One process sets its record and the others keep theirs.                 *)
LEMMA SetType ==
  ASSUME TypeOK, NEW p \in Process, NEW s \in ServerType, Set(p, s),
         Len(s.mail) <= MailCap
  PROVE  /\ server' \in [Process -> ServerType]
         /\ \A q \in Process : Len(server'[q].mail) <= MailCap
         /\ server'[p] = s
         /\ \A q \in Process \ {p} : server'[q] = server[q]
<1>1. server \in [Process -> ServerType]
  BY ServerIs
<1>2. server' = [server EXCEPT ![p] = s]
  BY DEF Set
<1>3. \A q \in Process : Len(server[q].mail) <= MailCap
  BY DEF TypeOK
<1> QED
  BY <1>1, <1>2, <1>3

(* A request is put into a queue that has room.                            *)
LEMMA AskType ==
  ASSUME TypeOK, NEW p \in Process, NEW r \in Request, Ask(p, r)
  PROVE  /\ queue' \in [Process -> Seq(Request)]
         /\ \A q \in Process : Len(queue'[q]) <= QueueCap
         /\ queue'[p] = Append(queue[p], r)
         /\ \A q \in Process \ {p} : queue'[q] = queue[q]
<1>1. /\ queue \in [Process -> Seq(Request)]
      /\ \A q \in Process : Len(queue[q]) <= QueueCap
  BY DEF TypeOK
<1>2. /\ queue' = [queue EXCEPT ![p] = Append(queue[p], r)]
      /\ Len(queue[p]) < QueueCap
  BY DEF Ask
<1>3. /\ Append(queue[p], r) \in Seq(Request)
      /\ Len(Append(queue[p], r)) = Len(queue[p]) + 1
  BY <1>1
<1>4. Len(queue[p]) \in Nat
  BY <1>1
<1> QED
  BY <1>1, <1>2, <1>3, <1>4, Numbers

(* TypeOK, put together from what a step of the server leaves.             *)
LEMMA ServerSideType ==
  ASSUME TypeOK, UNCHANGED <<clock, row, items, locked, claimed, tx, wrote>>,
         server' \in [Process -> ServerType],
         \A q \in Process : Len(server'[q].mail) <= MailCap,
         queue' \in [Process -> Seq(Request)],
         \A q \in Process : Len(queue'[q]) <= QueueCap,
         known' \in [Process -> Nat]
  PROVE  TypeOK'
  BY DEF TypeOK, ServerType

(* TypeOK holds at first.                                                  *)
LEMMA TypeInit == Init => TypeOK
<1> SUFFICES ASSUME Init PROVE TypeOK
  OBVIOUS
<1>1. server \in [Process -> ServerType] /\ \A p \in Process : Len(server[p].mail) <= MailCap
  BY OffType, ChannelAssumption DEF Init, Off, ChannelAssumption
<1>2. queue \in [Process -> Seq(Request)] /\ \A p \in Process : Len(queue[p]) <= QueueCap
  BY ChannelAssumption DEF Init, ChannelAssumption
<1> QED
  BY <1>1, <1>2 DEF Init, TypeOK, ServerType, Row, None

(* A step of the server: what it makes of its record is a record.          *)
LEMMA ServerActionType ==
  ASSUME TypeOK, NEW p \in Process,
         \/ Start(p) \/ ClaimAnswered(p) \/ ClaimRefused(p) \/ Shutdown(p)
         \/ SendRenew(p) \/ RenewalExtends(p) \/ RenewalEnds(p) \/ Drain(p)
         \/ \E op \in ItemOp, i \in Item : AskItem(p, op, i)
  PROVE  TypeOK'
<1>n. /\ clock \in Nat /\ Expiry \in Nat
      /\ MailCap \in Nat /\ MailCap > 0
  BY Numbers
<1> USE <1>n
<1> DEFINE s == server[p]
<1>s. s \in ServerType /\ Len(s.mail) <= MailCap
  BY ServerIs DEF TypeOK
<1>q. /\ queue \in [Process -> Seq(Request)]
      /\ \A q \in Process : Len(queue[q]) <= QueueCap
      /\ known \in [Process -> Nat]
  BY DEF TypeOK
<1>f. FromRequest(clock) \in Int /\ FromRequest(s.sent) \in Int
  BY <1>n, <1>s DEF FromRequest, ServerType
<1>1. ASSUME NEW r \in ServerType, Set(p, r), Len(r.mail) <= MailCap,
             UNCHANGED <<clock, row, items, locked, claimed, known, tx, wrote>>,
             UNCHANGED queue \/ \E a \in Request : Ask(p, a)
      PROVE  TypeOK'
  BY <1>1, <1>q, SetType, AskType, ServerSideType
<1>2. CASE Start(p)
  <2>1. [Off EXCEPT !.state = "claiming", !.sent = clock] \in ServerType
    BY OffType DEF ServerType
  <2>2. [op |-> "claim", generation |-> 0] \in Request
    BY DEF Request
  <2>3. Len([Off EXCEPT !.state = "claiming", !.sent = clock].mail) <= MailCap
    BY DEF Off
  <2> QED
    BY <1>1, <1>2, <2>1, <2>2, <2>3 DEF Start, database
<1>3. CASE ClaimAnswered(p)
  <2>1. [op |-> "release", generation |-> s.generation] \in Request
    BY <1>s DEF Request, ServerType
  <2>2. ASSUME NEW d \in Int
        PROVE [s EXCEPT !.state = "serving", !.deadline = d,
                        !.extended = d, !.renewal = "waiting"] \in ServerType
    <3> DEFINE r == [s EXCEPT !.state = "serving", !.deadline = d]
    <3>1. r \in ServerType
      BY <1>s, <2>2 DEF ServerType
    <3>2. [r EXCEPT !.extended = d, !.renewal = "waiting"] \in ServerType
      <4> HIDE DEF r
      <4> QED
        BY <2>2, <3>1 DEF ServerType
    <3> QED
      BY <3>2
  <2>3. [s EXCEPT !.state = "giving", !.sent = 0] \in ServerType
    BY <1>s DEF ServerType
  <2>4. CASE /\ Set(p, [s EXCEPT !.state = "serving", !.deadline = FromRequest(s.sent),
                         !.extended = FromRequest(s.sent), !.renewal = "waiting"])
             /\ UNCHANGED queue
    <3>1. [s EXCEPT !.state = "serving", !.deadline = FromRequest(s.sent),
             !.extended = FromRequest(s.sent), !.renewal = "waiting"].mail = s.mail
      BY <1>s DEF ServerType
    <3> QED
      BY <1>1, <1>3, <1>f, <1>s, <2>2, <2>4, <3>1 DEF ClaimAnswered, database
  <2>5. CASE /\ Set(p, [s EXCEPT !.state = "giving", !.sent = 0])
             /\ Ask(p, [op |-> "release", generation |-> s.generation])
    <3>1. [s EXCEPT !.state = "giving", !.sent = 0].mail = s.mail
      BY <1>s DEF ServerType
    <3> QED
      BY <1>1, <1>3, <1>s, <2>1, <2>3, <2>5, <3>1 DEF ClaimAnswered, database
  <2> QED
    BY <1>3, <2>4, <2>5 DEF ClaimAnswered
<1>4. CASE ClaimRefused(p)
  BY <1>1, <1>4, OffType DEF ClaimRefused, database, Off
<1>5. CASE Shutdown(p)
  <2>1. [Off EXCEPT !.state = "leaving", !.generation = s.generation] \in ServerType
    BY <1>s, OffType DEF ServerType
  <2>2. [op |-> "shutdown", generation |-> s.generation] \in Request
    BY <1>s DEF Request, ServerType
  <2>3. Len([Off EXCEPT !.state = "leaving", !.generation = s.generation].mail) <= MailCap
    BY DEF Off
  <2> QED
    BY <1>1, <1>5, <2>1, <2>2, <2>3 DEF Shutdown, database
<1>6. CASE SendRenew(p)
  <2>1. [s EXCEPT !.renewal = "sent", !.sent = clock] \in ServerType
    BY <1>s DEF ServerType
  <2>2. [op |-> "renew", generation |-> s.generation] \in Request
    BY <1>s DEF Request, ServerType
  <2>3. [s EXCEPT !.renewal = "sent", !.sent = clock].mail = s.mail
    BY <1>s DEF ServerType
  <2> QED
    BY <1>1, <1>6, <1>s, <2>1, <2>2, <2>3 DEF SendRenew, database
<1>7. CASE RenewalExtends(p)
  <2>1. /\ Noted(s.mail, Extended(p)) \in Seq(Mail)
        /\ Len(Noted(s.mail, Extended(p))) <= MailCap
    <3>1. /\ s.mail \in Seq(Mail) /\ Len(s.mail) <= MailCap
          /\ Extended(p) \in Int
      BY <1>f, <1>s DEF Extended, ServerType
    <3>2. [kind |-> "deadline", at |-> Extended(p)] \in Mail
      BY <3>1 DEF Mail
    <3>3. Len(s.mail) \in Nat
      BY <3>1
    <3> HIDE DEF s
    <3> QED
      BY <1>n, <3>1, <3>2, <3>3 DEF Noted
  <2> DEFINE r == [s EXCEPT !.renewal = "waiting", !.extended = Extended(p),
                            !.mail = Noted(@, Extended(p))]
  <2>2. r \in ServerType /\ r.mail = Noted(s.mail, Extended(p))
    <3>1. Extended(p) \in Int
      BY <1>f DEF Extended
    <3> QED
      BY <1>s, <2>1, <3>1 DEF ServerType
  <2> QED
    BY <1>1, <1>7, <2>1, <2>2 DEF RenewalExtends, database
<1>8. CASE RenewalEnds(p)
  <2> DEFINE lose == [kind |-> "lose", at |-> 0]
             r == [s EXCEPT !.renewal = "off", !.sent = 0, !.extended = 0,
                            !.mail = Append(@, lose)]
  <2>0. lose \in Mail /\ s.mail \in Seq(Mail)
    BY <1>s DEF Mail, ServerType
  <2>1. /\ Append(s.mail, lose) \in Seq(Mail)
        /\ Len(Append(s.mail, lose)) = Len(s.mail) + 1
    <3> HIDE DEF lose
    <3> QED
      BY <2>0
  <2>2. r \in ServerType /\ r.mail = Append(s.mail, lose)
    <3> DEFINE m == Append(s.mail, lose)
               r1 == [s EXCEPT !.renewal = "off", !.sent = 0]
    <3>1. r1 \in ServerType
      BY <1>s DEF ServerType
    <3>2. /\ [r1 EXCEPT !.extended = 0, !.mail = m] \in ServerType
          /\ [r1 EXCEPT !.extended = 0, !.mail = m].mail = m
      <4> HIDE DEF r1, m
      <4>1. m \in Seq(Mail)
        BY <2>1 DEF m
      <4> QED
        BY <3>1, <4>1, 0 \in Int DEF ServerType
    <3>3. r = [r1 EXCEPT !.extended = 0, !.mail = m]
      BY <1>s DEF ServerType
    <3> QED
      <4> HIDE DEF r, m, r1
      <4> QED
        BY <3>2, <3>3 DEF m
  <2>3. Len(s.mail) < MailCap /\ Len(s.mail) \in Nat
    BY <1>8, <1>s DEF RenewalEnds, ServerType
  <2>4. Len(r.mail) <= MailCap
    BY <1>n, <2>1, <2>2, <2>3
  <2>5. /\ Set(p, r)
        /\ UNCHANGED <<clock, row, items, locked, claimed, known, tx, wrote>>
        /\ UNCHANGED queue
    BY <1>8 DEF RenewalEnds, database
  <2> QED
    <3> HIDE DEF r
    <3> QED
      BY <1>1, <2>2, <2>4, <2>5
<1>9. CASE Drain(p)
  <2> DEFINE m == Head(s.mail)
             r == [s EXCEPT !.mail = Tail(@),
                     !.deadline = IF m.kind = "deadline" THEN m.at ELSE @,
                     !.lost = @ \/ m.kind = "lose"]
  <2>1. /\ m \in Mail /\ Tail(s.mail) \in Seq(Mail)
        /\ Len(Tail(s.mail)) <= MailCap
    BY <1>9, <1>s DEF Drain, ServerType
  <2>2. r.mail = Tail(s.mail)
    BY <1>s DEF ServerType
  <2>3. (IF m.kind = "deadline" THEN m.at ELSE s.deadline) \in Int
    BY <1>s, <2>1 DEF Mail, ServerType
  <2>4. r \in ServerType
    <3> HIDE DEF m
    <3>1. (s.lost \/ m.kind = "lose") \in BOOLEAN
      OBVIOUS
    <3> QED
      BY <1>s, <2>1, <2>3, <3>1 DEF ServerType
  <2> QED
    BY <1>1, <1>9, <2>1, <2>2, <2>4 DEF Drain, database
<1>10. ASSUME NEW op \in ItemOp, NEW i \in Item, AskItem(p, op, i)
       PROVE  TypeOK'
  <2>1. [s EXCEPT !.asked = @ \cup {i}] \in ServerType
    BY <1>s DEF ServerType
  <2>2. [op |-> op, item |-> i] \in Request
    BY DEF Request
  <2>3. [s EXCEPT !.asked = @ \cup {i}].mail = s.mail
    BY <1>s DEF ServerType
  <2> QED
    BY <1>1, <1>10, <1>s, <2>1, <2>2, <2>3 DEF AskItem, database
<1> QED
  BY <1>2, <1>3, <1>4, <1>5, <1>6, <1>7, <1>8, <1>9, <1>10

(* A crash keeps TypeOK.                                                   *)
LEMMA CrashType == ASSUME TypeOK, NEW p \in Process, Crash(p) PROVE TypeOK'
<1>1. Len(Off.mail) <= MailCap
  BY Numbers DEF Off
<1>2. /\ queue' \in [Process -> Seq(Request)]
      /\ \A q \in Process : Len(queue'[q]) <= QueueCap
      /\ known' \in [Process -> Nat]
  <2>1. QueueCap \in Nat /\ <<>> \in Seq(Request) /\ Len(<<>>) = 0
    BY Numbers
  <2> QED
    BY <2>1 DEF Crash, TypeOK
<1>3. Set(p, Off) /\ UNCHANGED <<clock, row, items, locked, claimed, tx, wrote>>
  BY DEF Crash
<1> QED
  BY <1>1, <1>2, <1>3, OffType, SetType, ServerSideType

(* A transaction that runs has its type.                                   *)
LEMMA TxIs ==
  ASSUME TypeOK, NEW p \in Process
  PROVE  /\ tx \in [Process -> Transaction \cup {None}]
         /\ tx[p] # None => tx[p] \in Transaction
         /\ tx[p] # None <=> tx[p].op # "none"
  BY DEF TypeOK, Transaction, None, ItemOp

(* What an answer makes of a record has its type.                          *)
LEMMA AnsweredType ==
  ASSUME TypeOK, NEW p \in Process, tx[p] # None, NEW ok \in BOOLEAN
  PROVE  Answered(p, ok) \in ServerType /\ Len(Answered(p, ok).mail) <= MailCap
<1> DEFINE s == server[p]
           t == tx[p]
<1>1. s \in ServerType /\ Len(s.mail) <= MailCap
  BY ServerIs DEF TypeOK
<1>2. /\ t.op \in {"claim", "renew", "release", "shutdown"} \cup ItemOp
      /\ t.sets.generation \in Nat /\ t.takes \in SUBSET Item
  BY TxIs DEF Transaction, Row
<1>3. CASE s.state = "off"
  BY <1>1, <1>3 DEF Answered
<1>4. CASE s.state # "off" /\ t.op = "claim"
  <2> DEFINE r == [s EXCEPT !.state = IF ok THEN "claimed" ELSE "refused",
                            !.generation = t.sets.generation]
  <2>1. r \in ServerType /\ r.mail = s.mail
    BY <1>1, <1>2 DEF ServerType
  <2>2. Answered(p, ok) = r
    BY <1>4 DEF Answered, ItemOp
  <2> QED
    BY <1>1, <2>1, <2>2
<1>5. CASE s.state # "off" /\ t.op = "renew"
  <2> DEFINE r == [s EXCEPT !.renewal = IF ok THEN "ok" ELSE "err"]
  <2>1. r \in ServerType /\ r.mail = s.mail
    BY <1>1, <1>2 DEF ServerType
  <2>2. Answered(p, ok) = IF s.renewal = "sent" THEN r ELSE s
    BY <1>5 DEF Answered, ItemOp
  <2> QED
    BY <1>1, <2>1, <2>2
<1>6. CASE s.state # "off" /\ t.op \in {"release", "shutdown"}
  <2>1. Answered(p, ok) = Off
    BY <1>6 DEF Answered, ItemOp
  <2>2. Len(Off.mail) <= MailCap
    BY Numbers DEF Off
  <2> QED
    BY <2>1, <2>2, OffType
<1>7. CASE s.state # "off" /\ t.op \in ItemOp
  <2> DEFINE sh == IF ~ok THEN s.shown
                   ELSE IF t.op = "drop" THEN s.shown \cup t.takes
                   ELSE s.shown \ t.takes
             r == [s EXCEPT !.asked = @ \ t.takes, !.shown = sh]
  <2>0. sh \in SUBSET Item /\ s.asked \ t.takes \in SUBSET Item
    BY <1>1, <1>2 DEF ServerType
  <2>1. r \in ServerType /\ r.mail = s.mail
    <3> HIDE DEF sh
    <3> QED
      BY <1>1, <1>2, <2>0 DEF ServerType
  <2>2. Answered(p, ok) = r
    BY <1>1, <1>7 DEF Answered, ServerType, ItemOp
  <2> QED
    BY <1>1, <2>1, <2>2
<1> QED
  BY <1>2, <1>3, <1>4, <1>5, <1>6, <1>7

(* The end of a transaction, in one place.                                 *)
LEMMA EndedEffect ==
  ASSUME TypeOK, NEW p \in Process, tx[p] # None, NEW ok \in BOOLEAN,
         NEW g \in Nat, Ended(p, ok, g)
  PROVE  /\ tx' \in [Process -> Transaction \cup {None}] /\ tx'[p] = None
         /\ \A q \in Process \ {p} : tx'[q] = tx[q]
         /\ locked' = IF locked = p THEN Nobody ELSE locked
         /\ claimed' \in [Item -> Process \cup {Nobody}]
         /\ \A i \in Item : claimed'[i] = IF claimed[i] = p THEN Nobody ELSE claimed[i]
         /\ server' \in [Process -> ServerType]
         /\ \A q \in Process : Len(server'[q].mail) <= MailCap
         /\ server'[p] = Answered(p, ok)
         /\ \A q \in Process \ {p} : server'[q] = server[q]
         /\ known' \in [Process -> Nat]
<1>1. /\ server' \in [Process -> ServerType]
      /\ \A q \in Process : Len(server'[q].mail) <= MailCap
      /\ server'[p] = Answered(p, ok)
      /\ \A q \in Process \ {p} : server'[q] = server[q]
  BY AnsweredType, SetType DEF Ended
<1>2. /\ tx' \in [Process -> Transaction \cup {None}] /\ tx'[p] = None
      /\ \A q \in Process \ {p} : tx'[q] = tx[q]
  BY DEF Ended, TypeOK
<1>3. /\ claimed' \in [Item -> Process \cup {Nobody}]
      /\ \A i \in Item : claimed'[i] = IF claimed[i] = p THEN Nobody ELSE claimed[i]
  BY DEF Ended, TypeOK
<1>4. known' \in [Process -> Nat]
  BY DEF Ended, TypeOK
<1> QED
  BY <1>1, <1>2, <1>3, <1>4 DEF Ended

(* A rejection ends the transaction.                                       *)
LEMMA RejectedEnds ==
  ASSUME TypeOK, NEW p \in Process, Rejected(p)
  PROVE  \E g \in Nat : Ended(p, FALSE, g)
<1>1. (IF tx[p].op = "renew" THEN 0 ELSE known[p]) \in Nat
  BY DEF TypeOK
<1> QED
  BY <1>1 DEF Rejected

(* A rejection keeps TypeOK.                                               *)
LEMMA RejectedType ==
  ASSUME TypeOK, NEW p \in Process, tx[p] # None, Rejected(p),
         UNCHANGED <<clock, row, items, queue, wrote>>
  PROVE  TypeOK'
<1>1. PICK g \in Nat : Ended(p, FALSE, g)
  BY RejectedEnds
<1>2. /\ tx' \in [Process -> Transaction \cup {None}]
      /\ locked' \in Process \cup {Nobody}
      /\ claimed' \in [Item -> Process \cup {Nobody}]
      /\ server' \in [Process -> ServerType]
      /\ \A q \in Process : Len(server'[q].mail) <= MailCap
      /\ known' \in [Process -> Nat]
  BY <1>1, EndedEffect DEF TypeOK
<1> QED
  BY <1>2 DEF TypeOK, ServerType

(* A transaction that begins has its type.                                 *)
LEMMA BegunType ==
  ASSUME TypeOK, NEW p \in Process, NEW r \in Request
  PROVE  Begun(p, r) \in Transaction
<1>1. known[p] \in Nat
  BY DEF TypeOK
<1>2. CASE r.op \in ItemOp
  <2>1. r.op \in ItemOp /\ r.item \in Item
    BY <1>2 DEF Request, ItemOp
  <2> QED
    BY <1>1, <2>1 DEF Begun, Transaction, Row, ItemOp
<1>3. CASE r.op \notin ItemOp
  <2>1. r.op \in {"claim", "renew", "release", "shutdown"} /\ r.generation \in Nat
    BY <1>3 DEF Request
  <2> QED
    BY <1>3, <2>1 DEF Begun, Transaction, Row, ItemOp
<1> QED
  BY <1>2, <1>3

(* Only the transaction of p moves on.                                     *)
LEMMA TxMoves ==
  ASSUME TypeOK, NEW p \in Process, NEW t \in Transaction,
         tx' = [tx EXCEPT ![p] = t],
         locked' \in Process \cup {Nobody},
         claimed' \in [Item -> Process \cup {Nobody}],
         UNCHANGED <<clock, row, items, server, queue, known, wrote>>
  PROVE  TypeOK'
  BY DEF TypeOK

(* The begin of a transaction keeps TypeOK.                                *)
LEMMA BeginType == ASSUME TypeOK, NEW p \in Process, Begin(p) PROVE TypeOK'
<1> DEFINE r == Head(queue[p])
           rest == IF r.op = "shutdown" THEN <<>> ELSE Tail(queue[p])
<1>1. queue[p] \in Seq(Request) /\ queue[p] # <<>> /\ Len(queue[p]) <= QueueCap
  BY DEF Begin, TypeOK
<1>2. r \in Request /\ Begun(p, r) \in Transaction
  BY <1>1, BegunType
<1>3. rest \in Seq(Request) /\ Len(rest) <= QueueCap
  <2>1. Tail(queue[p]) \in Seq(Request) /\ Len(Tail(queue[p])) <= QueueCap
    BY <1>1, Numbers
  <2>2. <<>> \in Seq(Request) /\ Len(<<>>) <= QueueCap
    BY Numbers
  <2> QED
    BY <2>1, <2>2
<1>4. /\ queue' = [queue EXCEPT ![p] = rest]
      /\ tx' = [tx EXCEPT ![p] = Begun(p, r)]
      /\ UNCHANGED <<clock, row, items, locked, claimed, server, known, wrote>>
  BY DEF Begin
<1>5. /\ queue' \in [Process -> Seq(Request)]
      /\ \A q \in Process : Len(queue'[q]) <= QueueCap
  <2> HIDE DEF rest
  <2> QED
    BY <1>3, <1>4 DEF TypeOK
<1>6. tx' \in [Process -> Transaction \cup {None}]
  BY <1>2, <1>4 DEF TypeOK
<1> QED
  BY <1>4, <1>5, <1>6 DEF TypeOK

(* Whoever gets a lock keeps TypeOK.                                       *)
LEMMA WaitType ==
  ASSUME TypeOK, Locks, NEW p \in Process,
         LockChannel(p) \/ RowsLocked(p) \/ \E i \in Item : LockRow(p, i)
  PROVE  TypeOK'
<1> DEFINE t == tx[p]
<1>0. tx[p] # None
  BY DEF LockChannel, RowsLocked, LockRow, Running
<1>t. t \in Transaction /\ \A st \in {"rows", "commit", "channel"} :
                             [t EXCEPT !.stage = st] \in Transaction
  BY <1>0, TxIs DEF Transaction
<1>n. FromRequest(clock) \in Int /\ row.generation + 1 \in Nat /\ clock - 1 \in Int
  BY Numbers DEF FromRequest
<1>1. ASSUME NEW i \in Item, LockRow(p, i) PROVE TypeOK'
  BY <1>1 DEF LockRow, TypeOK
<1>2. CASE RowsLocked(p)
  <2>1. CASE Rejected(p)
    BY <1>0, <1>2, <2>1, RejectedType DEF RowsLocked
  <2>2. CASE /\ Goes(p, IF t.op = "retire" THEN "channel" ELSE "commit")
             /\ UNCHANGED <<locked, claimed, server, known>>
    <3> DEFINE st == IF t.op = "retire" THEN "channel" ELSE "commit"
    <3>1. tx' = [tx EXCEPT ![p] = [t EXCEPT !.stage = st]]
      BY <2>2 DEF Goes
    <3>2. [t EXCEPT !.stage = st] \in Transaction
      BY <1>t
    <3>3. locked \in Process \cup {Nobody} /\ claimed \in [Item -> Process \cup {Nobody}]
      BY DEF TypeOK
    <3> HIDE DEF t, st
    <3> QED
      BY <1>2, <2>2, <3>1, <3>2, <3>3, TxMoves DEF RowsLocked
  <2> QED
    BY <1>2, <2>1, <2>2 DEF RowsLocked
<1>3. CASE LockChannel(p)
  <2>1. CASE Rejected(p)
    BY <1>0, <1>3, <2>1, RejectedType DEF LockChannel
  <2>2. ASSUME NEW n \in Transaction, tx' = [tx EXCEPT ![p] = n], Holds(p)
        PROVE  TypeOK'
    <3>1. locked' \in Process \cup {Nobody} /\ claimed' \in [Item -> Process \cup {Nobody}]
      BY <2>2 DEF TypeOK, Holds
    <3>2. UNCHANGED <<clock, row, items, server, queue, known, wrote>>
      BY <1>3, <2>2 DEF LockChannel, Holds
    <3> QED
      BY <2>2, <3>1, <3>2, TxMoves
  <2>3. CASE Claims(p) /\ ~Rejected(p)
    <3> DEFINE next == row.generation + 1
               r == [generation |-> next, expires |-> FromRequest(clock)]
               n == [t EXCEPT !.stage = "rows", !.takes = Leftover(next), !.sets = r]
    <3>1. r \in Row /\ Leftover(next) \in SUBSET Item
      BY <1>n DEF Row, Leftover
    <3>2. n \in Transaction
      <4> HIDE DEF r, next
      <4> QED
        BY <1>t, <3>1 DEF Transaction
    <3>3. tx' = [tx EXCEPT ![p] = n] /\ Holds(p)
      BY <2>3 DEF Claims
    <3> HIDE DEF n
    <3> QED
      BY <2>2, <3>2, <3>3
  <2>4. CASE t.op # "claim" /\ Continues(p) /\ Holds(p)
    <3>1. Left(p) \in Row
      BY <1>n, Numbers DEF Left, Row, TypeOK
    <3>2. CASE t.op \in {"renew", "release", "shutdown"}
      <4>1. tx' = [tx EXCEPT ![p] = [t EXCEPT !.stage = "commit", !.sets = Left(p)]]
        BY <2>4, <3>2 DEF Continues
      <4>2. [t EXCEPT !.stage = "commit", !.sets = Left(p)] \in Transaction
        BY <1>t, <3>1 DEF Transaction
      <4> HIDE DEF t
      <4> QED
        BY <2>2, <2>4, <4>1, <4>2
    <3>3. CASE t.op \in {"drop", "retire"}
      <4>1. \E st \in {"rows", "commit"} : tx' = [tx EXCEPT ![p] = [t EXCEPT !.stage = st]]
        BY <2>4, <3>3 DEF Continues, Goes
      <4> HIDE DEF t
      <4> QED
        BY <1>t, <2>2, <2>4, <4>1
    <3>4. t.op # "pickup"
      BY <1>3 DEF LockChannel, Waits, Locks, LocksOf
    <3> QED
      BY <1>t, <2>4, <3>2, <3>3, <3>4 DEF Transaction, ItemOp
  <2> QED
    BY <1>3, <2>1, <2>3, <2>4 DEF LockChannel
<1> QED
  BY <1>1, <1>2, <1>3

(* A commit keeps TypeOK.                                                  *)
LEMMA StoredType ==
  ASSUME TypeOK, NEW p \in Process, Waits(p, "commit"), Stored(p),
         NEW ok \in BOOLEAN, NEW g \in Nat, Ended(p, ok, g)
  PROVE  TypeOK'
<1> DEFINE t == tx[p]
<1>0. tx[p] # None
  BY DEF Waits
<1>1. t \in Transaction /\ t.sets \in Row /\ t.sets.generation \in Nat
  BY <1>0, TxIs DEF Transaction, Row
<1>2. row' \in Row
  BY <1>1 DEF Stored, TypeOK
<1>3. items' \in [Item -> [at : {"owned", "ground", "retired"}, stamp : Nat]]
  <2>1. To(t.op, t.sets.generation) \in [at : {"owned", "ground", "retired"}, stamp : Nat]
    BY <1>1 DEF To
  <2> HIDE DEF t
  <2>2. items' = [i \in Item |-> IF i \in t.takes THEN To(t.op, t.sets.generation)
                                 ELSE items[i]]
    BY DEF Stored, t
  <2> QED
    BY <2>1, <2>2 DEF TypeOK
<1>4. wrote' \in Seq(Nat)
  <2>1. wrote \in Seq(Nat) /\ Append(wrote, t.sets.generation) \in Seq(Nat)
    BY <1>1 DEF TypeOK
  <2> QED
    BY <2>1 DEF Stored, Written
<1>5. /\ tx' \in [Process -> Transaction \cup {None}]
      /\ locked' \in Process \cup {Nobody}
      /\ claimed' \in [Item -> Process \cup {Nobody}]
      /\ server' \in [Process -> ServerType]
      /\ \A q \in Process : Len(server'[q].mail) <= MailCap
      /\ known' \in [Process -> Nat]
  BY <1>0, EndedEffect DEF TypeOK
<1> QED
  BY <1>2, <1>3, <1>4, <1>5 DEF TypeOK, ServerType, Stored

(* A commit, with its answer or without.                                   *)
LEMMA CommitEnds ==
  ASSUME TypeOK, NEW p \in Process, Commit(p) \/ CommitLost(p)
  PROVE  /\ Waits(p, "commit") /\ Stored(p) /\ tx[p] # None
         /\ \E ok \in BOOLEAN, g \in Nat : Ended(p, ok, g)
         /\ \E ok \in BOOLEAN, g \in Nat :
              Ended(p, ok, g) /\ (tx[p].op \in ItemOp => ok)
<1>1. Waits(p, "commit") /\ Stored(p) /\ tx[p] # None
  BY DEF Commit, CommitLost, Waits
<1>2. tx[p].op \in {"claim", "renew", "release", "shutdown"} \cup ItemOp
  BY <1>1, TxIs DEF Transaction
<1>3. known[p] \in Nat /\ tx[p].sets.generation \in Nat
  BY <1>1, TxIs DEF Transaction, Row, TypeOK
<1>4. CASE Commit(p)
  <2> DEFINE g == CASE tx[p].op \in {"claim", "renew"} -> tx[p].sets.generation
                    [] tx[p].op \in {"release", "shutdown"} -> 0
                    [] tx[p].op \in ItemOp -> known[p]
  <2>1. g \in Nat
    BY <1>2, <1>3 DEF ItemOp
  <2>2. Ended(p, TRUE, g)
    BY <1>4 DEF Commit
  <2> HIDE DEF g
  <2> QED
    BY <1>1, <2>1, <2>2
<1>5. CASE CommitLost(p)
  BY <1>1, <1>3, <1>5 DEF CommitLost
<1> QED
  BY <1>4, <1>5

(* Every step keeps TypeOK; a lock that is held is what a claim needs.     *)
LEMMA TypeStep ==
  ASSUME TypeOK, Locks, [Next]_vars
  PROVE  TypeOK'
<1>1. CASE UNCHANGED vars
  BY <1>1 DEF vars, TypeOK
<1>2. CASE Tick
  <2>1. clock' \in Nat
    BY <1>2, Numbers DEF Tick
  <2> QED
    BY <1>2, <2>1 DEF Tick, TypeOK, database
<1>3. ASSUME NEW p \in Process, Abort(p) PROVE TypeOK'
  BY <1>3, RejectedType DEF Abort
<1>4. ASSUME NEW p \in Process, Commit(p) \/ CommitLost(p) PROVE TypeOK'
  BY <1>4, CommitEnds, StoredType
<1> QED
  BY <1>1, <1>2, <1>3, <1>4, ServerActionType, CrashType, BeginType, WaitType
  DEF Next
-----------------------------------------------------------------------------
(***************************************************************************)
(* The main task, the supervisor and the owner of a process: the rows and  *)
(* the transactions stay.                                                  *)
(***************************************************************************)
Rest == /\ Locks /\ Times /\ Judged /\ Phases /\ Renews /\ OneRequest
        /\ Deadlines /\ Issued /\ OneUser /\ Grounds

(* A step of one process that names, uses and touches nothing new.         *)
LEMMA LocalStep ==
  ASSUME ChannelInv, NEW p \in Process,
         UNCHANGED <<clock, row, items, locked, claimed, tx>>,
         \A q \in Process \ {p} : server'[q] = server[q] /\ queue'[q] = queue[q],
         server'[p].sent <= clock,
         HoldsChannel(p) /\ tx[p].op = "claim" /\ server'[p].state = "claiming"
           => server[p].state = "claiming" /\ server'[p].sent = server[p].sent,
         HoldsChannel(p) /\ tx[p].op = "renew" /\ server'[p].renewal = "sent"
           => server[p].renewal = "sent" /\ server'[p].sent = server[p].sent,
         PhaseOf(p)', RenewsOf(p)', OneRequestOf(p)', DeadlinesOf(p)',
         \A g \in Nat : Uses(p, g)' => Uses(p, g),
         \A g \in Nat : Names(p, g)' => Names(p, g),
         \A i \in Item : Touches(p, i)' => Touches(p, i),
         server'[p].state = "serving" /\ server'[p].generation = row.generation =>
           \A i \in server'[p].shown : items[i].at = "ground"
  PROVE  Rest'
<1> USE DEF ChannelInv
<1>1. Locks'
  BY DEF Locks, LocksOf, HoldsChannel, HoldsRows
<1>2. Times'
  BY DEF Times
<1>3. Judged'
  <2> SUFFICES ASSUME NEW q \in Process PROVE JudgedOf(q)' /\ FoundOf(q)'
    BY DEF Judged
  <2>1. JudgedOf(q) /\ FoundOf(q)
    BY DEF Judged
  <2>2. FoundOf(q)'
    BY <2>1 DEF FoundOf, HoldsRows
  <2>3. CASE q # p
    BY <2>1, <2>2, <2>3 DEF JudgedOf, HoldsChannel
  <2>4. CASE q = p
    BY <2>1, <2>2, <2>4 DEF JudgedOf, HoldsChannel
  <2> QED
    BY <2>3, <2>4
<1>4. ASSUME NEW q \in Process \ {p}
      PROVE  /\ PhaseOf(q)' <=> PhaseOf(q)
             /\ RenewsOf(q)' <=> RenewsOf(q)
             /\ OneRequestOf(q)' <=> OneRequestOf(q)
             /\ DeadlinesOf(q)' <=> DeadlinesOf(q)
             /\ \A g \in Nat : Uses(q, g)' <=> Uses(q, g)
             /\ \A g \in Nat : Names(q, g)' <=> Names(q, g)
             /\ \A i \in Item : Touches(q, i)' <=> Touches(q, i)
  BY DEF PhaseOf, RenewsOf, OneRequestOf, DeadlinesOf, Backed, Uses, Names,
         Touches, Wants, Changes
<1>5. Phases' /\ Renews' /\ OneRequest' /\ Deadlines'
  BY <1>4 DEF Phases, Renews, OneRequest, Deadlines
<1>6. Issued' /\ OneUser'
  BY <1>4 DEF Issued, OneUser
<1>7. Grounds'
  <2>1. \A q \in Process, i \in Item : Touches(q, i)' => Touches(q, i)
    BY <1>4
  <2>2. \A q \in Process \ {p} :
          server'[q].state = "serving" /\ server'[q].generation = row'.generation =>
            \A i \in server'[q].shown : items'[i].at = "ground"
    BY DEF Grounds
  <2> QED
    BY <2>1, <2>2 DEF Grounds
<1> QED
  BY <1>1, <1>2, <1>3, <1>5, <1>6, <1>7 DEF Rest

(* What a waiting request can ask for.                                     *)
LEMMA RequestOps ==
  ASSUME TypeOK, NEW p \in Process, NEW j \in DOMAIN queue[p]
  PROVE  /\ queue[p][j] \in Request
         /\ queue[p][j].op \in {"claim", "renew", "release", "shutdown"} \cup ItemOp
<1>1. queue[p] \in Seq(Request)
  BY DEF TypeOK
<1>2. queue[p][j] \in Request
  BY <1>1
<1> QED
  BY <1>2 DEF Request

(* What a transaction can be about.                                        *)
LEMMA TxOps ==
  ASSUME TypeOK, NEW p \in Process
  PROVE  /\ tx[p] = None => tx[p].op = "none"
         /\ tx[p] # None =>
              tx[p].op \in {"claim", "renew", "release", "shutdown"} \cup ItemOp
  BY TxIs DEF None, Transaction

(* In these states nothing is asked for.                                   *)
LEMMA Idle ==
  ASSUME ChannelInv, NEW p \in Process,
         server[p].state \in {"off", "claimed", "refused"}
  PROVE  /\ queue[p] = <<>> /\ Len(queue[p]) = 0 /\ DOMAIN queue[p] = {}
         /\ server[p].state # "off" => tx[p] = None
<1> USE DEF ChannelInv
<1>1. PhaseOf(p)
  BY DEF Phases
<1>2. DOMAIN queue[p] = {}
  <2> SUFFICES ASSUME NEW j \in DOMAIN queue[p] PROVE FALSE
    OBVIOUS
  <2>1. queue[p][j].op \in {"claim", "renew", "release", "shutdown"} \cup ItemOp
    BY RequestOps
  <2>2. server[p].state \in Asks(queue[p][j].op)
    BY <1>1 DEF PhaseOf
  <2> QED
    BY <2>1, <2>2 DEF Asks, ItemOp
<1>3. queue[p] = <<>>
  <2>1. queue[p] \in Seq(Request)
    BY DEF TypeOK
  <2>2. Len(queue[p]) \in Nat /\ DOMAIN queue[p] = 1 .. Len(queue[p])
    BY <2>1
  <2>3. Len(queue[p]) = 0
    <3>1. Len(queue[p]) # 0 => 1 \in 1 .. Len(queue[p])
      BY <2>2
    <3> QED
      BY <1>2, <2>2, <3>1
  <2> QED
    BY <2>1, <2>3
<1>4. server[p].state # "off" => tx[p] = None
  <2> SUFFICES ASSUME server[p].state # "off", tx[p] # None PROVE FALSE
    OBVIOUS
  <2>1. server[p].state \in Asks(tx[p].op)
    BY <1>1 DEF PhaseOf
  <2> QED
    BY <2>1, TxOps DEF Asks, ItemOp
<1> QED
  BY <1>2, <1>3, <1>4

(* A request goes behind those that wait.                                  *)
LEMMA AskEffect ==
  ASSUME TypeOK, NEW p \in Process, NEW r \in Request, Ask(p, r)
  PROVE  /\ \A q \in Process \ {p} : queue'[q] = queue[q]
         /\ queue'[p] = Append(queue[p], r)
         /\ Len(queue'[p]) = Len(queue[p]) + 1
         /\ DOMAIN queue'[p] = DOMAIN queue[p] \cup {Len(queue[p]) + 1}
         /\ \A j \in DOMAIN queue'[p] :
              \/ j \in DOMAIN queue[p] /\ queue'[p][j] = queue[p][j]
              \/ j = Len(queue[p]) + 1 /\ j \notin DOMAIN queue[p] /\ queue'[p][j] = r
<1>1. queue[p] \in Seq(Request) /\ Len(queue[p]) \in Nat
  BY DEF TypeOK
<1>2. /\ queue'[p] = Append(queue[p], r)
      /\ \A q \in Process \ {p} : queue'[q] = queue[q]
  BY AskType
<1>3. /\ Len(Append(queue[p], r)) = Len(queue[p]) + 1
      /\ DOMAIN Append(queue[p], r) = 1 .. Len(queue[p]) + 1
      /\ DOMAIN queue[p] = 1 .. Len(queue[p])
      /\ \A j \in 1 .. Len(queue[p]) : Append(queue[p], r)[j] = queue[p][j]
      /\ Append(queue[p], r)[Len(queue[p]) + 1] = r
  BY <1>1
<1> QED
  BY <1>1, <1>2, <1>3

(* Only the record of one process changes.                                 *)
LEMMA SetEffect ==
  ASSUME TypeOK, NEW p \in Process, NEW s, Set(p, s)
  PROVE  /\ server'[p] = s
         /\ \A q \in Process \ {p} : server'[q] = server[q]
  BY DEF Set, TypeOK

(* A process starts, and asks for the channel.                             *)
LEMMA StartStep == ASSUME ChannelInv, NEW p \in Process, Start(p) PROVE Rest'
<1> USE DEF ChannelInv
<1> DEFINE r == [op |-> "claim", generation |-> 0]
<1>1. /\ server'[p] = [Off EXCEPT !.state = "claiming", !.sent = clock]
      /\ \A q \in Process \ {p} : server'[q] = server[q]
  BY SetEffect DEF Start
<1>2. Len(queue[p]) = 0 /\ DOMAIN queue[p] = {} /\ tx[p] = None
  BY Idle DEF Start
<1>3. r \in Request /\ Ask(p, r)
  BY DEF Start, Request
<1>4. /\ \A q \in Process \ {p} : queue'[q] = queue[q]
      /\ Len(queue'[p]) = 1
      /\ \A j \in DOMAIN queue'[p] : j = 1 /\ queue'[p][j] = r
  <2> HIDE DEF r
  <2>1. /\ \A q \in Process \ {p} : queue'[q] = queue[q]
        /\ Len(queue'[p]) = 0 + 1
        /\ \A j \in DOMAIN queue'[p] :
             \/ j \in DOMAIN queue[p]
             \/ j = 0 + 1 /\ queue'[p][j] = r
    BY <1>2, <1>3, AskEffect
  <2> QED
    BY <1>2, <2>1
<1>5. UNCHANGED <<clock, row, items, locked, claimed, tx>>
  BY DEF Start, database
<1>6. PhaseOf(p)'
  BY <1>1, <1>2, <1>4, <1>5 DEF PhaseOf, Off, Asks, Bare
<1>7. RenewsOf(p)' /\ OneRequestOf(p)' /\ DeadlinesOf(p)'
  <2>1. tx'[p].op = "none"
    BY <1>2, <1>5 DEF None
  <2> QED
    BY <1>1, <1>4, <2>1 DEF RenewsOf, OneRequestOf, DeadlinesOf, Off, Wants, Changes, ItemOp
<1>8. /\ \A g \in Nat : Uses(p, g)' => Uses(p, g)
      /\ \A g \in Nat : Names(p, g)' => Names(p, g)
      /\ \A i \in Item : Touches(p, i)' => Touches(p, i)
  BY <1>1, <1>4, <1>5 DEF Uses, Names, Touches, Off, Wants, Changes, ItemOp
<1>9. server'[p].sent <= clock /\ server'[p].state = "claiming" /\ ~HoldsChannel(p)
  BY <1>1, <1>2, Numbers DEF Off, HoldsChannel
<1> QED
  BY <1>1, <1>4, <1>5, <1>6, <1>7, <1>8, <1>9, LocalStep

(* A process serves, or gives the generation back.                         *)
LEMMA ClaimAnsweredStep ==
  ASSUME ChannelInv, NEW p \in Process, ClaimAnswered(p)
  PROVE  Rest'
<1> USE DEF ChannelInv
<1> DEFINE s == server[p]
           r == [op |-> "release", generation |-> s.generation]
<1>0. s \in ServerType /\ s.state = "claimed" /\ clock \in Nat
  BY ServerIs, Numbers DEF ClaimAnswered
<1>1. /\ Len(queue[p]) = 0 /\ DOMAIN queue[p] = {}
      /\ tx[p] = None /\ tx[p].op = "none" /\ ~HoldsChannel(p)
  BY <1>0, Idle DEF None, HoldsChannel
<1>2. UNCHANGED <<clock, row, items, locked, claimed, tx>>
  BY DEF ClaimAnswered, database
<1>3. /\ s.shown = {} /\ s.asked = {} /\ s.mail = <<>> /\ s.renewal = "off"
      /\ s.sent <= clock
      /\ Backed(s.generation, FromRequest(s.sent))
  BY <1>0 DEF Phases, PhaseOf, Bare, Times, Deadlines, DeadlinesOf
<1>4. CASE /\ Set(p, [s EXCEPT !.state = "serving", !.deadline = FromRequest(s.sent),
                       !.extended = FromRequest(s.sent), !.renewal = "waiting"])
           /\ UNCHANGED queue
  <2>1. /\ server'[p].state = "serving"
        /\ server'[p].deadline = FromRequest(s.sent) /\ server'[p].renewal = "waiting"
        /\ server'[p].generation = s.generation /\ server'[p].sent = s.sent
        /\ server'[p].mail = <<>> /\ server'[p].shown = {} /\ server'[p].asked = {}
        /\ \A q \in Process \ {p} : server'[q] = server[q]
    <3>1. /\ server'[p] = [s EXCEPT !.state = "serving",
                !.deadline = FromRequest(s.sent), !.extended = FromRequest(s.sent),
                !.renewal = "waiting"]
          /\ \A q \in Process \ {p} : server'[q] = server[q]
      BY <1>4, SetEffect
    <3> QED
      BY <1>0, <1>3, <3>1 DEF ServerType
  <2>2. queue' = queue /\ DOMAIN queue[p] = {}
    BY <1>1, <1>4
  <2>3. PhaseOf(p)' /\ RenewsOf(p)' /\ OneRequestOf(p)'
    BY <1>1, <1>2, <2>1, <2>2 DEF PhaseOf, RenewsOf, OneRequestOf, Bare, Changes, ItemOp
  <2>4. DeadlinesOf(p)'
    BY <1>2, <1>3, <2>1 DEF DeadlinesOf, Backed
  <2>5. /\ \A g \in Nat : Uses(p, g)' => Uses(p, g)
        /\ \A g \in Nat : Names(p, g)' => Names(p, g)
        /\ \A i \in Item : Touches(p, i)' => Touches(p, i)
    BY <1>0, <1>1, <1>2, <2>1, <2>2 DEF Uses, Names, Touches, Changes, ItemOp
  <2> QED
    BY <1>1, <1>2, <1>3, <2>1, <2>2, <2>3, <2>4, <2>5, LocalStep
<1>5. CASE /\ Set(p, [s EXCEPT !.state = "giving", !.sent = 0])
           /\ Ask(p, r)
  <2>1. /\ server'[p].state = "giving" /\ server'[p].renewal = "off"
        /\ server'[p].generation = s.generation /\ server'[p].sent = 0
        /\ server'[p].mail = <<>> /\ server'[p].shown = {} /\ server'[p].asked = {}
        /\ \A q \in Process \ {p} : server'[q] = server[q]
    <3>1. /\ server'[p] = [s EXCEPT !.state = "giving", !.sent = 0]
          /\ \A q \in Process \ {p} : server'[q] = server[q]
      BY <1>5, SetEffect
    <3> QED
      BY <1>0, <1>3, <3>1 DEF ServerType
  <2>2. r \in Request
    BY <1>0 DEF Request, ServerType
  <2>3. /\ \A q \in Process \ {p} : queue'[q] = queue[q]
        /\ Len(queue'[p]) = 1
        /\ \A j \in DOMAIN queue'[p] : j = 1 /\ queue'[p][j] = r
    <3> HIDE DEF r
    <3>1. /\ \A q \in Process \ {p} : queue'[q] = queue[q]
          /\ Len(queue'[p]) = 0 + 1
          /\ \A j \in DOMAIN queue'[p] :
               \/ j \in DOMAIN queue[p]
               \/ j = 0 + 1 /\ queue'[p][j] = r
      BY <1>1, <1>5, <2>2, AskEffect
    <3> QED
      BY <1>1, <3>1
  <2>4. PhaseOf(p)' /\ RenewsOf(p)' /\ OneRequestOf(p)' /\ DeadlinesOf(p)'
    BY <1>1, <1>2, <2>1, <2>3
    DEF PhaseOf, RenewsOf, OneRequestOf, DeadlinesOf, Bare, Asks, Wants, Changes, ItemOp
  <2>5. /\ \A g \in Nat : Uses(p, g)' => Uses(p, g)
        /\ \A g \in Nat : Names(p, g)' => Names(p, g)
        /\ \A i \in Item : Touches(p, i)' => Touches(p, i)
    BY <1>0, <1>1, <1>2, <2>1, <2>3 DEF Uses, Names, Touches, Wants, Changes, ItemOp
  <2> QED
    BY <1>0, <1>1, <1>2, <2>1, <2>3, <2>4, <2>5, LocalStep
<1> QED
  BY <1>4, <1>5 DEF ClaimAnswered

(* A process that is off keeps nothing but the transaction it left.        *)
LEMMA OffStep ==
  ASSUME ChannelInv, NEW p \in Process, Set(p, Off),
         queue'[p] = <<>>, \A q \in Process \ {p} : queue'[q] = queue[q],
         UNCHANGED <<clock, row, items, locked, claimed, tx>>
  PROVE  Rest'
<1> USE DEF ChannelInv
<1>1. server'[p] = Off /\ \A q \in Process \ {p} : server'[q] = server[q]
  BY SetEffect
<1>2. PhaseOf(p)' /\ RenewsOf(p)' /\ OneRequestOf(p)' /\ DeadlinesOf(p)'
  BY <1>1 DEF PhaseOf, RenewsOf, OneRequestOf, DeadlinesOf, Bare, Off, Changes
<1>3. /\ \A g \in Nat : Uses(p, g)' => Uses(p, g)
      /\ \A g \in Nat : Names(p, g)' => Names(p, g)
      /\ \A i \in Item : Touches(p, i)' => Touches(p, i)
  BY <1>1 DEF Uses, Names, Touches, Off, Changes
<1>4. Off.sent <= clock /\ Off.state = "off" /\ Off.renewal = "off"
  BY Numbers DEF Off
<1> QED
  BY <1>1, <1>2, <1>3, <1>4, LocalStep

(* A process that was refused, or crashes, is off.                         *)
LEMMA StopsStep ==
  ASSUME ChannelInv, NEW p \in Process, ClaimRefused(p) \/ Crash(p)
  PROVE  Rest'
<1>1. CASE ClaimRefused(p)
  BY <1>1, OffStep, Idle DEF ClaimRefused, database
<1>2. CASE Crash(p)
  <2>1. queue'[p] = <<>> /\ \A q \in Process \ {p} : queue'[q] = queue[q]
    BY <1>2 DEF Crash, ChannelInv, TypeOK
  <2> QED
    BY <1>2, <2>1, OffStep DEF Crash
<1> QED
  BY <1>1, <1>2

(* What a process that serves has asked for.                               *)
LEMMA Serves ==
  ASSUME ChannelInv, NEW p \in Process, server[p].state = "serving"
  PROVE  /\ \A j \in DOMAIN queue[p] :
              /\ queue[p][j].op \in {"renew"} \cup ItemOp
              /\ queue[p][j].op = "renew" => queue[p][j].generation = server[p].generation
         /\ tx[p].op \in {"none", "renew"} \cup ItemOp
         /\ tx[p].op = "renew" => tx[p].sets.generation = server[p].generation
         /\ tx[p].op = "none" <=> tx[p] = None
<1> USE DEF ChannelInv
<1>1. PhaseOf(p)
  BY DEF Phases
<1>2. ASSUME NEW j \in DOMAIN queue[p]
      PROVE  /\ queue[p][j].op \in {"renew"} \cup ItemOp
             /\ queue[p][j].op = "renew" => queue[p][j].generation = server[p].generation
  BY <1>1, RequestOps DEF PhaseOf, Asks, ItemOp
<1>3. tx[p] # None => tx[p].op \in {"renew"} \cup ItemOp
  BY <1>1, TxOps DEF PhaseOf, Asks, ItemOp
<1> QED
  BY <1>1, <1>2, <1>3, TxOps DEF PhaseOf, ItemOp

(* A process asks for its shutdown.                                        *)
LEMMA ShutdownStep == ASSUME ChannelInv, NEW p \in Process, Shutdown(p) PROVE Rest'
<1> USE DEF ChannelInv
<1> DEFINE s == server[p]
           r == [op |-> "shutdown", generation |-> s.generation]
<1>0. s \in ServerType /\ s.state = "serving" /\ clock \in Nat
  BY ServerIs, Numbers DEF Shutdown
<1>1. /\ server'[p] = [Off EXCEPT !.state = "leaving", !.generation = s.generation]
      /\ \A q \in Process \ {p} : server'[q] = server[q]
  BY SetEffect DEF Shutdown
<1>2. /\ server'[p].state = "leaving" /\ server'[p].renewal = "off"
      /\ server'[p].generation = s.generation /\ server'[p].sent = 0
      /\ server'[p].mail = <<>> /\ server'[p].shown = {} /\ server'[p].asked = {}
  BY <1>1 DEF Off
<1>3. r \in Request /\ Ask(p, r)
  BY <1>0 DEF Shutdown, Request, ServerType
<1>4. /\ \A q \in Process \ {p} : queue'[q] = queue[q]
      /\ \A j \in DOMAIN queue'[p] :
           \/ j \in DOMAIN queue[p] /\ queue'[p][j] = queue[p][j]
           \/ j \notin DOMAIN queue[p] /\ queue'[p][j] = r
  <2> HIDE DEF r
  <2> QED
    BY <1>3, AskEffect
<1>5. UNCHANGED <<clock, row, items, locked, claimed, tx>>
  BY DEF Shutdown, database
<1>6. PhaseOf(p)'
  <2>1. \A j \in DOMAIN queue'[p] :
          /\ "leaving" \in Asks(queue'[p][j].op)
          /\ queue'[p][j].op \in {"renew", "release", "shutdown"} =>
               queue'[p][j].generation = s.generation
    BY <1>0, <1>4, Serves DEF Asks, ItemOp
  <2>2. /\ tx[p] # None => "leaving" \in Asks(tx[p].op)
        /\ tx[p].op \notin {"claim", "release", "shutdown"}
        /\ tx[p] # None /\ tx[p].op = "renew" => tx[p].sets.generation = s.generation
    BY <1>0, Serves DEF Asks, ItemOp
  <2> QED
    BY <1>2, <1>5, <2>1, <2>2 DEF PhaseOf, Bare
<1>7. \A j \in DOMAIN queue'[p], i \in Item :
        Wants(p, j, i)' => j \in DOMAIN queue[p] /\ Wants(p, j, i)
  BY <1>4 DEF Wants, ItemOp
<1>8. RenewsOf(p)' /\ OneRequestOf(p)' /\ DeadlinesOf(p)'
  <2>1. OneRequestOf(p)
    BY DEF OneRequest
  <2> QED
    BY <1>2, <1>5, <1>7, <2>1 DEF RenewsOf, OneRequestOf, DeadlinesOf, Changes
<1>9. /\ \A g \in Nat : Uses(p, g)' => Uses(p, g)
      /\ \A g \in Nat : Names(p, g)' => Names(p, g)
      /\ \A i \in Item : Touches(p, i)' => Touches(p, i)
  BY <1>0, <1>2, <1>4, <1>5, <1>7 DEF Uses, Names, Touches, Changes
<1>10. /\ server'[p].sent <= clock /\ server'[p].state \notin {"claiming", "serving"}
       /\ server'[p].renewal # "sent"
       /\ \A q \in Process \ {p} : server'[q] = server[q] /\ queue'[q] = queue[q]
  BY <1>0, <1>1, <1>2, <1>4
<1> QED
  BY <1>5, <1>6, <1>8, <1>9, <1>10, LocalStep

(* A process that serves changes what it holds, and asks for r at most.    *)
LEMMA ServingStep ==
  ASSUME ChannelInv, NEW p \in Process, NEW n \in ServerType, Set(p, n),
         server[p].state = "serving",
         n.state = "serving", n.generation = server[p].generation,
         n.shown = server[p].shown, n.sent <= clock,
         UNCHANGED <<clock, row, items, locked, claimed, tx>>,
         \A q \in Process \ {p} : queue'[q] = queue[q],
         \A j \in DOMAIN queue'[p] :
           \/ j \in DOMAIN queue[p] /\ queue'[p][j] = queue[p][j]
           \/ /\ queue'[p][j].op \in {"renew"} \cup ItemOp
              /\ queue'[p][j].op = "renew" =>
                   queue'[p][j].generation = server[p].generation
              /\ queue'[p][j].op \in {"pickup", "retire"} =>
                   queue'[p][j].item \in server[p].shown,
         n.renewal = "sent" /\ tx[p].op = "renew" =>
           server[p].renewal = "sent" /\ n.sent = server[p].sent,
         RenewsOf(p)', OneRequestOf(p)', DeadlinesOf(p)'
  PROVE  Rest'
<1> USE DEF ChannelInv
<1>1. server'[p] = n /\ \A q \in Process \ {p} : server'[q] = server[q]
  BY SetEffect
<1>2. PhaseOf(p)'
  <2>1. \A j \in DOMAIN queue'[p] :
          /\ "serving" \in Asks(queue'[p][j].op)
          /\ queue'[p][j].op \in {"renew", "release", "shutdown"} =>
               queue'[p][j].generation = server[p].generation
    BY Serves DEF Asks, ItemOp
  <2>2. /\ tx[p] # None => "serving" \in Asks(tx[p].op)
        /\ tx[p].op \notin {"claim", "release", "shutdown"}
        /\ tx[p].op = "renew" => tx[p].sets.generation = server[p].generation
    BY Serves DEF Asks, ItemOp
  <2> QED
    BY <1>1, <2>1, <2>2 DEF PhaseOf, Bare
<1>3. /\ \A g \in Nat : Uses(p, g)' => Uses(p, g)
      /\ \A g \in Nat : Names(p, g)' => Names(p, g)
      /\ \A i \in Item : Touches(p, i)' => Touches(p, i)
  BY <1>1 DEF Uses, Names, Touches, Changes, Wants
<1>4. n.generation = row.generation => \A i \in n.shown : items[i].at = "ground"
  BY DEF Grounds
<1> QED
  BY <1>1, <1>2, <1>3, <1>4, LocalStep

(* The supervisor asks for a renewal.                                      *)
LEMMA SendRenewStep ==
  ASSUME ChannelInv, NEW p \in Process, SendRenew(p)
  PROVE  Rest'
<1> USE DEF ChannelInv
<1> DEFINE s == server[p]
           n == [s EXCEPT !.renewal = "sent", !.sent = clock]
           r == [op |-> "renew", generation |-> s.generation]
<1>0. s \in ServerType /\ s.renewal = "waiting" /\ clock \in Nat
  BY ServerIs, Numbers DEF SendRenew
<1>1. s.state = "serving"
  BY <1>0 DEF Phases, PhaseOf
<1>2. /\ n \in ServerType /\ n.state = "serving" /\ n.generation = s.generation
      /\ n.shown = s.shown /\ n.asked = s.asked /\ n.sent = clock
      /\ n.renewal = "sent" /\ n.deadline = s.deadline /\ n.mail = s.mail
  BY <1>0, <1>1 DEF ServerType
<1>3. r \in Request /\ Ask(p, r) /\ r.op = "renew" /\ r.generation = s.generation
  BY <1>0 DEF SendRenew, Request, ServerType
<1>4. /\ \A q \in Process \ {p} : queue'[q] = queue[q]
      /\ \A j \in DOMAIN queue'[p] :
           \/ j \in DOMAIN queue[p] /\ queue'[p][j] = queue[p][j]
           \/ /\ j = Len(queue[p]) + 1 /\ j \notin DOMAIN queue[p]
              /\ queue'[p][j].op = "renew" /\ queue'[p][j].generation = s.generation
  <2> HIDE DEF r
  <2> QED
    BY <1>3, AskEffect
<1>5. UNCHANGED <<clock, row, items, locked, claimed, tx>> /\ Set(p, n)
  BY DEF SendRenew, database
<1>6. server'[p] = n
  BY <1>5, SetEffect
<1>7. /\ \A j \in DOMAIN queue[p] : queue[p][j].op # "renew"
      /\ tx[p].op # "renew"
  BY <1>0 DEF Renews, RenewsOf
<1> HIDE DEF n, r
<1>8. RenewsOf(p)'
  BY <1>2, <1>4, <1>5, <1>6, <1>7 DEF RenewsOf
<1>9. OneRequestOf(p)'
  <2>1. OneRequestOf(p)
    BY DEF OneRequest
  <2>2. \A j \in DOMAIN queue'[p], i \in Item :
          Wants(p, j, i)' => j \in DOMAIN queue[p] /\ Wants(p, j, i)
    BY <1>4 DEF Wants, ItemOp
  <2> QED
    BY <1>1, <1>2, <1>5, <1>6, <2>1, <2>2 DEF OneRequestOf, Changes
<1>10. DeadlinesOf(p)'
  BY <1>1, <1>2, <1>5, <1>6 DEF Deadlines, DeadlinesOf, Backed
<1> QED
  BY <1>0, <1>1, <1>2, <1>4, <1>5, <1>7, <1>8, <1>9, <1>10, ServingStep

(* The supervisor and the owner pass deadlines on.                         *)
LEMMA DeadlineStep ==
  ASSUME ChannelInv, NEW p \in Process, NEW n \in ServerType, Set(p, n),
         server[p].state = "serving",
         n.state = "serving", n.generation = server[p].generation,
         n.shown = server[p].shown, n.asked = server[p].asked, n.sent <= clock,
         n.renewal \in {"off", "waiting", server[p].renewal},
         n.renewal = "waiting" => server[p].renewal \in {"waiting", "ok", "err"},
         n.renewal \in {"sent", "ok"} => n.sent = server[p].sent,
         Backed(n.generation, n.deadline),
         \A j \in DOMAIN n.mail :
           n.mail[j].kind = "deadline" => Backed(n.generation, n.mail[j].at),
         UNCHANGED <<clock, row, items, locked, claimed, tx, queue>>
  PROVE  Rest'
<1> USE DEF ChannelInv
<1>1. server'[p] = n
  BY SetEffect
<1>2. RenewsOf(p)'
  BY <1>1 DEF Renews, RenewsOf
<1>3. OneRequestOf(p)'
  BY <1>1 DEF OneRequest, OneRequestOf, Wants, Changes
<1>4. DeadlinesOf(p)'
  BY <1>1 DEF Deadlines, DeadlinesOf, Backed
<1>5. n.renewal = "sent" => server[p].renewal = "sent"
  OBVIOUS
<1> QED
  BY <1>2, <1>3, <1>4, <1>5, ServingStep

(* What is in a queue that got one entry more.                             *)
LEMMA AppendEntries ==
  ASSUME NEW S, NEW s \in Seq(S), NEW e \in S
  PROVE  /\ Append(s, e) \in Seq(S)
         /\ \A j \in DOMAIN Append(s, e) :
              \/ Append(s, e)[j] = e
              \/ j \in DOMAIN s /\ Append(s, e)[j] = s[j]
<1>1. /\ Len(s) \in Nat /\ DOMAIN s = 1 .. Len(s)
      /\ DOMAIN Append(s, e) = 1 .. Len(s) + 1
      /\ \A j \in 1 .. Len(s) : Append(s, e)[j] = s[j]
      /\ Append(s, e)[Len(s) + 1] = e
  OBVIOUS
<1> QED
  BY <1>1

(* The supervisor extends the deadline, or reports that it has ended.      *)
LEMMA RenewalStep ==
  ASSUME ChannelInv, NEW p \in Process, RenewalExtends(p) \/ RenewalEnds(p)
  PROVE  Rest'
<1> USE DEF ChannelInv
<1> DEFINE s == server[p]
<1>0. /\ s \in ServerType /\ s.renewal # "off" /\ clock \in Nat
      /\ s.mail \in Seq(Mail)
  BY ServerIs, Numbers DEF RenewalExtends, RenewalEnds, ServerType
<1>1. s.state = "serving"
  BY <1>0 DEF Phases, PhaseOf
<1>2. /\ Backed(s.generation, s.deadline)
      /\ s.renewal = "ok" => Backed(s.generation, FromRequest(s.sent))
      /\ \A j \in DOMAIN s.mail :
           s.mail[j].kind = "deadline" => Backed(s.generation, s.mail[j].at)
      /\ s.sent <= clock
  BY <1>1 DEF Deadlines, DeadlinesOf, Times
<1>t. server'[p] \in ServerType
  <2>1. TypeOK'
    BY ServerActionType
  <2> QED
    BY <2>1 DEF TypeOK, ServerType
<1>3. CASE RenewalExtends(p)
  <2> DEFINE m == Noted(s.mail, Extended(p))
             n == [s EXCEPT !.renewal = "waiting", !.extended = Extended(p),
                            !.mail = Noted(@, Extended(p))]
  <2>1. Set(p, n) /\ s.renewal = "ok"
    BY <1>3 DEF RenewalExtends
  <2>2. n \in ServerType
    BY <1>t, <2>1, SetEffect
  <2>3. /\ n.state = "serving" /\ n.generation = s.generation /\ n.shown = s.shown
        /\ n.asked = s.asked /\ n.sent = s.sent /\ n.renewal = "waiting"
        /\ n.deadline = s.deadline /\ n.mail = m
    BY <1>0, <1>1 DEF ServerType
  <2>4. \A j \in DOMAIN m : m[j].kind = "deadline" => Backed(s.generation, m[j].at)
    <3> DEFINE e == [kind |-> "deadline", at |-> Extended(p)]
    <3>1. e.at = FromRequest(s.sent)
      BY DEF Extended
    <3>2. \A j \in DOMAIN Append(s.mail, e) :
            \/ Append(s.mail, e)[j] = e
            \/ j \in DOMAIN s.mail /\ Append(s.mail, e)[j] = s.mail[j]
      <4>1. e \in Mail
        BY <1>0, Numbers DEF Mail, Extended, FromRequest, ServerType
      <4> HIDE DEF e
      <4> QED
        BY <1>0, <4>1, AppendEntries
    <3>3. m = Append(s.mail, e) \/ m = s.mail
      BY DEF Noted
    <3> QED
      <4> HIDE DEF m, e
      <4> QED
        BY <1>2, <2>1, <3>1, <3>2, <3>3
  <2>5. UNCHANGED <<clock, row, items, locked, claimed, tx, queue>>
    BY <1>3 DEF RenewalExtends, database
  <2> HIDE DEF n, m
  <2> QED
    BY <1>1, <1>2, <2>1, <2>2, <2>3, <2>4, <2>5, DeadlineStep
<1>4. CASE RenewalEnds(p)
  <2> DEFINE e == [kind |-> "lose", at |-> 0]
             m == Append(s.mail, e)
             n == [s EXCEPT !.renewal = "off", !.sent = 0, !.extended = 0,
                            !.mail = Append(@, [kind |-> "lose", at |-> 0])]
  <2>1. Set(p, n)
    BY <1>4 DEF RenewalEnds
  <2>2. n \in ServerType
    BY <1>t, <2>1, SetEffect
  <2>3. /\ n.state = "serving" /\ n.generation = s.generation /\ n.shown = s.shown
        /\ n.asked = s.asked /\ n.sent = 0 /\ n.renewal = "off"
        /\ n.deadline = s.deadline /\ n.mail = m
    BY <1>0, <1>1 DEF ServerType
  <2>4. \A j \in DOMAIN m : m[j].kind = "deadline" => Backed(s.generation, m[j].at)
    <3>1. e.kind # "deadline"
      OBVIOUS
    <3>2. \A j \in DOMAIN m : m[j] = e \/ (j \in DOMAIN s.mail /\ m[j] = s.mail[j])
      <4>1. e \in Mail
        BY DEF Mail
      <4> HIDE DEF e
      <4> QED
        BY <1>0, <4>1, AppendEntries
    <3> QED
      <4> HIDE DEF m, e
      <4> QED
        BY <1>2, <3>1, <3>2
  <2>5. UNCHANGED <<clock, row, items, locked, claimed, tx, queue>>
    BY <1>4 DEF RenewalEnds, database
  <2> HIDE DEF n, m
  <2> QED
    BY <1>0, <1>1, <1>2, <2>1, <2>2, <2>3, <2>4, <2>5, DeadlineStep
<1> QED
  BY <1>3, <1>4

(* The owner takes the next message of the supervisor.                     *)
LEMMA DrainStep == ASSUME ChannelInv, NEW p \in Process, Drain(p) PROVE Rest'
<1> USE DEF ChannelInv
<1> DEFINE s == server[p]
           m == Head(s.mail)
           n == [s EXCEPT !.mail = Tail(@),
                   !.deadline = IF m.kind = "deadline" THEN m.at ELSE @,
                   !.lost = @ \/ m.kind = "lose"]
<1>0. /\ s \in ServerType /\ s.mail # <<>> /\ clock \in Nat /\ s.mail \in Seq(Mail)
  BY ServerIs, Numbers DEF Drain, ServerType
<1>1. s.state = "serving"
  BY <1>0 DEF Phases, PhaseOf
<1>2. /\ Backed(s.generation, s.deadline)
      /\ \A j \in DOMAIN s.mail :
           s.mail[j].kind = "deadline" => Backed(s.generation, s.mail[j].at)
      /\ s.sent <= clock
  BY <1>1 DEF Deadlines, DeadlinesOf, Times
<1>t. server'[p] \in ServerType
  <2>1. TypeOK'
    BY ServerActionType
  <2> QED
    BY <2>1 DEF TypeOK, ServerType
<1>3. Set(p, n)
  BY DEF Drain
<1>4. n \in ServerType
  BY <1>3, <1>t, SetEffect
<1>5. /\ n.state = "serving" /\ n.generation = s.generation /\ n.shown = s.shown
      /\ n.asked = s.asked /\ n.sent = s.sent /\ n.renewal = s.renewal
      /\ n.deadline = (IF m.kind = "deadline" THEN m.at ELSE s.deadline)
      /\ n.mail = Tail(s.mail)
  BY <1>0, <1>1 DEF ServerType
<1>6. 1 \in DOMAIN s.mail /\ m = s.mail[1]
  BY <1>0
<1>7. Backed(n.generation, n.deadline)
  <2> HIDE DEF n, m
  <2> QED
    BY <1>2, <1>5, <1>6
<1>8. \A j \in DOMAIN Tail(s.mail) : j + 1 \in DOMAIN s.mail /\ Tail(s.mail)[j] = s.mail[j + 1]
  BY <1>0
<1>9. \A j \in DOMAIN n.mail : n.mail[j].kind = "deadline" => Backed(n.generation, n.mail[j].at)
  <2> HIDE DEF n, m
  <2> QED
    BY <1>2, <1>5, <1>8
<1>10. UNCHANGED <<clock, row, items, locked, claimed, tx, queue>>
  BY DEF Drain, database
<1>11. n.renewal = "waiting" => s.renewal \in {"waiting", "ok", "err"}
  BY <1>5
<1> HIDE DEF n
<1> QED
  BY <1>1, <1>2, <1>3, <1>4, <1>5, <1>7, <1>9, <1>10, <1>11, DeadlineStep

(* The owner asks for an item that no command of its own is about.         *)
LEMMA AskItemStep ==
  ASSUME ChannelInv, NEW p \in Process, NEW op \in ItemOp, NEW i \in Item,
         AskItem(p, op, i)
  PROVE  Rest'
<1> USE DEF ChannelInv
<1> DEFINE s == server[p]
           n == [s EXCEPT !.asked = @ \cup {i}]
           r == [op |-> op, item |-> i]
<1>0. /\ s \in ServerType /\ s.state = "serving" /\ i \notin s.asked
      /\ op # "drop" => i \in s.shown
      /\ s.sent <= clock
  BY ServerIs DEF AskItem, Acts, Times
<1>1. /\ n \in ServerType /\ n.state = "serving" /\ n.generation = s.generation
      /\ n.shown = s.shown /\ n.asked = s.asked \cup {i} /\ n.sent = s.sent
      /\ n.renewal = s.renewal /\ n.deadline = s.deadline /\ n.mail = s.mail
  BY <1>0 DEF ServerType
<1>2. r \in Request /\ Ask(p, r) /\ r.op = op /\ r.item = i
  BY DEF AskItem, Request
<1>3. /\ \A q \in Process \ {p} : queue'[q] = queue[q]
      /\ \A j \in DOMAIN queue'[p] :
           \/ j \in DOMAIN queue[p] /\ queue'[p][j] = queue[p][j]
           \/ /\ j = Len(queue[p]) + 1 /\ j \notin DOMAIN queue[p]
              /\ queue'[p][j].op = op /\ queue'[p][j].item = i
  <2> HIDE DEF r
  <2> QED
    BY <1>2, AskEffect
<1>4. UNCHANGED <<clock, row, items, locked, claimed, tx>> /\ Set(p, n)
  BY DEF AskItem, database
<1>5. server'[p] = n
  BY <1>4, SetEffect
<1> HIDE DEF n, r
<1>6. RenewsOf(p)'
  <2>1. RenewsOf(p)
    BY DEF Renews
  <2>2. \A j \in DOMAIN queue'[p] :
          queue'[p][j].op = "renew" => j \in DOMAIN queue[p] /\ queue[p][j].op = "renew"
    BY <1>3 DEF ItemOp
  <2> QED
    BY <1>1, <1>4, <1>5, <2>1, <2>2 DEF RenewsOf
<1>7. OneRequestOf(p)'
  <2>1. /\ OneRequestOf(p)
        /\ \A j \in DOMAIN queue[p] : ~Wants(p, j, i)
        /\ ~Changes(p, i)
    BY <1>0 DEF OneRequest, OneRequestOf
  <2>2. \A j \in DOMAIN queue'[p], k \in Item :
          Wants(p, j, k)' =>
            \/ j \in DOMAIN queue[p] /\ Wants(p, j, k)
            \/ j = Len(queue[p]) + 1 /\ k = i
    BY <1>3 DEF Wants
  <2>3. \A k \in Item : Changes(p, k)' <=> Changes(p, k)
    BY <1>4 DEF Changes
  <2> QED
    BY <1>0, <1>1, <1>5, <2>1, <2>2, <2>3 DEF OneRequestOf
<1>8. DeadlinesOf(p)'
  BY <1>0, <1>1, <1>4, <1>5 DEF Deadlines, DeadlinesOf, Backed
<1>9. \A j \in DOMAIN queue'[p] :
        \/ j \in DOMAIN queue[p] /\ queue'[p][j] = queue[p][j]
        \/ /\ queue'[p][j].op \in ItemOp
           /\ queue'[p][j].op \in {"pickup", "retire"} => queue'[p][j].item \in s.shown
  BY <1>0, <1>3
<1> QED
  BY <1>0, <1>1, <1>3, <1>4, <1>6, <1>7, <1>8, <1>9, ServingStep DEF ItemOp

(* Time passes: what the row does not back any more is over.               *)
LEMMA TickStep == ASSUME ChannelInv, Tick PROVE Rest'
<1> USE DEF ChannelInv
<1>1. /\ clock' = clock + 1 /\ clock \in Nat
      /\ UNCHANGED <<server, queue, row, items, locked, claimed, known, tx, wrote>>
  BY Numbers DEF Tick, database
<1>2. row.expires \in Int /\ Expiry \in Nat /\ \A p \in Process : server[p].sent \in Nat
  BY Numbers, ServerIs DEF ServerType
<1>3. Times'
  BY <1>1, <1>2 DEF Times
<1>4. Judged'
  <2> SUFFICES ASSUME NEW p \in Process PROVE JudgedOf(p)' /\ FoundOf(p)'
    BY DEF Judged
  <2>1. JudgedOf(p) /\ FoundOf(p)
    BY DEF Judged
  <2>2. HoldsChannel(p) => tx[p].sets.expires \in Int
    BY TxIs DEF HoldsChannel, Transaction, Row
  <2>3. FoundOf(p)'
    BY <1>1, <2>1 DEF FoundOf, HoldsRows
  <2>4. JudgedOf(p)'
    BY <1>1, <1>2, <2>1, <2>2 DEF JudgedOf, HoldsChannel
  <2> QED
    BY <2>3, <2>4
<1>5. Deadlines'
  <2>1. \A g \in Nat, d \in Int : Backed(g, d) => Backed(g, d)'
    BY <1>1 DEF Backed
  <2> SUFFICES ASSUME NEW p \in Process PROVE DeadlinesOf(p)'
    BY DEF Deadlines
  <2>2. DeadlinesOf(p)
    BY DEF Deadlines
  <2>3. /\ server[p].generation \in Nat /\ server[p].deadline \in Int
        /\ FromRequest(server[p].sent) \in Int
        /\ \A j \in DOMAIN server[p].mail : server[p].mail[j].at \in Int
    <3>1. server[p].mail \in Seq(Mail)
      BY ServerIs DEF ServerType
    <3>2. \A j \in DOMAIN server[p].mail : server[p].mail[j] \in Mail
      BY <3>1
    <3> QED
      BY <1>2, <3>2, ServerIs DEF ServerType, FromRequest, Mail
  <2> QED
    BY <1>1, <2>1, <2>2, <2>3 DEF DeadlinesOf, FromRequest
<1>6. /\ Locks' /\ Phases' /\ Renews' /\ OneRequest' /\ Issued' /\ OneUser' /\ Grounds'
  BY <1>1
  DEF Locks, LocksOf, HoldsChannel, HoldsRows, Phases, PhaseOf, Renews, RenewsOf,
      OneRequest, OneRequestOf, Wants, Changes, Issued, OneUser, Uses, Names,
      Grounds, Touches
<1> QED
  BY <1>3, <1>4, <1>5, <1>6 DEF Rest

-----------------------------------------------------------------------------
(***************************************************************************)
(* The worker.                                                             *)
(***************************************************************************)

(* A transaction that goes on writes nothing and answers nobody.           *)
LEMMA WorkStep ==
  ASSUME ChannelInv, NEW p \in Process,
         UNCHANGED <<clock, row, items, server>>,
         \A q \in Process \ {p} : tx'[q] = tx[q] /\ queue'[q] = queue[q],
         Locks', JudgedOf(p)', FoundOf(p)',
         PhaseOf(p)', RenewsOf(p)', OneRequestOf(p)',
         \A g \in Nat : Names(p, g)' => Names(p, g),
         \A i \in Item : Touches(p, i)' => Touches(p, i)
  PROVE  Rest'
<1> USE DEF ChannelInv
<1>1. Times'
  BY DEF Times
<1>2. ASSUME NEW q \in Process \ {p}
      PROVE  /\ JudgedOf(q)' /\ FoundOf(q)'
             /\ PhaseOf(q)' <=> PhaseOf(q)
             /\ RenewsOf(q)' <=> RenewsOf(q)
             /\ OneRequestOf(q)' <=> OneRequestOf(q)
             /\ \A g \in Nat : Names(q, g)' <=> Names(q, g)
             /\ \A i \in Item : Touches(q, i)' <=> Touches(q, i)
  <2>1. JudgedOf(q) /\ FoundOf(q)
    BY DEF Judged
  <2>2. JudgedOf(q)' /\ FoundOf(q)'
    BY <2>1 DEF JudgedOf, FoundOf, HoldsChannel, HoldsRows
  <2>3. /\ PhaseOf(q)' <=> PhaseOf(q)
        /\ RenewsOf(q)' <=> RenewsOf(q)
        /\ OneRequestOf(q)' <=> OneRequestOf(q)
        /\ \A g \in Nat : Names(q, g)' <=> Names(q, g)
        /\ \A i \in Item : Touches(q, i)' <=> Touches(q, i)
    BY DEF PhaseOf, RenewsOf, OneRequestOf, Names, Touches, Wants, Changes
  <2> QED
    BY <2>2, <2>3
<1>3. Judged' /\ Phases' /\ Renews' /\ OneRequest'
  BY <1>2 DEF Judged, Phases, Renews, OneRequest
<1>4. Deadlines'
  BY DEF Deadlines, DeadlinesOf, Backed
<1>5. Issued' /\ OneUser'
  <2>1. \A q \in Process, g \in Nat :
          (Names(q, g)' => Names(q, g)) /\ (Uses(q, g)' => Uses(q, g))
    BY <1>2 DEF Uses
  <2> QED
    BY <2>1 DEF Issued, OneUser
<1>6. Grounds'
  <2>1. \A q \in Process, i \in Item : Touches(q, i)' => Touches(q, i)
    BY <1>2
  <2> QED
    BY <2>1 DEF Grounds
<1> QED
  BY <1>1, <1>3, <1>4, <1>5, <1>6 DEF Rest

(* The worker takes the next request.                                      *)
LEMMA BeginStep == ASSUME ChannelInv, NEW p \in Process, Begin(p) PROVE Rest'
<1> USE DEF ChannelInv
<1> DEFINE s == server[p]
           r == queue[p][1]
           t == Begun(p, r)
<1>0. /\ queue[p] \in Seq(Request) /\ queue[p] # <<>> /\ tx[p] = None
      /\ UNCHANGED <<clock, row, items, locked, claimed, server, known, wrote>>
  BY DEF Begin, TypeOK
<1>1. 1 \in DOMAIN queue[p] /\ Head(queue[p]) = r
  BY <1>0
<1>2. /\ tx' = [tx EXCEPT ![p] = t]
      /\ queue' = [queue EXCEPT ![p] = IF r.op = "shutdown" THEN <<>> ELSE Tail(@)]
  BY <1>1 DEF Begin
<1>3. /\ tx'[p] = t /\ \A q \in Process \ {p} : tx'[q] = tx[q] /\ queue'[q] = queue[q]
      /\ queue'[p] = IF r.op = "shutdown" THEN <<>> ELSE Tail(queue[p])
  BY <1>2 DEF TypeOK
<1>4. /\ r.op \in {"claim", "renew", "release", "shutdown"} \cup ItemOp
      /\ s.state \in Asks(r.op)
      /\ r.op \in {"renew", "release", "shutdown"} => r.generation = s.generation
  BY <1>1, RequestOps DEF Phases, PhaseOf
<1>5. /\ t.op = r.op
      /\ r.op \in ItemOp => t.takes = {r.item}
      /\ r.op \notin ItemOp => t.takes = {} /\ t.sets.generation = r.generation
      /\ t.stage = IF r.op \in {"pickup", "retire"} THEN "rows" ELSE "channel"
      /\ t # None
  BY <1>4 DEF Begun, None, ItemOp
<1>6. \A j \in DOMAIN queue'[p] :
        j + 1 \in DOMAIN queue[p] /\ j + 1 # 1 /\ queue'[p][j] = queue[p][j + 1]
        /\ j \in Nat
  <2>1. \A j \in DOMAIN Tail(queue[p]) :
          /\ j + 1 \in DOMAIN queue[p] /\ j + 1 # 1 /\ j \in Nat
          /\ Tail(queue[p])[j] = queue[p][j + 1]
    BY <1>0
  <2>2. DOMAIN <<>> = {}
    OBVIOUS
  <2> QED
    BY <1>3, <2>1, <2>2
<1> HIDE DEF t, r
<1>7. PhaseOf(p)'
  <2>1. PhaseOf(p)
    BY DEF Phases
  <2>2. \A j \in DOMAIN queue'[p] :
          /\ s.state \in Asks(queue'[p][j].op)
          /\ queue'[p][j].op \in {"renew", "release", "shutdown"} =>
               queue'[p][j].generation = s.generation
    BY <1>6, <2>1 DEF PhaseOf
  <2>3. s.state \in {"claiming", "giving"} => queue'[p] = <<>>
    <3>1. s.state \in {"claiming", "giving"} => Len(queue[p]) <= 1
      BY <2>1 DEF PhaseOf
    <3>2. Len(queue[p]) <= 1 => Tail(queue[p]) = <<>>
      BY <1>0
    <3> QED
      BY <1>3, <3>1, <3>2
  <2>4. t.op \in {"claim", "release", "shutdown"} => queue'[p] = <<>>
    BY <1>3, <1>4, <1>5, <2>3 DEF Asks
  <2>5. t.op \in {"renew", "release", "shutdown"} => t.sets.generation = s.generation
    BY <1>4, <1>5 DEF ItemOp
  <2>6. s.state \in {"claiming", "giving"} => Len(queue'[p]) <= 1
    BY <2>3
  <2> QED
    BY <1>0, <1>3, <1>4, <1>5, <2>1, <2>2, <2>4, <2>5, <2>6 DEF PhaseOf
<1>8. RenewsOf(p)'
  <2>1. RenewsOf(p)
    BY DEF Renews
  <2>2. s.renewal \in {"waiting", "ok", "err"} =>
          t.op # "renew" /\ \A j \in DOMAIN queue'[p] : queue'[p][j].op # "renew"
    BY <1>1, <1>5, <1>6, <2>1 DEF RenewsOf, r
  <2>3. s.renewal = "sent" =>
          /\ t.op = "renew" => \A j \in DOMAIN queue'[p] : queue'[p][j].op # "renew"
          /\ \A j, k \in DOMAIN queue'[p] :
               queue'[p][j].op = "renew" /\ queue'[p][k].op = "renew" => j = k
    <3>1. s.renewal = "sent" =>
            \A j, k \in DOMAIN queue[p] :
              queue[p][j].op = "renew" /\ queue[p][k].op = "renew" => j = k
      BY <2>1 DEF RenewsOf
    <3>2. \A j, k \in Nat : j + 1 = k + 1 => j = k
      OBVIOUS
    <3> QED
      BY <1>1, <1>5, <1>6, <3>1, <3>2 DEF r
  <2> QED
    BY <1>0, <1>3, <2>2, <2>3 DEF RenewsOf
<1>9. OneRequestOf(p)'
  <2>1. OneRequestOf(p)
    BY DEF OneRequest
  <2>2. \A j \in DOMAIN queue'[p], i \in Item : Wants(p, j, i)' => Wants(p, j + 1, i)
    BY <1>6 DEF Wants
  <2>3. \A i \in Item : Changes(p, i)' => Wants(p, 1, i)
    BY <1>3, <1>5 DEF Changes, Wants, r
  <2>4. \A j, k \in Nat : j + 1 = k + 1 => j = k
    OBVIOUS
  <2> QED
    BY <1>0, <1>1, <1>6, <2>1, <2>2, <2>3, <2>4 DEF OneRequestOf
<1>10. \A g \in Nat : Names(p, g)' => Names(p, g)
  BY <1>0, <1>3, <1>4, <1>5 DEF Names, Asks, ItemOp
<1>11. \A i \in Item : Touches(p, i)' => Touches(p, i)
  <2>1. \A j \in DOMAIN queue'[p], i \in Item :
          Wants(p, j, i)' => Wants(p, j + 1, i) /\ queue'[p][j].op = queue[p][j + 1].op
    BY <1>6 DEF Wants
  <2>2. \A i \in Item : Changes(p, i)' => Wants(p, 1, i)
    BY <1>3, <1>5 DEF Changes, Wants, r
  <2> QED
    BY <1>0, <1>1, <1>3, <1>5, <1>6, <2>1, <2>2 DEF Touches, r
<1>12. ~HoldsChannel(p)' /\ ~HoldsRows(p)' /\ ~HoldsChannel(p)
  BY <1>0, <1>3, <1>5 DEF HoldsChannel, HoldsRows
<1>13. Locks'
  BY <1>0, <1>3, <1>4, <1>5, <1>12 DEF ItemOp, Locks, LocksOf, HoldsChannel, HoldsRows
<1> QED
  BY <1>0, <1>3, <1>7, <1>8, <1>9, <1>10, <1>11, <1>12, <1>13, WorkStep
  DEF JudgedOf, FoundOf

(* A transaction that goes on keeps its request.                           *)
LEMMA MoveStep ==
  ASSUME ChannelInv, NEW p \in Process,
         tx[p] # None, tx'[p] # None, tx'[p].op = tx[p].op,
         tx[p].op \in {"renew", "release", "shutdown"} =>
           tx'[p].sets.generation = tx[p].sets.generation,
         tx[p].op \in ItemOp => tx'[p].takes = tx[p].takes,
         \A q \in Process \ {p} : tx'[q] = tx[q],
         UNCHANGED <<clock, row, items, server, queue>>,
         Locks', JudgedOf(p)', FoundOf(p)'
  PROVE  Rest'
<1> USE DEF ChannelInv
<1>1. PhaseOf(p)' /\ RenewsOf(p)' /\ OneRequestOf(p)'
  <2>1. PhaseOf(p) /\ RenewsOf(p) /\ OneRequestOf(p)
    BY DEF Phases, Renews, OneRequest
  <2>2. \A i \in Item : Changes(p, i)' <=> Changes(p, i)
    BY DEF Changes
  <2>3. PhaseOf(p)'
    BY <2>1 DEF PhaseOf
  <2>4. RenewsOf(p)'
    BY <2>1 DEF RenewsOf
  <2>5. OneRequestOf(p)'
    BY <2>1, <2>2 DEF OneRequestOf, Wants
  <2> QED
    BY <2>3, <2>4, <2>5
<1>2. /\ \A g \in Nat : Names(p, g)' => Names(p, g)
      /\ \A i \in Item : Touches(p, i)' => Touches(p, i)
  BY DEF Names, Touches, Changes, Wants
<1> QED
  BY <1>1, <1>2, WorkStep

(* The row of an item is locked for its transaction.                       *)
LEMMA LockRowStep ==
  ASSUME ChannelInv, NEW p \in Process, NEW i \in Item, LockRow(p, i)
  PROVE  Rest'
<1> USE DEF ChannelInv
<1>1. /\ UNCHANGED <<clock, row, items, locked, server, queue, known, tx, wrote>>
      /\ claimed[i] = Nobody /\ tx[p] # None
      /\ \A k \in Item : k # i => claimed'[k] = claimed[k]
      /\ Nobody \notin Process
  BY Numbers DEF LockRow, Waits, TypeOK
<1>2. Locks'
  <2>1. \A q \in Process : HoldsRows(q) => tx[q].takes \in SUBSET Item
    BY TxIs DEF HoldsRows, Transaction
  <2> QED
    BY <1>1, <2>1 DEF Locks, LocksOf, HoldsChannel, HoldsRows
<1>3. JudgedOf(p)' /\ FoundOf(p)'
  <2>1. JudgedOf(p) /\ FoundOf(p)
    BY DEF Judged
  <2> QED
    BY <1>1, <2>1 DEF JudgedOf, FoundOf, HoldsChannel, HoldsRows
<1> QED
  BY <1>1, <1>2, <1>3, MoveStep

(* A free lock of the channel's row is taken.                              *)
LEMMA HoldsStep ==
  ASSUME ChannelInv, NEW p \in Process, NEW t \in Transaction,
         Waits(p, "channel"), locked = Nobody, Holds(p),
         tx' = [tx EXCEPT ![p] = t], t.op = tx[p].op,
         \/ t.op \in {"claim", "drop"} /\ t.stage = "rows"
         \/ /\ t.op \notin {"claim", "drop", "pickup"} /\ t.stage = "commit"
            /\ t.takes = tx[p].takes,
         tx[p].op \in {"renew", "release", "shutdown"} =>
           t.sets.generation = tx[p].sets.generation,
         tx[p].op \in ItemOp => t.takes = tx[p].takes,
         UNCHANGED <<clock, row, items, queue>>,
         HoldsChannel(p)' => JudgedOf(p)'
  PROVE  Rest'
<1> USE DEF ChannelInv
<1>1. /\ tx[p] # None /\ t # None /\ tx'[p] = t /\ \A q \in Process \ {p} : tx'[q] = tx[q]
      /\ tx[p].stage = "channel" /\ locked' = p /\ Nobody \notin Process
      /\ UNCHANGED <<claimed, server>>
  <2>1. t # None
    BY DEF Transaction, None, ItemOp
  <2>2. tx \in [Process -> Transaction \cup {None}]
    BY TxIs
  <2>3. tx'[p] = t /\ \A q \in Process \ {p} : tx'[q] = tx[q]
    BY <2>2
  <2> QED
    BY <2>1, <2>3, Numbers DEF Waits, Holds
<1>2. \A q \in Process : ~HoldsChannel(q)
  BY <1>1 DEF Locks, LocksOf
<1>3. HoldsChannel(p)'
  BY <1>1 DEF HoldsChannel
<1>4. HoldsRows(p)' => t.op = "retire" \/ t.op \in {"renew", "release", "shutdown"}
  BY <1>1 DEF HoldsRows, Transaction, ItemOp
<1>5. Locks'
  <2>1. LocksOf(p)'
    <3>1. LocksOf(p)
      BY DEF Locks
    <3>2. t.op = "retire" => HoldsRows(p)
      BY <1>1 DEF HoldsRows
    <3>3. HoldsRows(p)' => \A i \in t.takes : claimed[i] = p
      BY <1>1, <1>4, <3>1, <3>2 DEF LocksOf
    <3> QED
      BY <1>1, <1>3, <3>1, <3>3 DEF LocksOf
  <2>2. ASSUME NEW q \in Process \ {p} PROVE LocksOf(q)'
    BY <1>1, <1>2 DEF Locks, LocksOf, HoldsChannel, HoldsRows
  <2> QED
    BY <2>1, <2>2 DEF Locks
<1>6. FoundOf(p)'
  <2>1. FoundOf(p)
    BY DEF Judged
  <2>2. t.op = "retire" => HoldsRows(p)
    BY <1>1 DEF HoldsRows
  <2> QED
    BY <1>1, <1>4, <2>1, <2>2 DEF FoundOf, ItemOp
<1> QED
  BY <1>1, <1>3, <1>5, <1>6, MoveStep

(* Whoever gets the lock of the channel's row: a claim, or one that lives. *)
LEMMA ClaimsStep ==
  ASSUME ChannelInv, NEW p \in Process, LockChannel(p), tx[p].op = "claim",
         ~Rejected(p), Claims(p)
  PROVE  Rest'
<1> USE DEF ChannelInv
<1> DEFINE next == row.generation + 1
           r == [generation |-> next, expires |-> FromRequest(clock)]
           t == [tx[p] EXCEPT !.stage = "rows", !.takes = Leftover(next), !.sets = r]
<1>0. /\ Waits(p, "channel") /\ locked = Nobody /\ tx[p] # None
      /\ UNCHANGED <<clock, row, items, queue>>
      /\ row.expires <= clock /\ tx' = [tx EXCEPT ![p] = t] /\ Holds(p)
  BY DEF LockChannel, Claims, Waits
<1>1. /\ clock \in Nat /\ Expiry \in Nat /\ row.generation \in Nat
      /\ server[p].sent \in Nat /\ server[p].sent <= clock
  BY Numbers, ServerIs DEF ServerType, Times
<1>2. tx[p] \in Transaction /\ r \in Row /\ Leftover(next) \in SUBSET Item
  BY <1>0, <1>1, TxIs DEF Row, FromRequest, Leftover
<1>3. /\ t \in Transaction /\ t.op = "claim" /\ t.stage = "rows" /\ t.sets = r
      /\ t.takes = Leftover(next)
  <2> HIDE DEF r
  <2> QED
    BY <1>2 DEF Transaction
<1>4. tx'[p] = t /\ server' = server
  BY <1>0 DEF TypeOK, Holds
<1>5. \A i \in Item : items[i].at = "ground" => i \in Leftover(next)
  BY <1>1 DEF Grounds, Leftover
<1>6. /\ r.generation = row.generation + 1 /\ r.expires = clock + Expiry
      /\ FromRequest(server[p].sent) <= clock + Expiry
  BY <1>1 DEF FromRequest
<1> HIDE DEF t, r
<1>7. JudgedOf(p)'
  BY <1>0, <1>1, <1>3, <1>4, <1>5, <1>6 DEF JudgedOf
<1> QED
  BY <1>0, <1>3, <1>7, HoldsStep DEF ItemOp

(* Whoever holds the live generation goes on with the row locked.          *)
LEMMA ContinuesStep ==
  ASSUME ChannelInv, NEW p \in Process, LockChannel(p), tx[p].op # "claim",
         Live(p), Continues(p), Holds(p)
  PROVE  Rest'
<1> USE DEF ChannelInv
<1>0. /\ Waits(p, "channel") /\ locked = Nobody /\ tx[p] # None
      /\ UNCHANGED <<clock, row, items, queue>> /\ server' = server
      /\ row.generation = tx[p].sets.generation
  BY DEF LockChannel, Waits, Live, Holds
<1>1. /\ clock \in Nat /\ Expiry \in Nat /\ row.generation \in Nat
      /\ row \in Row /\ row.expires \in Int /\ row.expires <= clock + Expiry
      /\ server[p].sent \in Nat /\ server[p].sent <= clock
  BY Numbers, ServerIs DEF ServerType, Times, TypeOK
<1>2. tx[p] \in Transaction /\ tx[p].op \notin {"claim", "pickup"}
  BY <1>0, TxIs DEF Locks, LocksOf, Waits
<1>3. CASE tx[p].op \in {"renew", "release", "shutdown"}
  <2> DEFINE t == [tx[p] EXCEPT !.stage = "commit", !.sets = Left(p)]
  <2>1. /\ Left(p) \in Row /\ Left(p).generation = row.generation
        /\ tx[p].op = "renew" => Left(p).expires = clock + Expiry
        /\ tx[p].op # "renew" => Left(p).expires = clock - 1
    BY <1>1 DEF Left, Row, FromRequest
  <2>2. /\ t \in Transaction /\ t.op = tx[p].op /\ t.stage = "commit"
        /\ t.sets = Left(p) /\ t.takes = tx[p].takes
    BY <1>2, <2>1 DEF Transaction
  <2>3. tx' = [tx EXCEPT ![p] = t]
    BY <1>3, <1>2 DEF Continues
  <2>4. tx'[p] = t
    BY <2>3 DEF TypeOK
  <2>5. FromRequest(server[p].sent) <= clock + Expiry
    BY <1>1 DEF FromRequest
  <2> HIDE DEF t
  <2>6. JudgedOf(p)'
    BY <1>0, <1>1, <1>3, <2>1, <2>2, <2>4, <2>5 DEF JudgedOf
  <2> QED
    BY <1>0, <1>2, <1>3, <2>1, <2>2, <2>3, <2>6, HoldsStep DEF ItemOp
<1>4. CASE tx[p].op \in {"drop", "retire"}
  <2> DEFINE st == IF tx[p].op = "drop" THEN "rows" ELSE "commit"
             t == [tx[p] EXCEPT !.stage = st]
  <2>2. /\ t \in Transaction /\ t.op = tx[p].op /\ t.stage = st
        /\ t.sets = tx[p].sets /\ t.takes = tx[p].takes
    BY <1>2 DEF Transaction
  <2>3. tx' = [tx EXCEPT ![p] = t]
    BY <1>4 DEF Continues, Goes
  <2>4. tx'[p] = t
    BY <2>3 DEF TypeOK
  <2> HIDE DEF t
  <2>6. JudgedOf(p)'
    BY <1>0, <1>1, <1>4, <2>2, <2>4 DEF JudgedOf
  <2> QED
    BY <1>0, <1>2, <1>4, <2>2, <2>3, <2>6, HoldsStep DEF ItemOp
<1> QED
  BY <1>2, <1>3, <1>4 DEF Transaction, ItemOp

(* All rows are locked and are what the command expects.                   *)
LEMMA RowsLockedStep ==
  ASSUME ChannelInv, NEW p \in Process, Waits(p, "rows"),
         \A i \in tx[p].takes : claimed[i] = p,
         tx[p].op = "claim" \/ \A i \in tx[p].takes : items[i].at = From(tx[p].op),
         Goes(p, IF tx[p].op = "retire" THEN "channel" ELSE "commit"),
         UNCHANGED <<clock, row, items, queue, locked, claimed, server>>
  PROVE  Rest'
<1> USE DEF ChannelInv
<1> DEFINE st == IF tx[p].op = "retire" THEN "channel" ELSE "commit"
           t == [tx[p] EXCEPT !.stage = st]
<1>0. tx[p] # None /\ tx[p].stage = "rows" /\ tx[p] \in Transaction
  BY TxIs DEF Waits
<1>1. /\ t \in Transaction /\ t.op = tx[p].op /\ t.stage = st
      /\ t.sets = tx[p].sets /\ t.takes = tx[p].takes
  BY <1>0 DEF Transaction
<1>2. tx'[p] = t /\ \A q \in Process \ {p} : tx'[q] = tx[q]
  BY DEF Goes, TypeOK
<1>3. t # None
  BY <1>1 DEF Transaction, None, ItemOp
<1> HIDE DEF t
<1>4. LocksOf(p) /\ JudgedOf(p)
  BY DEF Locks, Judged
<1>5. tx[p].op \in {"claim"} \cup ItemOp
  BY <1>0, <1>4 DEF LocksOf, Transaction
<1>6. HoldsChannel(p)' <=> HoldsChannel(p)
  BY <1>0, <1>1, <1>2, <1>3, <1>5 DEF HoldsChannel, ItemOp
<1>7. Locks'
  <2>1. LocksOf(p)'
    BY <1>1, <1>2, <1>4, <1>5, <1>6 DEF LocksOf, ItemOp
  <2>2. ASSUME NEW q \in Process \ {p} PROVE LocksOf(q)'
    BY <1>2 DEF Locks, LocksOf, HoldsChannel, HoldsRows
  <2> QED
    BY <2>1, <2>2 DEF Locks
<1>8. JudgedOf(p)'
  BY <1>1, <1>2, <1>4, <1>6 DEF JudgedOf
<1>9. FoundOf(p)'
  BY <1>1, <1>2 DEF FoundOf, ItemOp
<1> QED
  BY <1>0, <1>1, <1>2, <1>3, <1>7, <1>8, <1>9, MoveStep

(* What an answer makes of the record of p, field by field.                *)
Hears(p, ok, a) ==
  LET s == server[p]
      t == tx[p] IN
  \/ s.state = "off" /\ a = s
  \/ /\ t.op = "claim" /\ s.state = "claiming"
     /\ a.state = (IF ok THEN "claimed" ELSE "refused")
     /\ a.generation = t.sets.generation
     /\ a.sent = s.sent /\ a.mail = s.mail /\ a.renewal = s.renewal
     /\ a.shown = s.shown /\ a.asked = s.asked
  \/ /\ t.op = "renew" /\ s.state \in {"serving", "leaving"}
     /\ a.renewal = (IF s.renewal = "sent" THEN (IF ok THEN "ok" ELSE "err")
                     ELSE s.renewal)
     /\ a.state = s.state /\ a.generation = s.generation /\ a.sent = s.sent
     /\ a.deadline = s.deadline /\ a.mail = s.mail
     /\ a.shown = s.shown /\ a.asked = s.asked
  \/ t.op \in {"release", "shutdown"} /\ a = Off
  \/ /\ t.op \in ItemOp /\ s.state \in {"serving", "leaving"}
     /\ a.state = s.state /\ a.generation = s.generation /\ a.sent = s.sent
     /\ a.deadline = s.deadline /\ a.mail = s.mail /\ a.renewal = s.renewal
     /\ a.asked = s.asked \ t.takes
     /\ a.shown = (IF ~ok THEN s.shown
                   ELSE IF t.op = "drop" THEN s.shown \cup t.takes
                   ELSE s.shown \ t.takes)

(* Answered, field by field.                                               *)
LEMMA AnswerIs ==
  ASSUME ChannelInv, NEW p \in Process, tx[p] # None, NEW ok \in BOOLEAN
  PROVE  Hears(p, ok, Answered(p, ok))
<1> USE DEF ChannelInv, Hears
<1> DEFINE s == server[p]
           t == tx[p]
<1>1. /\ s \in ServerType
      /\ t.op \in {"claim", "renew", "release", "shutdown"} \cup ItemOp
      /\ s.state = "off" \/ s.state \in Asks(t.op)
  BY ServerIs, TxOps DEF Phases, PhaseOf
<1>2. CASE s.state = "off"
  BY <1>2 DEF Answered
<1>3. CASE s.state # "off" /\ t.op = "claim"
  BY <1>1, <1>3 DEF Answered, ServerType, Asks, ItemOp
<1>4. CASE s.state # "off" /\ t.op = "renew"
  BY <1>1, <1>4 DEF Answered, ServerType, Asks, ItemOp
<1>5. CASE s.state # "off" /\ t.op \in {"release", "shutdown"}
  BY <1>1, <1>5 DEF Answered, ItemOp
<1>6. CASE s.state # "off" /\ t.op \in ItemOp
  BY <1>1, <1>6 DEF Answered, ServerType, Asks, ItemOp
<1> QED
  BY <1>1, <1>2, <1>3, <1>4, <1>5, <1>6

(* The end of a transaction, field by field.                               *)
LEMMA EndedHears ==
  ASSUME ChannelInv, NEW p \in Process, tx[p] # None, NEW ok \in BOOLEAN,
         NEW g \in Nat, Ended(p, ok, g)
  PROVE  /\ Hears(p, ok, server'[p])
         /\ \A q \in Process \ {p} : server'[q] = server[q]
<1>1. /\ server'[p] = Answered(p, ok)
      /\ \A q \in Process \ {p} : server'[q] = server[q]
  BY EndedEffect DEF ChannelInv
<1>2. Hears(p, ok, Answered(p, ok))
  BY AnswerIs
<1> QED
  BY <1>1, <1>2

(* Whatever ends a transaction frees its locks, and its process is in step *)
(* with the requests it still has.                                         *)
LEMMA EndedStep ==
  ASSUME ChannelInv, NEW p \in Process, tx[p] # None, NEW ok \in BOOLEAN,
         NEW g \in Nat, Ended(p, ok, g), UNCHANGED <<clock, queue>>
  PROVE  /\ Locks' /\ Phases' /\ Renews' /\ OneRequest'
         /\ \A q \in Process : server'[q].sent <= clock
<1> USE DEF ChannelInv
<1> DEFINE s == server[p]
           t == tx[p]
           a == Answered(p, ok)
<1>1. /\ tx'[p] = None /\ \A q \in Process \ {p} : tx'[q] = tx[q]
      /\ locked' = IF locked = p THEN Nobody ELSE locked
      /\ \A i \in Item : claimed'[i] = IF claimed[i] = p THEN Nobody ELSE claimed[i]
      /\ server'[p] = a
      /\ \A q \in Process \ {p} : server'[q] = server[q]
  BY EndedEffect
<1>2. None.op = "none" /\ Nobody \notin Process /\ clock \in Nat
  BY Numbers DEF None
<1>3. /\ PhaseOf(p) /\ RenewsOf(p) /\ OneRequestOf(p) /\ s.sent <= clock
      /\ t.op \in {"claim", "renew", "release", "shutdown"} \cup ItemOp
  BY TxOps DEF Phases, Renews, OneRequest, Times
<1>4. Locks'
  <2>1. LocksOf(p)'
    BY <1>1, <1>2 DEF LocksOf, HoldsChannel, HoldsRows
  <2>2. ASSUME NEW q \in Process \ {p} PROVE LocksOf(q)'
    <3>1. LocksOf(q) /\ (HoldsRows(q) => tx[q].takes \in SUBSET Item)
      BY TxIs DEF Locks, HoldsRows, Transaction
    <3> QED
      BY <1>1, <1>2, <3>1 DEF LocksOf, HoldsChannel, HoldsRows
  <2> QED
    BY <2>1, <2>2 DEF Locks
<1>a. Hears(p, ok, a)
  BY AnswerIs
<1> HIDE DEF a
<1> USE DEF Hears
<1>q. t.op \in {"claim", "release", "shutdown"} => DOMAIN queue[p] = {} /\ Len(queue[p]) = 0
  BY <1>3 DEF PhaseOf
<1>5. PhaseOf(p)'
  <2>1. CASE a = s
    BY <1>1, <1>2, <1>3, <2>1 DEF PhaseOf
  <2>2. CASE t.op = "claim" /\ a # s
    BY <1>1, <1>2, <1>3, <1>a, <1>q, <2>2 DEF PhaseOf, Bare, ItemOp
  <2>3. CASE t.op \in {"release", "shutdown"} /\ a # s
    BY <1>1, <1>2, <1>3, <1>a, <1>q, <2>3 DEF PhaseOf, Bare, ItemOp, Off
  <2>4. CASE t.op \in {"renew"} \cup ItemOp /\ a # s
    <3>1. /\ a.state = s.state /\ a.generation = s.generation /\ a.mail = s.mail
          /\ s.state \in {"serving", "leaving"}
          /\ s.renewal = "off" => a.renewal = "off"
      BY <1>a, <2>4 DEF ItemOp
    <3> QED
      BY <1>1, <1>2, <1>3, <3>1 DEF PhaseOf, Bare
  <2> QED
    BY <1>3, <2>1, <2>2, <2>3, <2>4
<1>6. RenewsOf(p)'
  <2>1. \/ a.renewal = "off"
        \/ a.renewal = s.renewal
        \/ s.renewal = "sent" /\ t.op = "renew" /\ a.renewal \in {"ok", "err"}
    BY <1>a DEF Off
  <2> QED
    BY <1>1, <1>2, <1>3, <2>1 DEF RenewsOf
<1>7. OneRequestOf(p)'
  <2>1. \A i \in Item : ~Changes(p, i)'
    BY <1>1, <1>2 DEF Changes, ItemOp
  <2>2. \A j \in DOMAIN queue[p], i \in Item : Wants(p, j, i)' <=> Wants(p, j, i)
    BY DEF Wants
  <2>3. a.state = "serving" =>
          /\ s.state = "serving"
          /\ \A j \in DOMAIN queue[p], i \in Item :
               Wants(p, j, i) /\ i \in s.asked => i \in a.asked
    <3>1. CASE t.op \in ItemOp /\ s.state # "off"
      <4>1. \A j \in DOMAIN queue[p], i \in Item : Wants(p, j, i) => i \notin t.takes
        BY <1>3, <3>1 DEF OneRequestOf, Changes
      <4> QED
        BY <1>a, <3>1, <4>1 DEF ItemOp
    <3>2. CASE ~(t.op \in ItemOp /\ s.state # "off")
      BY <1>3, <1>a, <3>2 DEF Off
    <3> QED
      BY <3>1, <3>2
  <2> QED
    BY <1>1, <1>3, <2>1, <2>2, <2>3 DEF OneRequestOf
<1>8. a.sent <= clock
  BY <1>2, <1>3, <1>a DEF Off
<1>9. /\ Phases' /\ Renews' /\ OneRequest'
  <2>1. ASSUME NEW q \in Process \ {p}
        PROVE  PhaseOf(q)' /\ RenewsOf(q)' /\ OneRequestOf(q)'
    BY <1>1
    DEF Phases, PhaseOf, Renews, RenewsOf, OneRequest, OneRequestOf, Wants, Changes
  <2> QED
    BY <1>5, <1>6, <1>7, <2>1 DEF Phases, Renews, OneRequest
<1> QED
  BY <1>1, <1>4, <1>8, <1>9 DEF Times

(* Only a claim that is answered yes makes a process use a generation, and *)
(* only a drop that is makes it touch an item.                             *)
LEMMA EndedNames ==
  ASSUME ChannelInv, NEW p \in Process, tx[p] # None, NEW ok \in BOOLEAN,
         NEW g \in Nat, Ended(p, ok, g), UNCHANGED <<clock, queue>>
  PROVE  /\ \A q \in Process, h \in Nat :
              (Names(q, h)' \/ Uses(q, h)') =>
                \/ Names(q, h) /\ (Uses(q, h)' => Uses(q, h))
                \/ q = p /\ ok /\ tx[p].op = "claim" /\ h = tx[p].sets.generation
         /\ \A q \in Process, i \in Item :
              Touches(q, i)' =>
                \/ Touches(q, i) /\ (q = p => ~(ok /\ tx[p].op \in {"pickup", "retire"}
                                                  /\ Changes(p, i)))
                \/ q = p /\ ok /\ tx[p].op = "drop" /\ Changes(p, i)
         /\ \A q \in Process :
              server'[q].state = "serving" =>
                /\ server[q].state = "serving"
                /\ server'[q].generation = server[q].generation
<1> USE DEF ChannelInv
<1> DEFINE a == Answered(p, ok)
<1>1. /\ tx'[p] = None /\ \A q \in Process \ {p} : tx'[q] = tx[q]
      /\ server'[p] = a
      /\ \A q \in Process \ {p} : server'[q] = server[q]
      /\ Hears(p, ok, a)
  BY EndedEffect, AnswerIs
<1> HIDE DEF a
<1>2. \/ /\ a.state \in {"claimed", "giving", "serving", "leaving"} =>
              a.state = server[p].state /\ a.generation = server[p].generation
      \/ /\ ok /\ tx[p].op = "claim" /\ a.state = "claimed"
         /\ a.generation = tx[p].sets.generation
  BY <1>1 DEF Hears, Off
<1>3. /\ server'[p] = a /\ tx'[p].op = "none"
      /\ \A q \in Process \ {p} : server'[q] = server[q] /\ tx'[q] = tx[q]
  BY <1>1 DEF None
<1>4. ASSUME NEW q \in Process, NEW h \in Nat, Names(q, h)' \/ Uses(q, h)'
      PROVE  \/ Names(q, h) /\ (Uses(q, h)' => Uses(q, h))
             \/ q = p /\ ok /\ tx[p].op = "claim" /\ h = tx[p].sets.generation
  <2>1. CASE q = p
    BY <1>1, <1>2, <1>4, <2>1 DEF Names, Uses
  <2>2. CASE q # p
    BY <1>3, <1>4, <2>2 DEF Names, Uses
  <2> QED
    BY <2>1, <2>2
<1>5. ASSUME NEW q \in Process, NEW i \in Item, Touches(q, i)'
      PROVE  \/ Touches(q, i) /\ (q = p => ~(ok /\ tx[p].op \in {"pickup", "retire"}
                                               /\ Changes(p, i)))
             \/ q = p /\ ok /\ tx[p].op = "drop" /\ Changes(p, i)
  <2>1. CASE q # p
    BY <1>3, <1>5, <2>1 DEF Touches, Wants, Changes
  <2>2. CASE q = p
    <3>1. i \in a.shown =>
            \/ i \in server[p].shown /\ ~(ok /\ tx[p].op \in {"pickup", "retire"}
                                             /\ Changes(p, i))
            \/ ok /\ tx[p].op = "drop" /\ Changes(p, i)
      <4>1. server[p].state = "off" => server[p].shown = {}
        BY DEF Phases, PhaseOf, Bare
      <4> QED
        BY <1>1, <4>1 DEF Hears, Off, Changes, ItemOp
    <3>2. \A j \in DOMAIN queue[p] : Wants(p, j, i)' => Wants(p, j, i) /\ ~Changes(p, i)
      BY DEF OneRequest, OneRequestOf, Wants
    <3>3. ~Changes(p, i)'
      BY <1>3 DEF Changes, ItemOp
    <3> QED
      BY <1>3, <1>5, <2>2, <3>1, <3>2, <3>3 DEF Touches
  <2> QED
    BY <2>1, <2>2
<1>6. ASSUME NEW q \in Process, server'[q].state = "serving"
      PROVE  /\ server[q].state = "serving"
             /\ server'[q].generation = server[q].generation
  BY <1>2, <1>3, <1>6
<1> QED
  BY <1>4, <1>5, <1>6

(* The row of afterwards backs a deadline.                                 *)
BackedThen(g, d) == d <= clock \/ (g = row'.generation /\ d <= row'.expires)

(* Deadlines that the row of before backs are backed by one that is not    *)
(* earlier; a yes to a claim or a renewal brings one more.                 *)
LEMMA EndedDeadlines ==
  ASSUME ChannelInv, NEW p \in Process, tx[p] # None, NEW ok \in BOOLEAN,
         NEW g \in Nat, Ended(p, ok, g), UNCHANGED <<clock, queue>>,
         \A q \in Process, h \in Nat, d \in Int :
           Uses(q, h) /\ Backed(h, d) => BackedThen(h, d),
         ok /\ tx[p].op = "renew" /\ server[p].renewal = "sent" =>
           BackedThen(server[p].generation, FromRequest(server[p].sent)),
         ok /\ tx[p].op = "claim" /\ server[p].state = "claiming" =>
           BackedThen(tx[p].sets.generation, FromRequest(server[p].sent))
  PROVE  Deadlines'
<1> USE DEF ChannelInv
<1> DEFINE a == Answered(p, ok)
           s == server[p]
<1>1. /\ server'[p] = a
      /\ \A q \in Process \ {p} : server'[q] = server[q]
      /\ Hears(p, ok, a)
  BY EndedEffect, AnswerIs
<1>2. ASSUME NEW q \in Process
      PROVE  /\ server[q].generation \in Nat /\ server[q].deadline \in Int
             /\ FromRequest(server[q].sent) \in Int
             /\ \A j \in DOMAIN server[q].mail : server[q].mail[j].at \in Int
  <2>1. server[q].mail \in Seq(Mail) /\ server[q].sent \in Nat /\ Expiry \in Nat
    BY ServerIs, Numbers DEF ServerType
  <2>2. \A j \in DOMAIN server[q].mail : server[q].mail[j] \in Mail
    BY <2>1
  <2> QED
    BY <2>1, <2>2, ServerIs DEF ServerType, FromRequest, Mail
<1>3. ASSUME NEW q \in Process
      PROVE  /\ server[q].state = "claimed" =>
                  BackedThen(server[q].generation, FromRequest(server[q].sent))
             /\ server[q].state = "serving" =>
                  /\ BackedThen(server[q].generation, server[q].deadline)
                  /\ server[q].renewal = "ok" =>
                       BackedThen(server[q].generation, FromRequest(server[q].sent))
                  /\ \A j \in DOMAIN server[q].mail :
                       server[q].mail[j].kind = "deadline" =>
                         BackedThen(server[q].generation, server[q].mail[j].at)
  <2>1. DeadlinesOf(q)
    BY DEF Deadlines
  <2>2. server[q].state \in {"claimed", "serving"} => Uses(q, server[q].generation)
    BY DEF Uses
  <2> QED
    BY <1>2, <2>1, <2>2 DEF DeadlinesOf
<1>4. \A h, d : Backed(h, d)' <=> BackedThen(h, d)
  BY DEF Backed, BackedThen
<1> HIDE DEF a, s
<1>5. DeadlinesOf(p)'
  <2>1. CASE a = s
    BY <1>1, <1>3, <1>4, <2>1 DEF DeadlinesOf, s
  <2>4. CASE ok /\ tx[p].op = "claim" /\ s.state = "claiming" /\ a # s
    <3>1. a.state = "claimed" /\ a.generation = tx[p].sets.generation /\ a.sent = s.sent
      BY <1>1, <2>4 DEF Hears, s, ItemOp
    <3> QED
      BY <1>1, <1>4, <2>4, <3>1 DEF DeadlinesOf, s, FromRequest
  <2>2. CASE a # s /\ a.state \in {"claimed", "serving"}
           /\ ~(ok /\ tx[p].op = "claim" /\ s.state = "claiming")
    <3>1. /\ s.state = "serving" /\ a.state = "serving"
          /\ a.generation = s.generation /\ a.sent = s.sent
          /\ a.deadline = s.deadline /\ a.mail = s.mail
          /\ \/ a.renewal = s.renewal
             \/ s.renewal = "sent" /\ tx[p].op = "renew" /\ (a.renewal = "ok" => ok)
      BY <1>1, <2>2 DEF Hears, Off, s
    <3> QED
      BY <1>1, <1>3, <1>4, <3>1 DEF DeadlinesOf, s, FromRequest
  <2>3. CASE a.state \notin {"claimed", "serving"}
    BY <1>1, <2>3 DEF DeadlinesOf
  <2> QED
    BY <2>1, <2>2, <2>3, <2>4
<1>6. ASSUME NEW q \in Process \ {p} PROVE DeadlinesOf(q)'
  BY <1>1, <1>3, <1>4 DEF DeadlinesOf, FromRequest
<1> QED
  BY <1>5, <1>6 DEF Deadlines

(* A rejection, whatever the reason, keeps the rest of the invariant.      *)
LEMMA RejectedStep ==
  ASSUME ChannelInv, NEW p \in Process, tx[p] # None, Rejected(p),
         UNCHANGED <<clock, row, items, queue>>
  PROVE  Rest'
<1> USE DEF ChannelInv
<1>1. PICK g \in Nat : Ended(p, FALSE, g)
  BY RejectedEnds
<1>2. /\ Locks' /\ Phases' /\ Renews' /\ OneRequest'
      /\ \A q \in Process : server'[q].sent <= clock
  BY <1>1, EndedStep
<1>3. Times'
  BY <1>2 DEF Times
<1>4. Judged'
  <2>1. /\ tx'[p] = None /\ \A q \in Process \ {p} : tx'[q] = tx[q]
        /\ \A q \in Process \ {p} : server'[q] = server[q]
    BY <1>1, EndedEffect
  <2>2. ASSUME NEW q \in Process \ {p} PROVE JudgedOf(q)' /\ FoundOf(q)'
    BY <2>1 DEF Judged, JudgedOf, FoundOf, HoldsChannel, HoldsRows
  <2> QED
    BY <2>1, <2>2 DEF Judged, JudgedOf, FoundOf, HoldsChannel, HoldsRows
<1>5. Deadlines'
  <2>1. \A q \in Process, h \in Nat, d \in Int :
          Uses(q, h) /\ Backed(h, d) => BackedThen(h, d)
    BY DEF Backed, BackedThen
  <2> QED
    BY <1>1, <2>1, EndedDeadlines
<1>6. /\ \A q \in Process, h \in Nat : (Names(q, h)' \/ Uses(q, h)') =>
           Names(q, h) /\ (Uses(q, h)' => Uses(q, h))
      /\ \A q \in Process, i \in Item : Touches(q, i)' => Touches(q, i)
      /\ \A q \in Process :
           server'[q].state = "serving" =>
             /\ server[q].state = "serving"
             /\ server'[q].generation = server[q].generation
  BY <1>1, EndedNames
<1>7. Issued' /\ OneUser'
  BY <1>6 DEF Issued, OneUser
<1>8. Grounds'
  <2>1. \A q \in Process, i \in Item : i \in server'[q].shown => Touches(q, i)'
    BY DEF Touches
  <2>2. \A q \in Process, i \in Item :
          server'[q].state = "serving" /\ i \in server'[q].shown => i \in server[q].shown
    <3>1. /\ server'[p] = Answered(p, FALSE) /\ Hears(p, FALSE, Answered(p, FALSE))
          /\ \A q \in Process \ {p} : server'[q] = server[q]
      BY <1>1, EndedEffect, AnswerIs
    <3>2. ASSUME NEW a, Hears(p, FALSE, a), a.state = "serving"
          PROVE  a.shown = server[p].shown
      <4>1. Off.state # "serving"
        BY DEF Off
      <4> QED
        BY <3>2, <4>1 DEF Hears
    <3>3. server'[p].state = "serving" => server'[p].shown = server[p].shown
      <4>1. Hears(p, FALSE, server'[p])
        BY <3>1
      <4> QED
        BY <3>2, <4>1
    <3> QED
      BY <3>1, <3>3
  <2>3. \A q \in Process : server'[q].shown \in SUBSET Item
    BY <1>1, EndedEffect DEF ServerType
  <2>4. ASSUME NEW q \in Process,
               server'[q].state = "serving", server'[q].generation = row'.generation,
               NEW i \in server'[q].shown
        PROVE  items'[i].at = "ground"
    BY <1>6, <2>2, <2>3, <2>4 DEF Grounds
  <2> QED
    BY <1>6, <2>4 DEF Grounds
<1> QED
  BY <1>2, <1>3, <1>4, <1>5, <1>7, <1>8 DEF Rest

(* A commit: what holds of it whichever request it is.                     *)
LEMMA CommitFrame ==
  ASSUME ChannelInv, NEW p \in Process, Waits(p, "commit"), Stored(p),
         NEW ok \in BOOLEAN, NEW g \in Nat, Ended(p, ok, g)
  PROVE  /\ tx[p] # None /\ tx[p] \in Transaction
         /\ JudgedOf(p) /\ FoundOf(p) /\ LocksOf(p) /\ HoldsRows(p)
         /\ tx[p].op # "pickup" => HoldsChannel(p)
         /\ UNCHANGED <<clock, queue>>
         /\ row' = (IF tx[p].op \in ItemOp THEN row ELSE tx[p].sets)
         /\ \A i \in Item :
              items'[i] = IF i \in tx[p].takes
                          THEN To(tx[p].op, tx[p].sets.generation) ELSE items[i]
         /\ Locks' /\ Phases' /\ Renews' /\ OneRequest'
         /\ \A q \in Process : server'[q].sent <= clock
         /\ Judged'
<1> USE DEF ChannelInv
<1>1. /\ tx[p] # None /\ tx[p] \in Transaction /\ tx[p].stage = "commit"
      /\ JudgedOf(p) /\ FoundOf(p) /\ LocksOf(p)
  BY TxIs DEF Waits, Judged, Locks
<1>2. HoldsRows(p) /\ (tx[p].op # "pickup" => HoldsChannel(p))
  BY <1>1 DEF HoldsRows, HoldsChannel
<1>3. /\ UNCHANGED <<clock, queue>>
      /\ row' = (IF tx[p].op \in ItemOp THEN row ELSE tx[p].sets)
      /\ \A i \in Item :
           items'[i] = IF i \in tx[p].takes
                       THEN To(tx[p].op, tx[p].sets.generation) ELSE items[i]
  BY DEF Stored
<1>4. /\ Locks' /\ Phases' /\ Renews' /\ OneRequest'
      /\ \A q \in Process : server'[q].sent <= clock
  BY <1>1, <1>3, EndedStep
<1>5. /\ tx'[p] = None /\ \A q \in Process \ {p} : tx'[q] = tx[q]
      /\ \A q \in Process \ {p} : server'[q] = server[q]
  BY <1>1, EndedEffect
<1>6. JudgedOf(p)' /\ FoundOf(p)'
  BY <1>5 DEF JudgedOf, FoundOf, HoldsChannel, HoldsRows
<1>7. ASSUME NEW q \in Process \ {p} PROVE JudgedOf(q)' /\ FoundOf(q)'
  <2>1. JudgedOf(q) /\ FoundOf(q) /\ LocksOf(q)
    BY DEF Judged, Locks
  <2>2. (HoldsChannel(q)' => HoldsChannel(q)) /\ (HoldsRows(q)' => HoldsRows(q))
    BY <1>5 DEF HoldsChannel, HoldsRows
  <2>3. JudgedOf(q)'
    <3>1. CASE tx[p].op # "pickup"
      <4>1. ~HoldsChannel(q)
        BY <1>1, <1>2, <2>1, <3>1 DEF LocksOf
      <4> QED
        BY <2>2, <4>1 DEF JudgedOf
    <3>2. CASE tx[p].op = "pickup"
      <4>1. row' = row /\ \A i \in Item : items'[i].at = "ground" => items[i].at = "ground"
        BY <1>3, <3>2 DEF To, ItemOp
      <4> QED
        BY <1>3, <1>5, <2>1, <2>2, <4>1 DEF JudgedOf
    <3> QED
      BY <3>1, <3>2
  <2>4. FoundOf(q)'
    <3>1. HoldsRows(q) => tx[q].takes \in SUBSET Item
      BY TxIs DEF HoldsRows, Transaction
    <3>2. HoldsRows(q) => \A i \in tx[q].takes : items'[i] = items[i]
      BY <1>1, <1>2, <1>3, <2>1, <3>1 DEF LocksOf
    <3> QED
      BY <1>5, <2>1, <2>2, <3>2 DEF FoundOf
  <2> QED
    BY <2>3, <2>4
<1>8. Judged'
  BY <1>6, <1>7 DEF Judged
<1> QED
  BY <1>1, <1>2, <1>3, <1>4, <1>8

(* The channel is claimed: the generation is new, and the ground is bare.  *)
LEMMA CommitClaim ==
  ASSUME ChannelInv, NEW p \in Process, Waits(p, "commit"), Stored(p),
         NEW ok \in BOOLEAN, NEW g \in Nat, Ended(p, ok, g), tx[p].op = "claim"
  PROVE  Rest' /\ row'.generation = row.generation + 1 /\ row.expires <= clock
<1> USE DEF ChannelInv
<1> DEFINE t == tx[p]
<1>1. /\ t # None /\ t \in Transaction
      /\ t.sets.generation = row.generation + 1
      /\ t.sets.expires <= clock + Expiry /\ row.expires <= clock
      /\ \A i \in Item : items[i].at = "ground" => i \in t.takes
      /\ server[p].state = "claiming" => FromRequest(server[p].sent) <= t.sets.expires
      /\ UNCHANGED <<clock, queue>> /\ row' = t.sets
      /\ \A i \in Item : items'[i] = IF i \in t.takes
                                     THEN [at |-> "retired", stamp |-> 0] ELSE items[i]
      /\ Locks' /\ Phases' /\ Renews' /\ OneRequest' /\ Judged'
      /\ \A q \in Process : server'[q].sent <= clock
  BY CommitFrame DEF JudgedOf, To, ItemOp
<1>2. /\ row.generation \in Nat /\ clock \in Nat /\ row.expires \in Int /\ Expiry \in Nat
      /\ t.sets.generation \in Nat /\ row'.generation = row.generation + 1
  BY <1>1, Numbers DEF Transaction, Row
<1>3. Times'
  BY <1>1 DEF Times
<1>4. Deadlines'
  <2>1. \A q \in Process, h \in Nat, d \in Int :
          Uses(q, h) /\ Backed(h, d) => BackedThen(h, d)
    BY <1>1, <1>2 DEF Backed, BackedThen
  <2>2. server[p].state = "claiming" =>
          BackedThen(t.sets.generation, FromRequest(server[p].sent))
    BY <1>1 DEF BackedThen
  <2> QED
    BY <1>1, <2>1, <2>2, EndedDeadlines
<1>5. /\ \A q \in Process, h \in Nat :
           (Names(q, h)' \/ Uses(q, h)') =>
             \/ Names(q, h) /\ (Uses(q, h)' => Uses(q, h))
             \/ q = p /\ h = row.generation + 1
      /\ \A q \in Process, i \in Item : Touches(q, i)' => Touches(q, i)
      /\ \A q \in Process :
           server'[q].state = "serving" =>
             /\ server[q].state = "serving"
             /\ server'[q].generation = server[q].generation
  BY <1>1, EndedNames
<1>6. Issued'
  BY <1>2, <1>5 DEF Issued
<1>7. OneUser'
  <2> SUFFICES ASSUME NEW q \in Process, NEW r \in Process, NEW h \in Nat,
                      Uses(q, h)', Names(r, h)'
               PROVE  q = r
    BY DEF OneUser
  <2>1. CASE h <= row.generation
    BY <1>2, <1>5, <2>1 DEF OneUser
  <2>2. CASE ~(h <= row.generation)
    BY <1>2, <1>5, <2>2 DEF Issued
  <2> QED
    BY <2>1, <2>2
<1>8. Grounds'
  <2>1. \A i \in Item : items'[i].at # "ground"
    BY <1>1
  <2>2. \A q \in Process : server'[q].state = "serving" =>
          server'[q].generation # row'.generation
    <3>1. \A q \in Process : server[q].generation \in Nat
      BY ServerIs DEF ServerType
    <3>2. \A q \in Process : server[q].state = "serving" =>
            server[q].generation <= row.generation
      BY <3>1 DEF Issued, Names
    <3> QED
      BY <1>2, <1>5, <3>1, <3>2
  <2>3. \A i \in Item : /\ items[i].at = "retired" => items'[i].at = "retired"
                        /\ items[i].at # "owned" => items'[i].at # "owned"
    BY <1>1
  <2> QED
    BY <1>5, <2>1, <2>2, <2>3 DEF Grounds
<1> QED
  BY <1>1, <1>2, <1>3, <1>4, <1>6, <1>7, <1>8 DEF Rest

(* The row is renewed by whoever holds it.                                 *)
LEMMA CommitRenew ==
  ASSUME ChannelInv, NEW p \in Process, Waits(p, "commit"), Stored(p),
         NEW ok \in BOOLEAN, NEW g \in Nat, Ended(p, ok, g),
         tx[p].op \in {"renew", "release", "shutdown"}
  PROVE  Rest' /\ row'.generation = row.generation
<1> USE DEF ChannelInv
<1> DEFINE t == tx[p]
<1>1. /\ t # None /\ t \in Transaction /\ t.takes = {}
      /\ t.sets.generation = row.generation
      /\ t.op = "renew" =>
           /\ t.sets.expires <= clock + Expiry /\ row.expires <= t.sets.expires
           /\ server[p].renewal = "sent" =>
                FromRequest(server[p].sent) <= t.sets.expires
      /\ t.op # "renew" => t.sets.expires <= clock
      /\ UNCHANGED <<clock, queue>> /\ row' = t.sets
      /\ \A i \in Item : items'[i] = items[i]
      /\ Locks' /\ Phases' /\ Renews' /\ OneRequest' /\ Judged'
      /\ \A q \in Process : server'[q].sent <= clock
  BY CommitFrame DEF JudgedOf, LocksOf, ItemOp
<1>2. /\ row.generation \in Nat /\ clock \in Nat /\ row.expires \in Int /\ Expiry \in Nat
      /\ t.sets.expires \in Int
  BY <1>1, Numbers DEF Transaction, Row
<1>3. Times'
  BY <1>1, <1>2 DEF Times
<1>4. Deadlines'
  <2>1. \A q \in Process, h \in Nat, d \in Int :
          Uses(q, h) /\ Backed(h, d) => BackedThen(h, d)
    <3>1. CASE t.op = "renew"
      BY <1>1, <1>2, <3>1 DEF Backed, BackedThen
    <3>2. CASE t.op # "renew"
      <4>1. Names(p, row.generation)
        BY <1>1, <3>2 DEF Names
      <4>2. server[p].state \notin {"claimed", "serving"}
        BY <1>1, <3>2 DEF Phases, PhaseOf, Asks
      <4>3. \A q \in Process : ~Uses(q, row.generation)
        BY <1>2, <4>1, <4>2 DEF OneUser, Uses
      <4> QED
        BY <1>1, <1>2, <4>3 DEF Backed, BackedThen
    <3> QED
      BY <3>1, <3>2
  <2>2. t.op = "renew" /\ server[p].renewal = "sent" =>
          BackedThen(server[p].generation, FromRequest(server[p].sent))
    <3>1. server[p].renewal = "sent" => server[p].state = "serving"
      BY DEF Phases, PhaseOf
    <3>2. t.op = "renew" /\ server[p].state = "serving" =>
            t.sets.generation = server[p].generation
      BY <1>1 DEF Phases, PhaseOf
    <3> QED
      BY <1>1, <3>1, <3>2 DEF BackedThen
  <2> QED
    BY <1>1, <2>1, <2>2, EndedDeadlines
<1>5. /\ \A q \in Process, h \in Nat : (Names(q, h)' \/ Uses(q, h)') =>
           Names(q, h) /\ (Uses(q, h)' => Uses(q, h))
      /\ \A q \in Process, i \in Item : Touches(q, i)' => Touches(q, i)
      /\ \A q \in Process :
           server'[q].state = "serving" =>
             /\ server[q].state = "serving"
             /\ server'[q].generation = server[q].generation
  BY <1>1, EndedNames
<1>6. Issued' /\ OneUser'
  BY <1>1, <1>5 DEF Issued, OneUser
<1>7. Grounds'
  <2>1. \A q \in Process : server'[q].state = "serving" => server'[q].shown = server[q].shown
    <3>1. /\ Hears(p, ok, server'[p])
          /\ \A q \in Process \ {p} : server'[q] = server[q]
      BY <1>1, EndedEffect, AnswerIs
    <3>2. Off.state # "serving"
      BY DEF Off
    <3>3. server'[p].state = "serving" => server'[p].shown = server[p].shown
      BY <3>1, <3>2 DEF Hears, ItemOp
    <3> QED
      BY <3>1, <3>3
  <2>2. row'.generation = row.generation
    BY <1>1
  <2>3. \A q \in Process : server[q].shown \in SUBSET Item
    BY ServerIs DEF ServerType
  <2>4. ASSUME NEW q \in Process,
               server'[q].state = "serving", server'[q].generation = row'.generation,
               NEW i \in server'[q].shown
        PROVE  items'[i].at = "ground"
    BY <1>1, <1>5, <2>1, <2>2, <2>3, <2>4 DEF Grounds
  <2> QED
    BY <1>1, <1>5, <2>2, <2>4 DEF Grounds
<1> QED
  BY <1>1, <1>3, <1>4, <1>6, <1>7 DEF Rest

(* A drop, a pickup or a retirement is stored, and answered.               *)
LEMMA CommitItem ==
  ASSUME ChannelInv, NEW p \in Process, Waits(p, "commit"), Stored(p),
         NEW ok \in BOOLEAN, ok, NEW g \in Nat, Ended(p, ok, g),
         tx[p].op \in ItemOp
  PROVE  Rest' /\ row' = row
<1> USE DEF ChannelInv
<1> DEFINE t == tx[p]
<1>1. /\ t # None /\ t \in Transaction /\ t.takes \in SUBSET Item
      /\ t.op # "pickup" => t.sets.generation = row.generation
      /\ \A i \in t.takes : items[i].at = From(t.op)
      /\ UNCHANGED <<clock, queue>> /\ row' = row
      /\ \A i \in Item : items'[i] = IF i \in t.takes
                                     THEN To(t.op, t.sets.generation) ELSE items[i]
      /\ Locks' /\ Phases' /\ Renews' /\ OneRequest' /\ Judged'
      /\ \A q \in Process : server'[q].sent <= clock
  BY CommitFrame DEF JudgedOf, FoundOf, Transaction, ItemOp
<1>2. Times'
  BY <1>1 DEF Times
<1>3. Deadlines'
  <2>1. \A q \in Process, h \in Nat, d \in Int :
          Uses(q, h) /\ Backed(h, d) => BackedThen(h, d)
    BY <1>1 DEF Backed, BackedThen
  <2> QED
    BY <1>1, <2>1, EndedDeadlines DEF ItemOp
<1>4. /\ \A q \in Process, h \in Nat : (Names(q, h)' \/ Uses(q, h)') =>
           Names(q, h) /\ (Uses(q, h)' => Uses(q, h))
      /\ \A q \in Process, i \in Item :
           Touches(q, i)' =>
             \/ Touches(q, i) /\ (q = p /\ Changes(p, i) => t.op = "drop")
             \/ q = p /\ t.op = "drop" /\ Changes(p, i)
      /\ \A q \in Process :
           server'[q].state = "serving" =>
             /\ server[q].state = "serving"
             /\ server'[q].generation = server[q].generation
  <2>1. t.op # "claim" /\ t.op \in {"drop", "pickup", "retire"}
    BY DEF ItemOp
  <2>2. \A q \in Process, i \in Item :
              Touches(q, i)' =>
                \/ Touches(q, i) /\ (q = p => ~(t.op \in {"pickup", "retire"}
                                                /\ Changes(p, i)))
                \/ q = p /\ t.op = "drop" /\ Changes(p, i)
    BY <1>1, EndedNames
  <2> QED
    BY <1>1, <2>1, <2>2, EndedNames
<1>5. Issued' /\ OneUser'
  BY <1>1, <1>4 DEF Issued, OneUser
<1>6. \A i \in Item : Changes(p, i) <=> i \in t.takes
  BY DEF Changes
<1>8. Grounds'
  <2>1. CASE t.op = "drop"
    <3>1. \A i \in Item : items'[i] = IF i \in t.takes
            THEN [at |-> "ground", stamp |-> row.generation] ELSE items[i]
      BY <1>1, <2>1 DEF To
    <3>2. \A i \in t.takes : items[i].at = "owned"
      BY <1>1, <2>1 DEF From
    <3>3. \A q \in Process, i \in Item : i \in t.takes => ~Touches(q, i)
      BY <3>2 DEF Grounds
    <3>4. \A q \in Process, i \in Item :
            Touches(q, i)' => (Touches(q, i) /\ i \notin t.takes) \/ (q = p /\ i \in t.takes)
      BY <1>4, <1>6, <3>3
    <3>5. ASSUME NEW q \in Process,
                 server'[q].state = "serving", server'[q].generation = row'.generation,
                 NEW i \in Item, i \in server'[q].shown
          PROVE  items'[i].at = "ground"
      <4>1. Touches(q, i)'
        BY <3>5 DEF Touches
      <4>2. CASE i \in t.takes
        BY <3>1, <4>2
      <4>3. CASE i \notin t.takes
        <5>1. i \in server[q].shown
          <6>1. /\ Hears(p, ok, server'[p])
                /\ \A r \in Process \ {p} : server'[r] = server[r]
            BY <1>1, EndedHears
          <6>2. Off.state # "serving"
            BY DEF Off
          <6> QED
            BY <2>1, <3>5, <4>3, <6>1, <6>2 DEF Hears, ItemOp
        <5> QED
          BY <1>1, <1>4, <3>1, <3>5, <4>3, <5>1 DEF Grounds
      <4> QED
        BY <4>2, <4>3
    <3>6. \A q \in Process : server'[q].shown \in SUBSET Item
      BY <1>1, EndedEffect DEF ServerType
    <3>7. \A i \in Item : items'[i].at = "ground" => items'[i].stamp = row'.generation
      BY <1>1, <3>1 DEF Grounds
    <3>8. \A q \in Process, i \in Item : Touches(q, i)' => items'[i].at # "owned"
      BY <3>1, <3>4 DEF Grounds
    <3>9. \A q, r \in Process, i \in Item :
            Touches(q, i)' /\ Touches(r, i)' => q = r \/ items'[i].at = "retired"
      BY <3>1, <3>4 DEF Grounds
    <3> QED
      BY <3>5, <3>6, <3>7, <3>8, <3>9 DEF Grounds
  <2>2. CASE t.op \in {"pickup", "retire"}
    <3>1. PICK to : /\ to.at \in {"owned", "retired"}
                    /\ \A i \in Item : items'[i] = IF i \in t.takes THEN to ELSE items[i]
      <4>1. To(t.op, t.sets.generation).at \in {"owned", "retired"}
        BY <2>2 DEF To
      <4> QED
        BY <1>1, <4>1
    <3>2. \A i \in t.takes : items[i].at = "ground" /\ Touches(p, i)
      BY <1>1, <1>6, <2>2 DEF From, Touches
    <3>3. \A q \in Process, i \in Item : Touches(q, i)' => Touches(q, i) /\ i \notin t.takes
      <4>1. ASSUME NEW q \in Process, NEW i \in Item, Touches(q, i)', i \in t.takes
            PROVE  FALSE
        <5>1. q # p /\ Touches(q, i)
          BY <1>4, <1>6, <2>2, <4>1
        <5>2. items[i].at = "retired"
          BY <3>2, <4>1, <5>1 DEF Grounds
        <5> QED
          BY <3>2, <4>1, <5>2
      <4> QED
        BY <1>4, <2>2, <4>1
    <3>4. ASSUME NEW q \in Process,
                 server'[q].state = "serving", server'[q].generation = row'.generation,
                 NEW i \in Item, i \in server'[q].shown
          PROVE  items'[i].at = "ground"
      <4>1. Touches(q, i)'
        BY <3>4 DEF Touches
      <4>2. i \notin t.takes
        BY <3>3, <4>1
      <4>3. i \in server[q].shown
        <5>1. /\ Hears(p, ok, server'[p])
              /\ \A r \in Process \ {p} : server'[r] = server[r]
          BY <1>1, EndedHears
        <5>2. Off.state # "serving"
          BY DEF Off
        <5> QED
          BY <2>2, <3>4, <5>1, <5>2 DEF Hears, ItemOp
      <4> QED
        BY <1>1, <1>4, <3>1, <3>4, <4>2, <4>3 DEF Grounds
    <3>5. \A q \in Process : server'[q].shown \in SUBSET Item
      BY <1>1, EndedEffect DEF ServerType
    <3>6. \A i \in Item : items'[i].at = "ground" => items'[i] = items[i]
      BY <3>1
    <3>7. \A i \in Item : items'[i].at = "ground" => items'[i].stamp = row'.generation
      BY <1>1, <3>6 DEF Grounds
    <3>8. \A q \in Process, i \in Item : Touches(q, i)' => items'[i] = items[i]
      BY <3>1, <3>3
    <3> QED
      BY <3>3, <3>4, <3>5, <3>7, <3>8 DEF Grounds
  <2> QED
    BY <2>1, <2>2 DEF ItemOp
<1> QED
  BY <1>1, <1>2, <1>3, <1>5, <1>8 DEF Rest

-----------------------------------------------------------------------------
(***************************************************************************)
(* The invariant.                                                          *)
(***************************************************************************)
LEMMA CommitStep ==
  ASSUME ChannelInv, NEW p \in Process, Commit(p) \/ CommitLost(p)
  PROVE  Rest'
<1>1. PICK ok \in BOOLEAN, g \in Nat :
        /\ Waits(p, "commit") /\ Stored(p) /\ tx[p] # None
        /\ Ended(p, ok, g) /\ (tx[p].op \in ItemOp => ok)
  BY CommitEnds DEF ChannelInv
<1>2. tx[p].op \in {"claim", "renew", "release", "shutdown"} \cup ItemOp
  BY <1>1, TxOps DEF ChannelInv
<1> QED
  BY <1>1, <1>2, CommitClaim, CommitRenew, CommitItem

(* The lock of the channel is given to whoever waits for it.               *)
LEMMA LockChannelStep ==
  ASSUME ChannelInv, NEW p \in Process, LockChannel(p)
  PROVE  Rest'
<1>1. tx[p] # None /\ UNCHANGED <<clock, row, items, queue>>
  BY DEF LockChannel, Waits
<1>2. CASE Rejected(p)
  BY <1>1, <1>2, RejectedStep
<1>3. CASE tx[p].op = "claim" /\ Claims(p) /\ ~Rejected(p)
  BY <1>3, ClaimsStep
<1>4. CASE tx[p].op # "claim" /\ Live(p) /\ Continues(p) /\ Holds(p)
  BY <1>4, ContinuesStep
<1> QED
  BY <1>2, <1>3, <1>4 DEF LockChannel

(* All rows of a transaction are locked.                                   *)
LEMMA RowsLockedAll ==
  ASSUME ChannelInv, NEW p \in Process, RowsLocked(p)
  PROVE  Rest'
<1>1. /\ tx[p] # None /\ Waits(p, "rows") /\ UNCHANGED <<clock, row, items, queue>>
      /\ \A i \in tx[p].takes : claimed[i] = p
  BY DEF RowsLocked, Waits
<1>2. CASE Rejected(p)
  BY <1>1, <1>2, RejectedStep
<1>3. CASE ~Rejected(p)
  BY <1>1, <1>3, RowsLockedStep DEF RowsLocked
<1> QED
  BY <1>2, <1>3

(* The invariant holds at first.                                           *)
LEMMA InvInit == Init => ChannelInv
<1> SUFFICES ASSUME Init PROVE ChannelInv
  OBVIOUS
<1>1. TypeOK
  BY TypeInit
<1>2. /\ \A p \in Process : server[p] = Off /\ queue[p] = <<>> /\ tx[p] = None
      /\ \A p \in Process : tx[p].op = "none" /\ DOMAIN queue[p] = {}
      /\ locked = Nobody /\ clock = 0 /\ row = [generation |-> 0, expires |-> 0]
      /\ \A i \in Item : items[i].at = "owned"
  BY DEF Init, None
<1>3. Nobody \notin Process /\ Expiry \in Nat
  BY <1>1, Numbers
<1>4. Locks /\ Judged
  BY <1>2, <1>3 DEF Locks, LocksOf, HoldsChannel, HoldsRows, Judged, JudgedOf, FoundOf
<1>5. Times
  BY <1>2, <1>3 DEF Times, Off
<1>6. Phases /\ Renews /\ OneRequest
  BY <1>2 DEF Phases, PhaseOf, Renews, RenewsOf, OneRequest, OneRequestOf, Wants,
              Changes, Off, ItemOp
<1>7. Deadlines /\ Issued /\ OneUser
  BY <1>2 DEF Deadlines, DeadlinesOf, Issued, OneUser, Names, Uses, Off
<1>8. Grounds
  BY <1>2 DEF Grounds, Touches, Changes, ItemOp, Off
<1> QED
  BY <1>1, <1>4, <1>5, <1>6, <1>7, <1>8 DEF ChannelInv

(* Every step keeps the invariant.                                         *)
LEMMA InvStep == ChannelInv /\ [Next]_vars => ChannelInv'
<1> SUFFICES ASSUME ChannelInv, [Next]_vars PROVE ChannelInv'
  OBVIOUS
<1>1. TypeOK'
  BY TypeStep DEF ChannelInv
<1>2. CASE UNCHANGED vars
  <2>1. UNCHANGED <<clock, row, items, locked, claimed, server, queue, tx>>
    BY <1>2 DEF vars
  <2>2. Locks'
    BY <2>1 DEF ChannelInv, Locks, LocksOf, HoldsChannel, HoldsRows
  <2>3. Times'
    BY <2>1 DEF ChannelInv, Times
  <2>4. Judged'
    BY <2>1 DEF ChannelInv, Judged, JudgedOf, FoundOf, HoldsChannel, HoldsRows
  <2>5. Phases'
    BY <2>1 DEF ChannelInv, Phases, PhaseOf
  <2>6. Renews'
    BY <2>1 DEF ChannelInv, Renews, RenewsOf
  <2>7. OneRequest'
    BY <2>1 DEF ChannelInv, OneRequest, OneRequestOf, Wants, Changes
  <2>8. Deadlines'
    BY <2>1 DEF ChannelInv, Deadlines, DeadlinesOf, Backed
  <2>9. Issued' /\ OneUser'
    BY <2>1 DEF ChannelInv, Issued, OneUser, Names, Uses
  <2>10. Grounds'
    BY <2>1 DEF ChannelInv, Grounds, Touches, Wants, Changes
  <2> QED
    BY <1>1, <2>2, <2>3, <2>4, <2>5, <2>6, <2>7, <2>8, <2>9, <2>10 DEF ChannelInv
<1>3. CASE Tick
  BY <1>1, <1>3, TickStep DEF ChannelInv, Rest
<1>4. ASSUME NEW p \in Process,
             \/ Start(p) \/ ClaimAnswered(p) \/ ClaimRefused(p) \/ Shutdown(p) \/ Crash(p)
             \/ SendRenew(p) \/ RenewalExtends(p) \/ RenewalEnds(p) \/ Drain(p)
             \/ \E op \in ItemOp, i \in Item : AskItem(p, op, i)
      PROVE  Rest'
  BY <1>4, StartStep, ClaimAnsweredStep, StopsStep, ShutdownStep, SendRenewStep,
     RenewalStep, DrainStep, AskItemStep
<1>5. ASSUME NEW p \in Process,
             \/ Begin(p) \/ LockChannel(p) \/ RowsLocked(p)
             \/ \E i \in Item : LockRow(p, i)
             \/ Commit(p) \/ CommitLost(p) \/ Abort(p)
      PROVE  Rest'
  <2>1. CASE Abort(p)
    BY <2>1, RejectedStep DEF Abort
  <2> QED
    BY <1>5, <2>1, BeginStep, LockChannelStep, RowsLockedAll, LockRowStep, CommitStep
<1>6. CASE Next
  <2>1. Tick \/ Rest'
    BY <1>4, <1>5, <1>6 DEF Next
  <2> QED
    BY <1>1, <1>3, <2>1 DEF ChannelInv, Rest
<1> QED
  BY <1>2, <1>6

(* The invariant holds always.                                             *)
LEMMA Invariance == Spec => []ChannelInv
  BY InvInit, InvStep, PTL DEF Spec

(* Whoever acts does so under the generation of the row, which is live.    *)
LEMMA ActsUnderTheRow ==
  ASSUME ChannelInv, NEW p \in Process, Acts(p)
  PROVE  /\ server[p].generation = row.generation /\ row.expires > clock
         /\ Uses(p, row.generation) /\ Names(p, row.generation)
<1>1. server[p].state = "serving" /\ clock < server[p].deadline
  BY DEF Acts, StillAuthorizes
<1>2. /\ clock \in Nat /\ row.expires \in Int /\ server[p].deadline \in Int
  BY Numbers, ServerIs DEF ServerType, ChannelInv
<1>3. Backed(server[p].generation, server[p].deadline)
  BY <1>1 DEF ChannelInv, Deadlines, DeadlinesOf
<1> QED
  BY <1>1, <1>2, <1>3 DEF Backed, Uses, Names

(* At most one process acts for the channel and the ground is of its       *)
(* generation, for any number of processes and items, any expiry and any   *)
(* capacity of the queues.                                                 *)
THEOREM ChannelStaysSound == Spec => []ChannelIsSound
<1>1. ChannelInv => ChannelIsSound
  <2> SUFFICES ASSUME ChannelInv PROVE ChannelIsSound
    OBVIOUS
  <2>1. OneActs
    <3>1. row.generation \in Nat
      BY Numbers DEF ChannelInv
    <3>2. \A p, q \in Process : Acts(p) /\ Acts(q) => p = q
      BY <3>1, ActsUnderTheRow DEF ChannelInv, OneUser
    <3> QED
      BY <3>2, ActsUnderTheRow DEF OneActs
  <2>2. GroundIsCurrent
    <3>1. \A p \in Process : Acts(p) =>
            server[p].state = "serving" /\ server[p].generation = row.generation
      BY ActsUnderTheRow DEF Acts
    <3> QED
      BY <3>1 DEF ChannelInv, Grounds, GroundIsCurrent
  <2> QED
    BY <2>1, <2>2 DEF ChannelInv, ChannelIsSound
<1> QED
  BY <1>1, Invariance, PTL

-----------------------------------------------------------------------------
(***************************************************************************)
(* The channel implements FencedLease.                                     *)
(***************************************************************************)
SomeoneActs == \E p \in Process : Acts(p)

(* The holder is nobody or the generation of the row.                      *)
HolderIsRow == Holder = IF SomeoneActs THEN row.generation ELSE 0

(* The holder of the abstract lease is the generation of the row.          *)
LEMMA HolderIs == ChannelInv => HolderIsRow
<1> SUFFICES ASSUME ChannelInv PROVE HolderIsRow
  OBVIOUS
<1>1. CASE SomeoneActs
  <2> DEFINE h == CHOOSE p \in Process : Acts(p)
  <2>1. h \in Process /\ Acts(h)
    BY <1>1 DEF SomeoneActs
  <2>2. server[h].generation = row.generation
    <3> HIDE DEF h
    <3> QED
      BY <2>1, ActsUnderTheRow
  <2> QED
    BY <1>1, <2>2 DEF Holder, SomeoneActs, HolderIsRow
<1>2. CASE ~SomeoneActs
  BY <1>2 DEF Holder, SomeoneActs, HolderIsRow
<1> QED
  BY <1>1, <1>2

(* The same of the state after a step.                                     *)
LEMMA HolderIsNext ==
  ChannelInv' => Holder' = IF SomeoneActs' THEN row'.generation ELSE 0
<1>1. ChannelInv' => HolderIsRow'
  BY HolderIs, PTL
<1> QED
  BY <1>1 DEF HolderIsRow

(* While the generation and the writes stay, the holder can only come or   *)
(* go.                                                                     *)
LEMMA HolderMoves ==
  ASSUME ChannelInv, ChannelInv', row'.generation = row.generation, UNCHANGED wrote
  PROVE  [Fenced!Next]_(Fenced!vars)
<1>1. Holder \in {0, row.generation} /\ Holder' \in {0, row.generation}
  BY HolderIs, HolderIsNext DEF HolderIsRow
<1>2. CASE Holder' = Holder
  BY <1>2 DEF Fenced!vars
<1>3. CASE Holder = 0 /\ Holder' = row.generation
  BY <1>3 DEF Fenced!Next, Fenced!Take
<1>4. CASE Holder' = 0
  BY <1>4 DEF Fenced!Next, Fenced!Drop
<1> QED
  BY <1>1, <1>2, <1>3, <1>4

(* The end of a transaction lets nobody act, and that of a request about   *)
(* an item stops nobody.                                                   *)
LEMMA EndedActs ==
  ASSUME ChannelInv, NEW p \in Process, tx[p] # None, NEW ok \in BOOLEAN,
         NEW g \in Nat, Ended(p, ok, g), UNCHANGED clock
  PROVE  /\ SomeoneActs' => SomeoneActs
         /\ tx[p].op \in ItemOp => (SomeoneActs' <=> SomeoneActs)
<1>1. /\ Hears(p, ok, server'[p])
      /\ \A q \in Process \ {p} : server'[q] = server[q]
  BY EndedHears
<1>2. /\ server'[p].state = "serving" =>
           server[p].state = "serving" /\ server'[p].deadline = server[p].deadline
      /\ tx[p].op \in ItemOp =>
           /\ server[p].state = "serving" => server'[p].state = "serving"
           /\ server'[p].deadline = server[p].deadline
  BY <1>1 DEF Hears, Off, ItemOp
<1>3. \A q \in Process : /\ Acts(q)' => Acts(q)
                         /\ tx[p].op \in ItemOp => (Acts(q)' <=> Acts(q))
  BY <1>1, <1>2 DEF Acts, StillAuthorizes
<1> QED
  BY <1>3 DEF SomeoneActs

(* A claim issues a generation, what is dropped or expires is a write of   *)
(* the one that is current, and no other commit shows.                     *)
LEMMA CommitImplements ==
  ASSUME ChannelInv, ChannelInv', NEW p \in Process, Commit(p) \/ CommitLost(p)
  PROVE  [Fenced!Next]_(Fenced!vars)
<1>1. PICK ok \in BOOLEAN, g \in Nat :
        /\ Waits(p, "commit") /\ Stored(p) /\ tx[p] # None
        /\ Ended(p, ok, g) /\ (tx[p].op \in ItemOp => ok)
  BY CommitEnds DEF ChannelInv
<1>2. /\ tx[p].op \in {"claim", "renew", "release", "shutdown"} \cup ItemOp
      /\ UNCHANGED clock /\ JudgedOf(p)
      /\ tx[p].op # "pickup" => HoldsChannel(p)
  BY <1>1, TxOps, CommitFrame DEF ChannelInv
<1>3. /\ SomeoneActs' => SomeoneActs
      /\ tx[p].op \in ItemOp => (SomeoneActs' <=> SomeoneActs)
  BY <1>1, <1>2, EndedActs
<1>4. wrote' = Written(tx[p].op, tx[p].sets.generation)
  BY <1>1 DEF Stored
<1>5. CASE tx[p].op = "claim"
  <2>1. row'.generation = row.generation + 1 /\ row.expires <= clock
    BY <1>1, <1>5, CommitClaim
  <2>2. ~SomeoneActs
    <3>1. clock \in Nat /\ row.expires \in Int
      BY Numbers DEF ChannelInv
    <3> QED
      BY <2>1, <3>1, ActsUnderTheRow DEF SomeoneActs
  <2>3. Holder = 0 /\ Holder' = 0
    BY <1>3, <2>2, HolderIs, HolderIsNext DEF HolderIsRow
  <2>4. wrote' = wrote
    BY <1>4, <1>5 DEF Written
  <2> QED
    BY <2>1, <2>3, <2>4 DEF Fenced!Next, Fenced!Issue
<1>6. CASE tx[p].op \in {"renew", "release", "shutdown"}
  <2>1. row'.generation = row.generation
    BY <1>1, <1>6, CommitRenew
  <2>2. wrote' = wrote
    BY <1>4, <1>6 DEF Written
  <2> QED
    BY <2>1, <2>2, HolderMoves
<1>7. CASE tx[p].op \in ItemOp
  <2>1. row' = row
    BY <1>1, <1>2, <1>7, CommitItem
  <2>2. Holder' = Holder
    BY <1>3, <1>7, <2>1, HolderIs, HolderIsNext DEF HolderIsRow
  <2>3. CASE wrote' = wrote
    BY <2>1, <2>3, HolderMoves
  <2>4. CASE wrote' # wrote
    <3>1. tx[p].op \in {"drop", "retire"} /\ wrote' = Append(wrote, tx[p].sets.generation)
      BY <1>4, <2>4 DEF Written
    <3>2. tx[p].sets.generation = row.generation
      BY <1>2, <3>1 DEF JudgedOf
    <3>3. Fenced!Write("ground")
      <4>1. [c \in {"ground"} |-> wrote'] =
              [[c \in {"ground"} |-> wrote] EXCEPT !["ground"] = Append(@, row.generation)]
        BY <3>1, <3>2
      <4> QED
        BY <2>1, <2>2, <4>1 DEF Fenced!Write
    <3> QED
      BY <3>3 DEF Fenced!Next
  <2> QED
    BY <2>3, <2>4
<1> QED
  BY <1>2, <1>5, <1>6, <1>7

(* The initial states are those of FencedLease.                            *)
LEMMA FencedInit == Init => Fenced!Init
<1> SUFFICES ASSUME Init PROVE Fenced!Init
  OBVIOUS
<1>1. Holder = 0
  BY DEF Init, Holder, Acts, Off
<1> QED
  BY <1>1 DEF Init, Fenced!Init

(* Every step is one of FencedLease, or stutters.                          *)
LEMMA FencedStep ==
  ChannelInv /\ ChannelInv' /\ [Next]_vars => [Fenced!Next]_(Fenced!vars)
<1> SUFFICES ASSUME ChannelInv, ChannelInv', [Next]_vars
             PROVE  [Fenced!Next]_(Fenced!vars)
  OBVIOUS
<1>1. ASSUME NEW p \in Process, Commit(p) \/ CommitLost(p)
      PROVE  [Fenced!Next]_(Fenced!vars)
  BY <1>1, CommitImplements
<1>2. CASE UNCHANGED <<row, wrote>>
  BY <1>2, HolderMoves
<1>3. CASE UNCHANGED vars \/ Tick
  BY <1>2, <1>3 DEF vars, Tick, database
<1>4. ASSUME NEW p \in Process,
             \/ Start(p) \/ ClaimAnswered(p) \/ ClaimRefused(p) \/ Shutdown(p) \/ Crash(p)
             \/ SendRenew(p) \/ RenewalExtends(p) \/ RenewalEnds(p) \/ Drain(p)
             \/ \E op \in ItemOp, i \in Item : AskItem(p, op, i)
      PROVE  UNCHANGED <<row, wrote>>
  BY <1>4 DEF Start, ClaimAnswered, ClaimRefused, Shutdown, Crash, SendRenew,
              RenewalExtends, RenewalEnds, Drain, AskItem, database
<1>5. ASSUME NEW p \in Process,
             \/ Begin(p) \/ LockChannel(p) \/ RowsLocked(p) \/ Abort(p)
             \/ \E i \in Item : LockRow(p, i)
      PROVE  UNCHANGED <<row, wrote>>
  BY <1>5 DEF Begin, LockChannel, RowsLocked, Abort, LockRow
<1> QED
  BY <1>1, <1>2, <1>3, <1>4, <1>5 DEF Next

(* The channel implements FencedLease: a generation is issued only while   *)
(* nobody acts, who acts uses the last one issued, and what is dropped on  *)
(* the ground or expires there is written under the last one issued.       *)
THEOREM ChannelImplementsFencedLease == Spec => ChannelIsFenced
<1>1. Spec => Fenced!Init
  BY FencedInit DEF Spec
<1>2. Spec => [][Fenced!Next]_(Fenced!vars)
  BY Invariance, FencedStep, PTL DEF Spec
<1> QED
  BY <1>1, <1>2, PTL DEF ChannelIsFenced, Fenced!Spec
=============================================================================
