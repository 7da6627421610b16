-------------------------- MODULE DurableCommandsProofs --------------------------
(***************************************************************************)
(* Theorems about DurableCommands, for every number of commands, snapshots *)
(* and failures and every capacity of the queue.                           *)
(***************************************************************************)
EXTENDS DurableCommands, WellFoundedInduction, TLAPS

-----------------------------------------------------------------------------
(***************************************************************************)
(* The inductive invariant.                                                *)
(***************************************************************************)
Slots == DOMAIN queue

(* Jobs that decide about the staged command or read its character.        *)
Carries(job) == job.op \in {"commit", "read"}

(* A job that carries is of the command or the reconcile that waits for it. *)
Fits(job) ==
  /\ answer = NoAnswer
  /\ job.op = "commit" =>
       command.at = "worker" /\ job.token = command.token /\ job.key = command.key
  /\ job.op = "read" => reconcile.stage = "reading"

(* A staged command is in one place: with the owner, in one job, in an     *)
(* answer, or in the reconcile that follows it; and only while the binding *)
(* is pending.                                                             *)
OneCommand ==
  /\ \A i, j \in Slots : Carries(queue[i]) /\ Carries(queue[j]) => i = j
  /\ \A a, b \in sending : Carries(a) /\ Carries(b) => a = b
  /\ \A a \in sending, i \in Slots : Carries(a) => ~Carries(queue[i])
  /\ \A a \in sending : Carries(a) => Fits(a)
  /\ \A i \in Slots : Carries(queue[i]) => Fits(queue[i])
  /\ answer # NoAnswer => answer.result # "none" /\ command.at = "worker"
  /\ command.at # "none" =>
       /\ binding.pending /\ reconcile.stage = "none"
       /\ command.token = used.commands /\ command.token \in Token
  /\ reconcile.stage # "none" =>
       binding.pending /\ command.at = "none" /\ reconcile.token \in Token
  /\ binding.pending => binding.in
  /\ \A a \in sending : a.op # "save"

(* The revisions the owner, the answers and the keys know are stored.      *)
Revisions ==
  /\ binding.committed <= store.revision /\ binding.committed <= binding.persistence
  /\ store.recorded <= store.revision
  /\ \A r \in reports : /\ r.committed => r.revision <= store.revision
                        /\ binding.in => r.revision <= binding.persistence
  /\ \A k \in store.keys : k.revision < store.revision
  /\ answer.result = "ok" => answer.revision <= store.revision
  /\ reconcile.stage # "none" => reconcile.revision <= store.revision
  /\ command.at # "none" => command.key.revision <= binding.persistence
  /\ store.revision <= binding.persistence + 1
  /\ binding.in /\ store.revision > binding.persistence => store.recorded < store.revision

(* The snapshots that are on their way, those of a logout included.        *)
IsSave(job) == job.op \in {"save", "logout"}
Coming(s) ==
  \/ s \in {parked, parking}
  \/ \E i \in Slots : IsSave(queue[i]) /\ queue[i].snapshot = s
  \/ \E a \in sending : IsSave(a) /\ a.snapshot = s

(* The last revision a snapshot can have.                                  *)
Last == IF binding.in THEN binding.persistence ELSE binding.persistence + 1

(* Their revisions and places grow together, and what is older than the    *)
(* stored place is not written any more.                                   *)
Places ==
  /\ store.place <= binding.place /\ store.recorded <= Last
  /\ \A s \in Snapshot : Coming(s) =>
       /\ s = NoSnapshot \/ s.revision > 0
       /\ s.revision <= Last /\ s.place <= binding.place
       /\ s.revision > store.recorded => s.place >= store.place
       /\ ~binding.in /\ s.revision = Last => s.place = binding.place
  /\ \A s, t \in Snapshot : Coming(s) /\ Coming(t) /\ s.revision <= t.revision
       => s.place <= t.place
  /\ ~binding.in /\ store.recorded = Last => store.place = binding.place

(* A character that left has its place stored or on its way.               *)
Leaving ==
  ~binding.in /\ ~binding.lost /\ used.failures = 0 =>
    \/ store.place = binding.place
    \/ \E s \in Snapshot : Coming(s) /\ s.revision = Last

(* Two snapshots have two revisions, and a reported one has arrived.       *)
Reported(n) == \E r \in reports : r.revision = n
Distinct ==
  binding.in =>
    /\ \A i, j \in Slots :
         /\ queue[i].op = "save" /\ queue[j].op = "save"
         /\ queue[i].snapshot.revision = queue[j].snapshot.revision
         => i = j
    /\ \A i \in Slots : queue[i].op = "save" =>
         /\ queue[i].snapshot.revision > 0
         /\ queue[i].snapshot.revision \notin {parked.revision, parking.revision}
         /\ ~Reported(queue[i].snapshot.revision)
    /\ parked # NoSnapshot =>
         /\ parked.revision > 0 /\ ~Reported(parked.revision)
         /\ parked.revision # parking.revision
    /\ parking # NoSnapshot => parking.revision > 0 /\ ~Reported(parking.revision)

(* The owner knows of every snapshot that is ahead of it.                  *)
Known ==
  binding.in =>
    /\ \A i \in Slots : queue[i].op = "save" =>
         \/ queue[i].snapshot.revision \in binding.queued
         \/ queue[i].snapshot.revision <= binding.committed
    /\ parked # NoSnapshot =>
         \/ parked.revision = binding.deferred
         \/ parked.revision <= binding.committed

DurableInv ==
  /\ TypeOK /\ OneCommand /\ Revisions /\ Places /\ Leaving /\ Distinct /\ Known

(* Either no snapshot is requested or no outcome is lost.                  *)
Realigns == MaxSaves # 0 /\ MaxLost # 0

(* Keys, effects and what World shows, where no command is realigned.      *)
Fresh ==
  /\ used.commands <= MaxCommands /\ used.saves <= MaxSaves /\ used.lost <= MaxLost
  /\ store.executed \subseteq 1 .. used.commands
  /\ \A t \in Token : t > used.commands => told[t] = "nothing"
  /\ command.at # "none" => told[command.token] = "nothing"
  /\ reconcile.stage # "none" =>
       told[reconcile.token] = "nothing" /\ reconcile.token \in store.executed

Keys ==
  /\ \A k \in store.keys :
       \/ k.revision < binding.committed
       \/ command.at # "none" /\ k = command.key
       \/ reconcile.stage # "none" /\ k.revision < reconcile.revision
  /\ command.at # "none" =>
       (command.token \in store.executed <=> command.key \in store.keys)
  /\ command.at = "outbound" => command.token \notin store.executed
  /\ MaxSaves = 0 /\ command.at # "none" => command.key.revision >= binding.committed
  /\ answer.result = "ok" =>
       command.key \in store.keys /\ answer.revision = command.key.revision + 1
  /\ answer.result = "refused" => command.key \notin store.keys
  /\ MaxLost = 0 => answer.result # "unknown" /\ command.at # "retry"

(* Where no snapshot is requested, none is on its way before the departure. *)
NoSaves ==
  MaxSaves = 0 /\ binding.in =>
    /\ reports = {} /\ parked = NoSnapshot /\ parking = NoSnapshot
    /\ \A i \in Slots : queue[i].op # "save"

Shows ==
  /\ binding.in /\ ~binding.pending => world = store.executed
  /\ command.at # "none" => world = store.executed \ {command.token}
  /\ reconcile.stage = "read" => reconcile.restored = store.executed

OnceInv == Fresh /\ Keys /\ NoSaves /\ Shows
-----------------------------------------------------------------------------
(***************************************************************************)
(* Numbers.                                                                *)
(***************************************************************************)
(* A set of numbers that is not empty has a least one.                     *)
LEMMA Least ==
  ASSUME NEW S \in SUBSET Nat, S # {}
  PROVE  \E n \in S : \A m \in S : n <= m
<1> DEFINE R == {ss \in Nat \X Nat : ss[1] < ss[2]}
<1>1. IsWellFoundedOn(R, Nat)
  BY NatLessThanWellFounded DEF OpToRel
<1>2. PICK n \in S : \A m \in S : ~(<<m, n>> \in R)
  <2> HIDE DEF R
  <2> QED
    BY <1>1, WFMin
<1>3. \A m \in S : ~(m < n)
  BY <1>2
<1> QED
  BY <1>3

(* A bounded one has a greatest, which Max chooses.                        *)
LEMMA MaxIs ==
  ASSUME NEW S \in SUBSET Nat, S # {}, NEW bound \in Nat, \A x \in S : x <= bound
  PROVE  Max(S) \in S /\ \A x \in S : x <= Max(S)
<1> DEFINE U == {n \in Nat : \A x \in S : x <= n}
<1>1. U # {} /\ U \in SUBSET Nat
  OBVIOUS
<1>2. PICK n \in U : \A m \in U : n <= m
  <2> HIDE DEF U
  <2> QED
    BY <1>1, Least
<1>3. n \in Nat /\ \A x \in S : x <= n
  BY <1>2
<1>4. n \in S
  <2> SUFFICES ASSUME n \notin S PROVE FALSE
    OBVIOUS
  <2>1. \A x \in S : x <= n - 1
    BY <1>3
  <2>2. n - 1 \in Nat
    <3>1. PICK x \in S : TRUE
      OBVIOUS
    <3> QED
      BY <1>3, <2>1, <3>1
  <2>3. n - 1 \in U
    BY <2>1, <2>2
  <2> QED
    BY <1>2, <1>3, <2>3
<1>5. \E x \in S : \A y \in S : x >= y
  BY <1>3, <1>4
<1>6. Max(S) \in S /\ \A y \in S : Max(S) >= y
  BY <1>5 DEF Max
<1> QED
  BY <1>6

(* The later of two revisions.                                             *)
LEMMA LaterIs ==
  \A a, b \in Nat : /\ Later(a, b) \in Nat /\ Later(a, b) >= a /\ Later(a, b) >= b
                    /\ Later(a, b) \in {a, b}
  BY DEF Later

-----------------------------------------------------------------------------
(***************************************************************************)
(* Types.                                                                  *)
(***************************************************************************)
(* The fields of a binding.                                                *)
LEMMA BindingIs ==
  ASSUME NEW b \in Binding
  PROVE  /\ {b.in, b.lost, b.pending, b.uncertain, b.detach} \subseteq BOOLEAN
         /\ {b.persistence, b.committed, b.deferred, b.place} \subseteq Nat
         /\ b.queued \subseteq Nat
  BY DEF Binding

(* The values that stand for nothing have their types.                     *)
LEMMA Constants ==
  /\ NoSnapshot \in Snapshot /\ NoAnswer \in Answer /\ NoCommand \in Command
  /\ NoReconcile \in Reconcile /\ ReadJob \in Job /\ OtherJob \in Job
  /\ NoSnapshot.revision = 0 /\ NoSnapshot.place = 0
  /\ NoCommand.at = "none" /\ NoAnswer.result = "none" /\ NoReconcile.stage = "none"
  BY DEF NoSnapshot, Snapshot, NoAnswer, Answer, NoCommand, Command, NoReconcile,
         Reconcile, ReadJob, OtherJob, Job, Key, Kind

(* What the jobs of each kind carry.                                       *)
LEMMA JobTypes ==
  /\ \A s \in Snapshot, op \in {"save", "logout"} : SaveJob(op, s) \in Job
  /\ \A c \in Command : CommitJob(c) \in Job
  /\ \A job \in Job :
       /\ job.op \in {"save", "logout", "commit", "read", "other"}
       /\ job.op \in {"save", "logout"} => job.snapshot \in Snapshot
       /\ job.op = "commit" => job.token \in Nat /\ job.key \in Key
  BY DEF Job, SaveJob, CommitJob, Command

(* What the owner makes of its binding when it adopts the reports.         *)
LEMMA AdoptedIs ==
  ASSUME TypeOK, Revisions
  PROVE  LET b == Adopted(binding) IN
         /\ b \in Binding
         /\ b.in = binding.in /\ b.lost = binding.lost /\ b.place = binding.place
         /\ b.pending = binding.pending /\ b.detach = binding.detach
         /\ b.uncertain = binding.uncertain
         /\ b.persistence = binding.persistence
         /\ b.committed >= binding.committed /\ b.committed <= b.persistence
         /\ b.committed <= store.revision
         /\ binding.in => \A r \in reports : r.committed => r.revision <= b.committed
         /\ binding.in => \A n \in binding.queued : n \in b.queued \/ Reported(n)
         /\ b.deferred = binding.deferred \/ (b.deferred = 0 /\ Reported(binding.deferred))
         /\ reports = {} => b.committed = binding.committed
<1> DEFINE revisions == {r.revision : r \in reports}
           S == {binding.committed} \cup
                  {r.revision : r \in {q \in reports : q.committed}}
           b == Adopted(binding)
<1>1. /\ binding \in Binding /\ store.revision \in Nat
      /\ \A r \in reports : r.revision \in Nat /\ r.committed \in BOOLEAN
  BY DEF TypeOK, Store
<1>2. CASE ~binding.in
  <2>1. b = binding
    BY <1>2 DEF Adopted
  <2>2. binding.committed \in Nat /\ binding.deferred \in Nat
    BY <1>1 DEF Binding
  <2> QED
    BY <1>1, <1>2, <2>1, <2>2 DEF Revisions
<1>3. CASE binding.in
  <2>1. binding.persistence \in Nat /\ binding.committed \in Nat
    BY <1>1 DEF Binding
  <2>2. S \in SUBSET Nat /\ S # {} /\ \A x \in S : x <= binding.persistence
    BY <1>1, <1>3, <2>1 DEF Revisions
  <2>3. Max(S) \in S /\ \A x \in S : x <= Max(S)
    <3> HIDE DEF S
    <3> QED
      BY <2>1, <2>2, MaxIs
  <2>4. /\ Max(S) \in Nat /\ Max(S) <= binding.persistence
        /\ Max(S) >= binding.committed /\ Max(S) <= store.revision
        /\ \A r \in reports : r.committed => r.revision <= Max(S)
        /\ reports = {} => Max(S) = binding.committed
    BY <1>1, <2>1, <2>2, <2>3 DEF Revisions
  <2> DEFINE n == Max(S)
  <2>5. b = [binding EXCEPT !.queued = @ \ revisions,
                            !.deferred = IF @ \in revisions THEN 0 ELSE @,
                            !.committed = n,
                            !.persistence = Later(@, n)]
    BY <1>3 DEF Adopted
  <2> HIDE DEF n
  <2>6. Later(binding.persistence, n) = binding.persistence
    BY <2>1, <2>4 DEF Later, n
  <2>7. b = [[binding EXCEPT !.queued = @ \ revisions,
                             !.deferred = IF @ \in revisions THEN 0 ELSE @]
               EXCEPT !.committed = n]
    BY <1>1, <2>5, <2>6 DEF Binding
  <2> DEFINE c == [binding EXCEPT !.queued = @ \ revisions,
                             !.deferred = IF @ \in revisions THEN 0 ELSE @]
  <2>8. /\ c \in Binding
        /\ c.queued = binding.queued \ revisions
        /\ c.deferred = (IF binding.deferred \in revisions THEN 0 ELSE binding.deferred)
        /\ c.in = binding.in /\ c.lost = binding.lost /\ c.place = binding.place
        /\ c.pending = binding.pending /\ c.detach = binding.detach
        /\ c.uncertain = binding.uncertain
        /\ c.persistence = binding.persistence
    BY <1>1 DEF Binding
  <2>9. n \in Nat
    BY <2>4 DEF n
  <2> HIDE DEF c
  <2>10. /\ b \in Binding /\ b.committed = n
         /\ b.queued = c.queued /\ b.deferred = c.deferred
         /\ b.in = c.in /\ b.lost = c.lost /\ b.place = c.place
         /\ b.pending = c.pending /\ b.detach = c.detach
         /\ b.uncertain = c.uncertain
         /\ b.persistence = c.persistence
    BY <2>7, <2>8, <2>9 DEF Binding, c
  <2> QED
    BY <1>1, <1>3, <2>4, <2>8, <2>10 DEF n, Reported
<1> QED
  BY <1>2, <1>3

(* What is in a queue that got one entry more, or lost its first.          *)
LEMMA AppendIs ==
  ASSUME NEW T, NEW q \in Seq(T), NEW x \in T
  PROVE  /\ Append(q, x) \in Seq(T) /\ Len(Append(q, x)) = Len(q) + 1
         /\ DOMAIN Append(q, x) = 1 .. Len(q) + 1 /\ DOMAIN q = 1 .. Len(q)
         /\ Len(q) \in Nat
         /\ \A i \in 1 .. Len(q) : Append(q, x)[i] = q[i]
         /\ Append(q, x)[Len(q) + 1] = x
  OBVIOUS

(* The queue without its first entry.                                      *)
LEMMA TailIs ==
  ASSUME NEW T, NEW q \in Seq(T), q # <<>>
  PROVE  /\ Tail(q) \in Seq(T) /\ Len(Tail(q)) = Len(q) - 1 /\ Len(q) \in Nat \ {0}
         /\ DOMAIN Tail(q) = 1 .. Len(q) - 1 /\ DOMAIN q = 1 .. Len(q)
         /\ \A i \in 1 .. Len(q) - 1 : Tail(q)[i] = q[i + 1]
         /\ Head(q) = q[1] /\ Head(q) \in T
  OBVIOUS

(* A snapshot goes to the queue or is about to be parked.                  *)
Sends(s) ==
  \/ queue' = Append(queue, SaveJob("save", s)) /\ parking' = parking
  \/ queue' = queue /\ parking' = s

(* The next binding is b, but for the revisions in the queue.              *)
Keeps(b) ==
  /\ binding' \in Binding /\ b.queued \subseteq binding'.queued
  /\ binding'.in = b.in /\ binding'.lost = b.lost /\ binding'.place = b.place
  /\ binding'.pending = b.pending /\ binding'.detach = b.detach
  /\ binding'.uncertain = b.uncertain /\ binding'.deferred = b.deferred
  /\ binding'.persistence = b.persistence /\ binding'.committed = b.committed

MailType == queue' \in Seq(Job) /\ Len(queue') <= QueueCap /\ parking' \in Snapshot

(* try_save_leased: the snapshot is queued and noted, or it waits.         *)
LEMMA HandoffIs ==
  ASSUME TypeOK, NEW b \in Binding, NEW s \in Snapshot, Handoff(b, s)
  PROVE  /\ Keeps(b) /\ Sends(s) /\ MailType
         /\ b.in /\ queue' # queue => s.revision \in binding'.queued
<1>1. /\ queue \in Seq(Job) /\ Len(queue) <= QueueCap /\ parking \in Snapshot
      /\ SaveJob("save", s) \in Job /\ QueueCap \in Nat /\ Len(queue) \in Nat
  BY JobTypes, DurableAssumption DEF TypeOK
<1>2. CASE /\ Len(queue) < QueueCap
           /\ queue' = Append(queue, SaveJob("save", s))
           /\ binding' = IF b.in
                         THEN [b EXCEPT !.queued = @ \cup {s.revision}]
                         ELSE b
           /\ UNCHANGED parking
  <2>1. MailType /\ Sends(s)
    BY <1>1, <1>2, AppendIs DEF MailType, Sends
  <2>2. s.revision \in Nat
    BY DEF Snapshot
  <2>3. Keeps(b) /\ (b.in => s.revision \in binding'.queued)
    BY <1>2, <2>2 DEF Binding, Keeps
  <2> QED
    BY <2>1, <2>3
<1>3. CASE /\ Len(queue) >= QueueCap
           /\ parking' = s
           /\ binding' = b
           /\ UNCHANGED queue
  BY <1>1, <1>3 DEF Keeps, Sends, MailType
<1> QED
  BY <1>2, <1>3 DEF Handoff

(* The character has left, with a snapshot unless its authority is lost.   *)
Leaves ==
  /\ ~binding'.in
  /\ \/ binding'.lost /\ UNCHANGED <<queue, parking>>
     \/ /\ ~binding'.lost
        /\ Sends([revision |-> binding'.persistence + 1, place |-> binding'.place])

(* unlink: the departed binding, and the last snapshot unless lost.        *)
LEMMA LeaveIs ==
  ASSUME TypeOK, NEW b \in Binding, LeaveWorld(b)
  PROVE  /\ Leaves /\ MailType /\ binding' \in Binding
         /\ binding'.lost = b.lost /\ binding'.place = b.place
         /\ binding'.pending = b.pending /\ binding'.persistence = b.persistence
         /\ binding'.committed = b.committed
<1> DEFINE gone == [b EXCEPT !.in = FALSE, !.detach = FALSE]
<1>1. /\ gone \in Binding /\ ~gone.in
      /\ gone.lost = b.lost /\ gone.place = b.place /\ gone.pending = b.pending
      /\ gone.persistence = b.persistence /\ gone.committed = b.committed
      /\ b.lost \in BOOLEAN
  BY DEF Binding
<1> HIDE DEF gone
<1>2. LeaveWorld(b) <=>
        IF b.lost THEN binding' = gone /\ UNCHANGED <<queue, parking>>
        ELSE Handoff(gone, NextSnapshot(b))
  BY DEF LeaveWorld, gone
<1>3. CASE b.lost
  BY <1>1, <1>2, <1>3 DEF Leaves, MailType, TypeOK
<1>4. CASE ~b.lost
  <2>1. /\ NextSnapshot(b) = [revision |-> b.persistence + 1, place |-> b.place]
        /\ NextSnapshot(b) \in Snapshot
    BY DEF NextSnapshot, Snapshot, Binding
  <2>2. Keeps(gone) /\ Sends(NextSnapshot(b)) /\ MailType
    BY <1>1, <1>2, <1>4, <2>1, HandoffIs
  <2> QED
    BY <1>1, <1>4, <2>1, <2>2 DEF Leaves, Keeps
<1> QED
  BY <1>1, <1>3, <1>4

(* A command is over: the owner knows its revision, and the character may  *)
(* have waited for it to leave.                                            *)
LEMMA FinishIs ==
  ASSUME TypeOK, NEW n \in Nat, FinishDurable(n)
  PROVE  /\ MailType /\ binding' \in Binding
         /\ ~binding'.pending
         /\ binding'.lost = binding.lost /\ binding'.place = binding.place
         /\ binding'.persistence = Later(binding.persistence, n)
         /\ binding'.committed = Later(binding.committed, n)
         /\ \/ Leaves
            \/ /\ binding'.in = binding.in /\ UNCHANGED <<queue, parking>>
               /\ binding'.queued = binding.queued /\ binding'.deferred = binding.deferred
<1> DEFINE c == [binding EXCEPT !.persistence = Later(@, n), !.committed = Later(@, n)]
           b == [c EXCEPT !.uncertain = FALSE, !.pending = FALSE]
<1>1. binding \in Binding
  BY DEF TypeOK
<1>2. /\ Later(binding.persistence, n) \in Nat /\ Later(binding.committed, n) \in Nat
  BY <1>1, LaterIs, BindingIs
<1>3. /\ c \in Binding
      /\ c.in = binding.in /\ c.lost = binding.lost /\ c.place = binding.place
      /\ c.detach = binding.detach
      /\ c.persistence = Later(binding.persistence, n)
      /\ c.committed = Later(binding.committed, n)
      /\ c.queued = binding.queued /\ c.deferred = binding.deferred
  BY <1>1, <1>2 DEF Binding
<1>5. [binding EXCEPT !.persistence = Later(@, n), !.committed = Later(@, n),
                      !.uncertain = FALSE, !.pending = FALSE] = b
  BY <1>1, <1>2 DEF Binding
<1> HIDE DEF c
<1>4. /\ b \in Binding /\ ~b.pending
      /\ b.in = c.in /\ b.lost = c.lost /\ b.place = c.place
      /\ b.detach = c.detach
      /\ b.persistence = c.persistence
      /\ b.committed = c.committed
      /\ b.queued = c.queued /\ b.deferred = c.deferred
  BY <1>3 DEF Binding
<1> HIDE DEF b
<1>6. IF b.detach THEN LeaveWorld(b)
      ELSE binding' = b /\ UNCHANGED <<queue, parking>>
  BY <1>5 DEF FinishDurable
<1>7. CASE b.detach
  BY <1>3, <1>4, <1>6, <1>7, LeaveIs
<1>8. CASE ~b.detach
  BY <1>3, <1>4, <1>6, <1>8 DEF MailType, TypeOK
<1> QED
  BY <1>7, <1>8

(* The first state is well typed.                                          *)
LEMMA TypeInit == Init => TypeOK
<1> SUFFICES ASSUME Init PROVE TypeOK
  OBVIOUS
<1>1. /\ binding \in Binding /\ store \in Store /\ used \in Used
      /\ told \in [Token -> {"nothing", "accepted", "rejected"}]
      /\ queue \in Seq(Job) /\ Len(queue) = 0
  BY DEF Init, Binding, Store, Used
<1>2. QueueCap \in Nat
  BY DurableAssumption
<1> QED
  BY <1>1, <1>2, Constants DEF Init, TypeOK

(* A record of use that counts one more.                                   *)
LEMMA UsedIs ==
  ASSUME TypeOK
  PROVE  /\ {used.commands, used.saves, used.lost, used.failures} \subseteq Nat
         /\ [used EXCEPT !.commands = @ + 1] \in Used
         /\ [used EXCEPT !.saves = @ + 1] \in Used
         /\ [used EXCEPT !.lost = @ + 1] \in Used
         /\ [used EXCEPT !.failures = @ + 1] \in Used
  BY DEF TypeOK, Used

(* The fields of a command.                                                *)
LEMMA CommandIs ==
  ASSUME NEW c \in Command
  PROVE  /\ c.token \in Nat /\ c.key \in Key /\ c.key.revision \in Nat
         /\ c.key.kind \in Kind /\ c.at \in {"none", "outbound", "worker", "retry"}
  BY DEF Command, Key

(* The key of a command is aligned when it is submitted.                   *)
LEMMA AlignedIs ==
  ASSUME NEW c \in Command, NEW n \in Nat
  PROVE  LET aligned == [c EXCEPT !.at = "worker", !.key.revision = Later(@, n)] IN
         /\ aligned \in Command /\ aligned.token = c.token /\ aligned.at = "worker"
         /\ aligned.key.revision = Later(c.key.revision, n)
         /\ aligned.key.kind = c.key.kind
         /\ CommitJob(aligned) \in Job
<1> DEFINE aligned == [c EXCEPT !.at = "worker", !.key.revision = Later(@, n)]
<1>1. Later(c.key.revision, n) \in Nat
  BY CommandIs, LaterIs
<1>2. /\ aligned \in Command /\ aligned.token = c.token /\ aligned.at = "worker"
      /\ aligned.key.revision = Later(c.key.revision, n)
      /\ aligned.key.kind = c.key.kind
  BY <1>1 DEF Command, Key
<1>3. CommitJob(aligned) \in Job
  <2> HIDE DEF aligned
  <2> QED
    BY <1>2, JobTypes
<1> QED
  BY <1>2, <1>3

(* Staging a command keeps the types.                                      *)
LEMMA StageType ==
  ASSUME TypeOK, OneCommand, Revisions, NEW kind \in Kind, Stage(kind)
  PROVE  TypeOK'
<1>1. binding' \in Binding /\ binding'.committed \in Nat
  BY AdoptedIs DEF Stage, Binding
<1>2. /\ command' = [token |-> used.commands + 1,
                     key |-> [revision |-> binding'.committed, kind |-> kind],
                     at |-> "outbound"]
      /\ used' \in Used
  BY UsedIs DEF Stage
<1>3. command' \in Command
  BY <1>1, <1>2, UsedIs DEF Command, Key
<1> QED
  BY <1>1, <1>2, <1>3 DEF Stage, TypeOK

(* take_durable_commits keeps the types.                                   *)
LEMMA SubmitType ==
  ASSUME TypeOK, Revisions, SubmitCommit
  PROVE  TypeOK'
<1> DEFINE b == Adopted(binding)
           aligned == [command EXCEPT !.at = "worker",
                                      !.key.revision = Later(@, b.committed)]
<1>1. b \in Binding /\ b.committed \in Nat
  BY AdoptedIs DEF Binding
<1>2. aligned \in Command /\ CommitJob(aligned) \in Job
  <2> HIDE DEF b
  <2> QED
    BY <1>1, AlignedIs DEF TypeOK
<1>3. /\ binding' = b /\ reports' = {} /\ command' = aligned
      /\ sending' = sending \cup {CommitJob(aligned)}
      /\ UNCHANGED <<reconcile, parking, queue, parked, worker, answer, store,
                     world, told, used>>
  BY DEF SubmitCommit
<1> HIDE DEF b, aligned
<1> QED
  BY <1>1, <1>2, <1>3 DEF TypeOK

(* A snapshot is requested.                                                *)
LEMMA RequestIs ==
  ASSUME TypeOK, RequestSave
  PROVE  /\ MailType /\ binding' \in Binding
         /\ binding.in /\ binding'.in /\ binding'.lost = binding.lost
         /\ binding'.pending = binding.pending
         /\ binding'.committed = binding.committed
         /\ binding'.deferred = binding.deferred
         /\ binding.queued \subseteq binding'.queued
         /\ binding'.persistence = binding.persistence + 1
         /\ binding'.place >= binding.place
         /\ \/ UNCHANGED <<queue, parking>>
            \/ Sends([revision |-> binding'.persistence, place |-> binding'.place])
         /\ queue' # queue => binding'.persistence \in binding'.queued
<1>1. PICK place \in {binding.place} \cup
                    (IF ActionsBlocked THEN {} ELSE {binding.place + 1}) :
        LET b == [binding EXCEPT !.persistence = @ + 1, !.place = place] IN
        IF b.lost
        THEN binding' = b /\ UNCHANGED <<queue, parking>>
        ELSE Handoff(b, [revision |-> b.persistence, place |-> place])
  BY DEF RequestSave
<1>2. binding \in Binding /\ place \in Nat /\ place >= binding.place
  BY BindingIs DEF TypeOK
<1> DEFINE b == [binding EXCEPT !.persistence = @ + 1, !.place = place]
<1>0. binding.persistence \in Nat /\ binding.lost \in BOOLEAN
  BY <1>2 DEF Binding
<1>3. /\ b \in Binding /\ b.in = binding.in /\ b.lost = binding.lost
      /\ b.pending = binding.pending /\ b.committed = binding.committed
      /\ b.deferred = binding.deferred /\ b.queued = binding.queued
      /\ b.persistence = binding.persistence + 1 /\ b.place = place
      /\ b.persistence \in Nat /\ b.lost \in BOOLEAN
  <2> DEFINE n == binding.persistence + 1
  <2>1. b = [binding EXCEPT !.persistence = n, !.place = place] /\ n \in Nat
    BY <1>0
  <2> HIDE DEF n
  <2> QED
    BY <1>0, <1>2, <2>1 DEF Binding, n
<1>4. IF b.lost
      THEN binding' = b /\ UNCHANGED <<queue, parking>>
      ELSE Handoff(b, [revision |-> b.persistence, place |-> place])
  BY <1>1
<1>5. binding.in
  BY DEF RequestSave
<1> HIDE DEF b
<1>6. CASE b.lost
  BY <1>2, <1>3, <1>4, <1>5, <1>6 DEF MailType, TypeOK
<1>7. CASE ~b.lost
  <2> DEFINE s == [revision |-> b.persistence, place |-> place]
  <2>1. s \in Snapshot /\ s.revision = b.persistence
    BY <1>2, <1>3 DEF Snapshot
  <2>2. Handoff(b, s)
    BY <1>4, <1>7
  <2> HIDE DEF s
  <2>3. /\ Keeps(b) /\ Sends(s) /\ MailType
        /\ b.in /\ queue' # queue => s.revision \in binding'.queued
    BY <1>3, <2>1, <2>2, HandoffIs
  <2> QED
    BY <1>2, <1>3, <1>5, <2>1, <2>3 DEF Keeps, s
<1> QED
  BY <1>6, <1>7

(* The binding after a snapshot is parked.                                 *)
LEMMA ParkIs ==
  ASSUME TypeOK, Park
  PROVE  /\ binding' \in Binding /\ parked' \in {parked, parking}
         /\ binding'.in = binding.in /\ binding'.lost = binding.lost
         /\ binding'.place = binding.place /\ binding'.pending = binding.pending
         /\ binding'.persistence = binding.persistence
         /\ binding'.committed = binding.committed
         /\ binding'.queued = binding.queued
         /\ binding.in => binding'.deferred = parked'.revision
         /\ parked'.revision >= parked.revision /\ parked'.revision >= parking.revision
<1>1. /\ binding \in Binding /\ parked'.revision \in Nat
      /\ parked.revision \in Nat /\ parking.revision \in Nat
  BY DEF TypeOK, Park, Snapshot
<1>2. binding' \in Binding /\ binding'.in = binding.in /\ binding'.lost = binding.lost
      /\ binding'.place = binding.place /\ binding'.pending = binding.pending
      /\ binding'.persistence = binding.persistence
      /\ binding'.committed = binding.committed
      /\ binding'.queued = binding.queued
      /\ (binding.in => binding'.deferred = parked'.revision)
  BY <1>1 DEF Park, Binding
<1> QED
  BY <1>1, <1>2 DEF Park

(* A snapshot is written over what is older, or nothing changes.           *)
LEMMA SavedIs ==
  ASSUME TypeOK, NEW s \in Snapshot
  PROVE  /\ Saved(s) \in Store
         /\ Saved(s).keys = store.keys /\ Saved(s).executed = store.executed
         /\ \/ /\ Saved(s) = store
               /\ s.revision < store.revision
                  \/ (s.revision = store.revision /\ store.recorded >= store.revision)
            \/ /\ Saved(s).revision = s.revision /\ Saved(s).recorded = s.revision
               /\ Saved(s).place = s.place
               /\ s.revision > store.revision
                  \/ (s.revision = store.revision /\ store.recorded < store.revision)
<1>1. /\ store \in Store /\ store.revision \in Nat /\ store.recorded \in Nat
      /\ s.revision \in Nat /\ s.place \in Nat
  BY DEF TypeOK, Store, Snapshot
<1> DEFINE w == [store EXCEPT !.revision = s.revision, !.recorded = s.revision,
                              !.place = s.place]
<1>2. /\ w \in Store /\ w.keys = store.keys /\ w.executed = store.executed
      /\ w.revision = s.revision /\ w.recorded = s.revision /\ w.place = s.place
  BY <1>1 DEF Store
<1>3. Saved(s) = IF \/ s.revision > store.revision
                    \/ s.revision = store.revision /\ store.recorded < store.revision
                 THEN w ELSE store
  BY DEF Saved
<1> HIDE DEF w
<1> QED
  BY <1>1, <1>2, <1>3

(* What a save may leave in the database, and what it reports.             *)
SaveStep(s) ==
  /\ store' \in {store, Saved(s)}
  /\ used.failures = used'.failures => store' = Saved(s)
  /\ used'.failures >= used.failures
  /\ used'.commands = used.commands /\ used'.saves = used.saves /\ used'.lost = used.lost
  /\ used' \in Used

(* save_snapshot_observed writes as a save does, and reports it.           *)
LEMMA ExecuteSaveIs ==
  ASSUME TypeOK, NEW s \in Snapshot, ExecuteSave(s)
  PROVE  /\ SaveStep(s)
         /\ \E committed \in BOOLEAN :
              /\ reports' = reports \cup {[revision |-> s.revision, committed |-> committed]}
              /\ committed => store' = Saved(s)
<1>1. /\ used \in Used /\ used.failures \in Nat
      /\ [used EXCEPT !.failures = @ + 1] \in Used
      /\ [used EXCEPT !.failures = @ + 1].failures = used.failures + 1
  BY UsedIs DEF TypeOK, Used
<1>2. \/ used' = used /\ store' = Saved(s)
      \/ used' = [used EXCEPT !.failures = @ + 1] /\ store' \in {store, Saved(s)}
  BY DEF ExecuteSave
<1>3. SaveStep(s)
  BY <1>1, <1>2 DEF SaveStep, Used
<1> QED
  BY <1>3 DEF ExecuteSave

(* SaveAwaited writes as a save does, and reports nothing.                 *)
LEMMA ExecuteLogoutIs ==
  ASSUME TypeOK, NEW s \in Snapshot, ExecuteLogout(s)
  PROVE  SaveStep(s) /\ UNCHANGED <<answer, reconcile, reports>>
<1>1. /\ used \in Used /\ used.failures \in Nat
      /\ [used EXCEPT !.failures = @ + 1] \in Used
      /\ [used EXCEPT !.failures = @ + 1].failures = used.failures + 1
  BY UsedIs DEF TypeOK, Used
<1>2. \/ used' = used /\ store' = Saved(s)
      \/ used' = [used EXCEPT !.failures = @ + 1] /\ store' \in {store, Saved(s)}
  BY DEF ExecuteLogout
<1>3. SaveStep(s)
  BY <1>1, <1>2 DEF SaveStep, Used
<1> QED
  BY <1>3 DEF ExecuteLogout

(* What a command leaves in the database.                                  *)
LEMMA AppliedIs ==
  ASSUME TypeOK, NEW job \in Job, job.op = "commit", job.token \in Token
  PROVE  /\ Applied(job) \in Store
         /\ Applied(job).revision = store.revision + 1
         /\ Applied(job).recorded = store.recorded /\ Applied(job).place = store.place
         /\ Applied(job).keys = store.keys \cup {job.key}
         /\ Applied(job).executed = store.executed \cup {job.token}
<1>1. /\ store \in Store /\ job.key \in Key
      /\ store.revision + 1 \in Nat
      /\ store.keys \cup {job.key} \in SUBSET Key
      /\ store.executed \cup {job.token} \in SUBSET Token
  BY JobTypes DEF TypeOK, Store
<1> DEFINE n == store.revision + 1
           k == store.keys \cup {job.key}
           e == store.executed \cup {job.token}
<1>2. Applied(job) = [store EXCEPT !.revision = n, !.keys = k, !.executed = e]
  BY DEF Applied
<1>3. n \in Nat /\ k \in SUBSET Key /\ e \in SUBSET Token
  BY <1>1
<1> HIDE DEF n, k, e
<1>4. /\ Applied(job) \in Store /\ Applied(job).revision = n
      /\ Applied(job).recorded = store.recorded /\ Applied(job).place = store.place
      /\ Applied(job).keys = k /\ Applied(job).executed = e
  BY <1>1, <1>2, <1>3 DEF Store
<1> QED
  BY <1>4 DEF n, k, e

(* An answer to a command, and what is stored then.                        *)
CommitStep(job) ==
  /\ UNCHANGED <<reconcile, reports>>
  /\ answer' \in Answer /\ answer'.result \in {"ok", "refused", "unknown"}
  /\ \/ store' = store
     \/ Applies(job) /\ store' = Applied(job) /\ answer'.result # "refused"
  /\ answer'.result = "ok" =>
       /\ answer'.revision = job.key.revision + 1
       /\ Stored(job.key) \/ store' = Applied(job)
  /\ answer'.result = "refused" => ~Stored(job.key)
  /\ answer'.result = "unknown" => used.lost < MaxLost
  /\ used' \in Used /\ used'.commands = used.commands /\ used'.saves = used.saves
  /\ used'.failures = used.failures /\ used'.lost <= Later(MaxLost, used.lost)

(* commit answers, and stores what it answers for.                         *)
LEMMA ExecuteCommitIs ==
  ASSUME TypeOK, NEW job \in Job, job.op = "commit", ExecuteCommit(job)
  PROVE  CommitStep(job)
<1>1. /\ used \in Used /\ used.lost \in Nat /\ MaxLost \in Nat
      /\ [used EXCEPT !.lost = @ + 1] \in Used
      /\ [used EXCEPT !.lost = @ + 1].lost = used.lost + 1
      /\ [used EXCEPT !.lost = @ + 1].commands = used.commands
      /\ [used EXCEPT !.lost = @ + 1].saves = used.saves
      /\ [used EXCEPT !.lost = @ + 1].failures = used.failures
  BY UsedIs, DurableAssumption DEF TypeOK, Used
<1>2. /\ job.key \in Key /\ job.key.revision \in Nat
  BY JobTypes DEF Key
<1>3. /\ Committed(job.key) \in Answer /\ Committed(job.key).result = "ok"
      /\ Committed(job.key).revision = job.key.revision + 1
      /\ Refused \in Answer /\ Refused.result = "refused"
      /\ Unknown \in Answer /\ Unknown.result = "unknown"
  BY <1>2 DEF Committed, Refused, Unknown, Answer
<1>4. used.lost <= Later(MaxLost, used.lost)
  BY <1>1, LaterIs
<1>5. CASE Stored(job.key) /\ answer' = Committed(job.key) /\ UNCHANGED <<store, used>>
  BY <1>1, <1>3, <1>4, <1>5 DEF CommitStep, ExecuteCommit
<1>6. CASE /\ Applies(job) /\ answer' = Committed(job.key)
           /\ store' = Applied(job) /\ UNCHANGED used
  BY <1>1, <1>3, <1>4, <1>6 DEF CommitStep, ExecuteCommit
<1>7. CASE ~Stored(job.key) /\ answer' = Refused /\ UNCHANGED <<store, used>>
  BY <1>1, <1>3, <1>4, <1>7 DEF CommitStep, ExecuteCommit
<1>8. CASE /\ used.lost < MaxLost
           /\ used' = [used EXCEPT !.lost = @ + 1]
           /\ answer' = Unknown
           /\ store' \in {store} \cup (IF Applies(job) THEN {Applied(job)} ELSE {})
  <2>1. used'.lost <= Later(MaxLost, used.lost)
    BY <1>1, <1>8 DEF Later
  <2> QED
    BY <1>1, <1>3, <1>8, <2>1 DEF CommitStep, ExecuteCommit
<1> QED
  BY <1>5, <1>6, <1>7, <1>8 DEF ExecuteCommit

(* The worker takes a job: of which kind, and what it leaves alone.        *)
LEMMA WorkerRunIs ==
  ASSUME TypeOK, OneCommand, WorkerRun
  PROVE  LET job == queue[1] IN
         /\ queue # <<>> /\ queue' = Tail(queue) /\ job \in Job
         /\ UNCHANGED <<binding, command, parking, sending, parked, world, told>>
         /\ \/ /\ job.op = "save" /\ ExecuteSave(job.snapshot)
               /\ UNCHANGED <<answer, reconcile>>
            \/ job.op = "logout" /\ ExecuteLogout(job.snapshot)
            \/ job.op = "commit" /\ CommitStep(job) /\ job.token \in Token
            \/ job.op = "read" /\ ExecuteRead
            \/ job.op = "other" /\ UNCHANGED <<answer, reconcile, reports, store, used>>
<1> DEFINE job == queue[1]
<1>1. /\ queue # <<>> /\ queue' = Tail(queue)
      /\ UNCHANGED <<binding, command, parking, sending, parked, world, told>>
  BY DEF WorkerRun
<1>2. job = Head(queue) /\ job \in Job /\ 1 \in Slots
  BY <1>1, TailIs DEF TypeOK, Slots
<1>3. job.op = "commit" => job.token \in Token
  BY <1>2 DEF OneCommand, Carries, Fits
<1>4. \/ /\ job.op = "save" /\ ExecuteSave(job.snapshot)
         /\ UNCHANGED <<answer, reconcile>>
      \/ job.op = "logout" /\ ExecuteLogout(job.snapshot)
      \/ job.op = "commit" /\ ExecuteCommit(job)
      \/ job.op = "read" /\ ExecuteRead
      \/ job.op = "other" /\ UNCHANGED <<answer, reconcile, reports, store, used>>
  BY <1>2 DEF WorkerRun
<1> HIDE DEF job
<1>5. job.op = "commit" /\ ExecuteCommit(job) => CommitStep(job)
  BY <1>2, ExecuteCommitIs
<1> QED
  BY <1>1, <1>2, <1>3, <1>4, <1>5 DEF job

(* A job of the worker keeps the types.                                    *)
LEMMA WorkerRunType ==
  ASSUME TypeOK, OneCommand, WorkerRun
  PROVE  TypeOK'
<1> DEFINE job == queue[1]
<1>1. /\ queue # <<>> /\ queue' = Tail(queue) /\ job \in Job
      /\ UNCHANGED <<binding, command, parking, sending, parked, world, told>>
      /\ worker' = "flush"
      /\ \/ /\ job.op = "save" /\ ExecuteSave(job.snapshot)
            /\ UNCHANGED <<answer, reconcile>>
         \/ job.op = "logout" /\ ExecuteLogout(job.snapshot)
         \/ job.op = "commit" /\ CommitStep(job) /\ job.token \in Token
         \/ job.op = "read" /\ ExecuteRead
         \/ job.op = "other" /\ UNCHANGED <<answer, reconcile, reports, store, used>>
  BY WorkerRunIs DEF WorkerRun
<1>2. queue' \in Seq(Job) /\ Len(queue') <= QueueCap
  BY <1>1, TailIs, DurableAssumption DEF TypeOK
<1> HIDE DEF job
<1>3. job.op \in {"save", "logout"} => job.snapshot \in Snapshot
  BY <1>1, JobTypes
<1>4. /\ store' \in Store /\ used' \in Used /\ answer' \in Answer /\ reconcile' \in Reconcile
      /\ reports' \subseteq [revision : Nat, committed : BOOLEAN]
  <2>1. CASE job.op = "save"
    <3>1. /\ ExecuteSave(job.snapshot) /\ UNCHANGED <<answer, reconcile>>
          /\ job.snapshot \in Snapshot /\ job.snapshot.revision \in Nat
      BY <1>1, <1>3, <2>1 DEF Snapshot
    <3>2. SaveStep(job.snapshot) /\ Saved(job.snapshot) \in Store
      BY <3>1, ExecuteSaveIs, SavedIs
    <3>3. \E committed \in BOOLEAN : reports' =
            reports \cup {[revision |-> job.snapshot.revision, committed |-> committed]}
      BY <3>1, ExecuteSaveIs
    <3> QED
      BY <3>1, <3>2, <3>3 DEF SaveStep, TypeOK
  <2>2. CASE job.op = "logout"
    <3>1. ExecuteLogout(job.snapshot) /\ job.snapshot \in Snapshot
      BY <1>1, <1>3, <2>2
    <3>2. /\ SaveStep(job.snapshot) /\ Saved(job.snapshot) \in Store
          /\ UNCHANGED <<answer, reconcile, reports>>
      BY <3>1, ExecuteLogoutIs, SavedIs
    <3> QED
      BY <3>2 DEF SaveStep, TypeOK
  <2>3. CASE job.op = "commit"
    BY <1>1, <2>3, AppliedIs DEF CommitStep, TypeOK
  <2>4. CASE job.op = "read"
    <3>1. ExecuteRead
      BY <1>1, <2>4
    <3> QED
      BY <3>1 DEF ExecuteRead, TypeOK, Reconcile, Store
  <2>5. CASE job.op = "other"
    BY <1>1, <2>5 DEF TypeOK
  <2> QED
    BY <1>1, <2>1, <2>2, <2>3, <2>4, <2>5
<1> QED
  BY <1>1, <1>2, <1>4 DEF TypeOK

(* flush_deferred_latest keeps the types.                                  *)
LEMMA WorkerFlushType ==
  ASSUME TypeOK, WorkerFlush
  PROVE  TypeOK'
<1>1. /\ worker' = "idle" /\ parked' = NoSnapshot /\ parked \in Snapshot
      /\ UNCHANGED <<binding, command, reconcile, parking, sending, queue, answer,
                     world, told>>
      /\ UNCHANGED <<reports, store, used>> \/ ExecuteSave(parked)
  BY DEF WorkerFlush, TypeOK
<1>2. /\ store' \in Store /\ used' \in Used
      /\ reports' \subseteq [revision : Nat, committed : BOOLEAN]
  <2>1. CASE ExecuteSave(parked)
    <3>1. SaveStep(parked) /\ Saved(parked) \in Store /\ parked.revision \in Nat
      BY <1>1, <2>1, ExecuteSaveIs, SavedIs DEF Snapshot
    <3>2. \E committed \in BOOLEAN : reports' =
            reports \cup {[revision |-> parked.revision, committed |-> committed]}
      BY <1>1, <2>1, ExecuteSaveIs
    <3> QED
      BY <3>1, <3>2 DEF SaveStep, TypeOK
  <2> QED
    BY <1>1, <2>1 DEF TypeOK
<1> QED
  BY <1>1, <1>2, Constants DEF TypeOK

(* The other steps of the owner keep the types.                            *)
LEMMA OwnerType ==
  ASSUME TypeOK, OneCommand, Revisions,
         \/ AdoptReports \/ RequestSave \/ Park \/ SettleUnknown \/ SettleRefused
         \/ SettleCommitted \/ SettleUnapplied \/ TakeReconcileJobs
         \/ CompleteReconcile \/ ReconcileFails \/ LoseAuthority \/ Detach \/ Logout
  PROVE  TypeOK'
<1>1. /\ binding \in Binding /\ command \in Command /\ reconcile \in Reconcile
      /\ answer \in Answer /\ store \in Store /\ used \in Used
      /\ told \in [Token -> {"nothing", "accepted", "rejected"}]
  BY DEF TypeOK
<1>2. /\ answer.revision \in Nat /\ reconcile.revision \in Nat
      /\ reconcile.restored \subseteq Token /\ binding.committed \in Nat
      /\ answer.result # "none" => command.token \in Token
      /\ command.token \in Nat /\ reconcile.token \in Nat
      /\ reconcile.stage # "none" => reconcile.token \in Token
  BY <1>1, Constants DEF Answer, Reconcile, Binding, OneCommand, Command
<1>3. CASE AdoptReports
  BY <1>3, AdoptedIs DEF AdoptReports, TypeOK
<1>4. CASE RequestSave
  <2>1. MailType /\ binding' \in Binding /\ used' \in Used
    BY <1>4, RequestIs, UsedIs DEF RequestSave
  <2> QED
    BY <1>4, <2>1 DEF RequestSave, MailType, TypeOK
<1>5. CASE Park
  <2>1. /\ binding' \in Binding /\ parked' \in Snapshot /\ parking' \in Snapshot
    BY <1>5, ParkIs, Constants DEF Park, TypeOK
  <2> QED
    BY <1>5, <2>1 DEF Park, TypeOK
<1>6. CASE SettleUnknown
  <2>1. binding' \in Binding /\ command' \in Command
    BY <1>1, <1>6 DEF SettleUnknown, Binding, Command
  <2> QED
    BY <1>6, <2>1, Constants DEF SettleUnknown, TypeOK
<1>7. CASE SettleRefused \/ SettleCommitted \/ CompleteReconcile
  <2>1. \E n \in Nat : FinishDurable(n)
    BY <1>2, <1>7 DEF SettleRefused, SettleCommitted, CompleteReconcile
  <2>2. MailType /\ binding' \in Binding
    BY <2>1, FinishIs
  <2>3. told' \in [Token -> {"nothing", "accepted", "rejected"}]
    BY <1>1, <1>7 DEF SettleRefused, SettleCommitted, CompleteReconcile
  <2>4. world' \subseteq Token
    BY <1>1, <1>2, <1>7 DEF SettleRefused, SettleCommitted, CompleteReconcile, TypeOK
  <2> QED
    BY <1>7, <2>2, <2>3, <2>4, Constants
    DEF SettleRefused, SettleCommitted, CompleteReconcile, TypeOK, MailType
<1>8. CASE SettleUnapplied
  <2>1. reconcile' \in Reconcile
    BY <1>2, <1>8 DEF SettleUnapplied, Reconcile
  <2>2. used' \in Used
    BY <1>8, UsedIs DEF SettleUnapplied
  <2> QED
    BY <1>8, <2>1, <2>2, Constants DEF SettleUnapplied, TypeOK
<1>9. CASE TakeReconcileJobs
  <2>1. reconcile' \in Reconcile
    BY <1>1, <1>9 DEF TakeReconcileJobs, Reconcile
  <2> QED
    BY <1>9, <2>1, Constants DEF TakeReconcileJobs, TypeOK
<1>10. CASE ReconcileFails
  <2>1. reconcile' \in Reconcile /\ world' \subseteq Token
    BY <1>1, <1>2, <1>10 DEF ReconcileFails, Reconcile
  <2>2. used' \in Used
    BY <1>10, UsedIs DEF ReconcileFails
  <2> QED
    BY <1>10, <2>1, <2>2 DEF ReconcileFails, TypeOK
<1>11. CASE LoseAuthority
  <2>1. binding' \in Binding
    BY <1>1, <1>11 DEF LoseAuthority, Binding
  <2> QED
    BY <1>11, <2>1 DEF LoseAuthority, TypeOK
<1>12. CASE Detach
  <2>1. CASE binding.pending
    <3>1. binding' \in Binding
      <4>1. binding' = [binding EXCEPT !.detach = TRUE]
        BY <1>12, <2>1 DEF Detach
      <4> QED
        BY <1>1, <4>1 DEF Binding
    <3> QED
      BY <1>12, <2>1, <3>1 DEF Detach, TypeOK
  <2>2. CASE ~binding.pending
    <3>1. MailType /\ binding' \in Binding
      BY <1>1, <1>12, <2>2, LeaveIs DEF Detach
    <3> QED
      BY <1>12, <3>1 DEF Detach, TypeOK, MailType
  <2> QED
    BY <2>1, <2>2
<1>13. CASE Logout
  <2>1. /\ binding' \in Binding /\ NextSnapshot(binding) \in Snapshot
    <3>1. binding' = [binding EXCEPT !.in = FALSE]
      BY <1>13 DEF Logout
    <3>2. binding.persistence + 1 \in Nat /\ binding.place \in Nat
      BY <1>1 DEF Binding
    <3> QED
      BY <1>1, <3>1, <3>2 DEF Binding, NextSnapshot, Snapshot
  <2>2. sending' \subseteq Job
    BY <1>13, <2>1, JobTypes DEF Logout, TypeOK
  <2> QED
    BY <1>13, <2>1, <2>2 DEF Logout, TypeOK
<1> QED
  BY <1>3, <1>4, <1>5, <1>6, <1>7, <1>8, <1>9, <1>10, <1>11, <1>12, <1>13

(* Every step keeps the types.                                             *)
LEMMA TypeStep ==
  ASSUME TypeOK, OneCommand, Revisions, [Next]_vars
  PROVE  TypeOK'
<1>1. CASE UNCHANGED vars
  BY <1>1 DEF vars, TypeOK
<1>2. CASE Enqueue \/ OtherWork
  <2>1. queue' \in Seq(Job) /\ Len(queue') <= QueueCap
    <3>1. PICK job \in Job : queue' = Append(queue, job) /\ Len(queue) < QueueCap
      BY <1>2, Constants DEF Enqueue, OtherWork, TypeOK
    <3> QED
      BY <3>1, AppendIs, DurableAssumption DEF TypeOK
  <2> QED
    BY <1>2, <2>1 DEF Enqueue, OtherWork, TypeOK
<1> QED
  BY <1>1, <1>2, StageType, SubmitType, OwnerType, WorkerRunType, WorkerFlushType
  DEF Next

-----------------------------------------------------------------------------
(***************************************************************************)
(* The staged command is in one place.                                     *)
(***************************************************************************)
NoCarrier == (\A a \in sending : ~Carries(a)) /\ (\A i \in Slots : ~Carries(queue[i]))

(* When no job carries a command or waits for its character.               *)
LEMMA CarriersAre ==
  ASSUME OneCommand
  PROVE  /\ answer # NoAnswer => NoCarrier
         /\ command.at # "worker" /\ reconcile.stage # "reading" => NoCarrier
         /\ ~binding.pending => command.at = "none" /\ reconcile.stage = "none"
                                /\ answer = NoAnswer
  BY DEF OneCommand, NoCarrier, Carries, Fits

(* The queue after a handoff: one more save, or what there was.            *)
LEMMA SendsIs ==
  ASSUME TypeOK, NEW s \in Snapshot, Sends(s) \/ UNCHANGED <<queue, parking>>
  PROVE  /\ Slots = 1 .. Len(queue) /\ Len(queue) \in Nat
         /\ \A i \in Slots : i \in Slots' /\ queue'[i] = queue[i]
         /\ \A i \in Slots' :
              \/ i \in Slots
              \/ /\ queue' # queue /\ parking' = parking /\ i = Len(queue) + 1
                 /\ queue'[i] = SaveJob("save", s)
         /\ parking' \in {parking, s}
         /\ queue' # queue => parking' = parking
         /\ queue' # queue => Len(queue) + 1 \in Slots'
<1>1. queue \in Seq(Job) /\ SaveJob("save", s) \in Job
  BY JobTypes DEF TypeOK
<1>2. Slots = 1 .. Len(queue) /\ Len(queue) \in Nat
  BY <1>1 DEF Slots
<1>3. CASE queue' = queue
  BY <1>2, <1>3 DEF Sends, Slots
<1>4. CASE queue' = Append(queue, SaveJob("save", s)) /\ parking' = parking
  <2> DEFINE x == SaveJob("save", s)
  <2>1. x \in Job
    BY <1>1
  <2> HIDE DEF x
  <2>2. /\ DOMAIN Append(queue, x) = 1 .. Len(queue) + 1
        /\ \A i \in 1 .. Len(queue) : Append(queue, x)[i] = queue[i]
        /\ Append(queue, x)[Len(queue) + 1] = x
        /\ Append(queue, x) # queue
    <3>1. Len(Append(queue, x)) = Len(queue) + 1
      BY <1>1, <2>1
    <3> QED
      BY <1>1, <1>2, <2>1, <3>1, AppendIs
  <2>3. queue' = Append(queue, x) /\ Slots' = 1 .. Len(queue) + 1
    BY <1>4, <2>2 DEF Slots, x
  <2> QED
    BY <1>2, <1>4, <2>2, <2>3 DEF x
<1> QED
  BY <1>3, <1>4 DEF Sends

(* A handoff adds no job that carries a command.                           *)
LEMMA StillNoCarrier ==
  ASSUME TypeOK, NoCarrier, NEW s \in Snapshot,
         Sends(s) \/ UNCHANGED <<queue, parking>>, UNCHANGED sending
  PROVE  NoCarrier'
<1>1. \A i \in Slots' :
        \/ i \in Slots /\ queue'[i] = queue[i]
        \/ queue'[i] = SaveJob("save", s)
  BY SendsIs
<1> QED
  BY <1>1 DEF NoCarrier, Carries, SaveJob

(* A departure sends the last snapshot.                                    *)
Final == [revision |-> binding'.persistence + 1, place |-> binding'.place]

(* A departure hands over its last snapshot, or nothing.                   *)
LEMMA LeavesSends ==
  ASSUME binding' \in Binding, Leaves
  PROVE  Final \in Snapshot /\ (Sends(Final) \/ UNCHANGED <<queue, parking>>)
  BY DEF Leaves, Final, Snapshot, Binding

(* A binding and jobs that carry nothing.                                  *)
LEMMA IdleStep ==
  ASSUME NoCarrier', answer' = NoAnswer, command'.at = "none", reconcile'.stage = "none",
         ~binding'.pending, \A a \in sending' : a.op # "save"
  PROVE  OneCommand'
  BY DEF OneCommand, NoCarrier

(* A command that is over is nowhere any more.                             *)
LEMMA FinishCommand ==
  ASSUME TypeOK, OneCommand, SettleRefused \/ SettleCommitted \/ CompleteReconcile
  PROVE  OneCommand'
<1>1. /\ answer \in Answer /\ reconcile \in Reconcile /\ binding \in Binding
      /\ answer.revision \in Nat /\ reconcile.revision \in Nat /\ binding.committed \in Nat
  BY DEF TypeOK, Answer, Reconcile, Binding
<1>2. NoCarrier /\ answer' = NoAnswer /\ command'.at = "none" /\ reconcile'.stage = "none"
  <2>1. CASE SettleRefused \/ SettleCommitted
    <3>1. answer # NoAnswer /\ answer' = NoAnswer /\ command' = NoCommand
          /\ UNCHANGED reconcile
      BY <2>1, Constants DEF SettleRefused, SettleCommitted
    <3>2. command.at = "worker"
      BY <3>1 DEF OneCommand
    <3>3. reconcile.stage = "none"
      BY <3>2 DEF OneCommand
    <3> QED
      BY <3>1, <3>3, CarriersAre, Constants
  <2>2. CASE CompleteReconcile
    <3>1. reconcile.stage = "read" /\ reconcile' = NoReconcile /\ UNCHANGED <<command, answer>>
      BY <2>2 DEF CompleteReconcile
    <3>2. command.at = "none" /\ answer = NoAnswer
      BY <3>1 DEF OneCommand
    <3> QED
      BY <3>1, <3>2, CarriersAre, Constants
  <2> QED
    BY <2>1, <2>2
<1>3. UNCHANGED sending
  BY DEF SettleRefused, SettleCommitted, CompleteReconcile
<1>4. PICK n \in Nat : FinishDurable(n)
  BY <1>1 DEF SettleRefused, SettleCommitted, CompleteReconcile
<1>5. ~binding'.pending /\ binding' \in Binding
      /\ (Leaves \/ UNCHANGED <<queue, parking>>)
  BY <1>4, FinishIs
<1>6. NoCarrier'
  <2>1. \E s \in Snapshot : Sends(s) \/ UNCHANGED <<queue, parking>>
    BY <1>5, LeavesSends, Constants
  <2> QED
    BY <1>2, <1>3, <2>1, StillNoCarrier
<1> QED
  BY <1>2, <1>3, <1>5, <1>6, IdleStep DEF OneCommand

(* A step that leaves the command where it is.                             *)
LEMMA CommandStays ==
  ASSUME TypeOK, OneCommand, NEW s \in Snapshot,
         Sends(s) \/ UNCHANGED <<queue, parking>>,
         UNCHANGED <<sending, command, reconcile, answer>>,
         binding'.pending = binding.pending, used'.commands = used.commands,
         binding.pending => binding'.in
  PROVE  OneCommand'
<1>1. \A i \in Slots' :
        Carries(queue'[i]) => i \in Slots /\ queue'[i] = queue[i]
  <2>1. \A i \in Slots' :
        \/ i \in Slots /\ queue'[i] = queue[i]
        \/ queue'[i] = SaveJob("save", s)
    BY SendsIs
  <2>2. ~Carries(SaveJob("save", s))
    BY DEF Carries, SaveJob
  <2> QED
    BY <2>1, <2>2
<1>3. \A i, j \in Slots' : Carries(queue'[i]) /\ Carries(queue'[j]) => i = j
  BY <1>1 DEF OneCommand
<1>4. \A a \in sending, i \in Slots' : Carries(a) => ~Carries(queue'[i])
  BY <1>1 DEF OneCommand
<1>5. \A i \in Slots' : Carries(queue'[i]) => Fits(queue[i])'
  BY <1>1 DEF OneCommand, Fits
<1>6. \A a \in sending : Carries(a) => Fits(a)'
  BY DEF OneCommand, Fits
<1> QED
  BY <1>3, <1>4, <1>5, <1>6 DEF OneCommand, Carries

(* Reports, snapshots and departures leave the command where it is.        *)
LEMMA OwnerCommand ==
  ASSUME TypeOK, OneCommand, Revisions,
         \/ AdoptReports \/ RequestSave \/ Park \/ LoseAuthority \/ Detach \/ WorkerFlush
         \/ UNCHANGED vars
  PROVE  OneCommand'
<1>1. binding \in Binding /\ NoSnapshot \in Snapshot
  BY Constants DEF TypeOK
<1>2. binding.pending => binding.in
  BY DEF OneCommand
<1>3. CASE AdoptReports
  <2>1. binding'.pending = binding.pending /\ binding'.in = binding.in
    BY <1>3, AdoptedIs DEF AdoptReports
  <2> QED
    BY <1>1, <1>2, <1>3, <2>1, CommandStays DEF AdoptReports
<1>4. CASE RequestSave
  <2> DEFINE s == [revision |-> binding'.persistence, place |-> binding'.place]
  <2>1. /\ s \in Snapshot /\ (Sends(s) \/ UNCHANGED <<queue, parking>>)
        /\ binding'.pending = binding.pending /\ binding'.in
    BY <1>4, RequestIs DEF Snapshot, Binding
  <2>2. /\ UNCHANGED <<sending, command, reconcile, answer>>
        /\ used'.commands = used.commands
    BY <1>4 DEF RequestSave, TypeOK, Used
  <2> HIDE DEF s
  <2> QED
    BY <2>1, <2>2, CommandStays
<1>5. CASE Park
  <2>1. Sends(NoSnapshot)
    BY <1>5 DEF Park, Sends
  <2>2. binding'.pending = binding.pending /\ binding'.in = binding.in
    BY <1>5, ParkIs
  <2> QED
    BY <1>1, <1>2, <1>5, <2>1, <2>2, CommandStays DEF Park
<1>6. CASE LoseAuthority
  <2>1. binding'.pending = binding.pending /\ binding'.in = binding.in
    BY <1>1, <1>6 DEF LoseAuthority, Binding
  <2> QED
    BY <1>1, <1>2, <1>6, <2>1, CommandStays DEF LoseAuthority
<1>7. CASE Detach /\ binding.pending
  <2>1. binding' = [binding EXCEPT !.detach = TRUE] /\ UNCHANGED <<queue, parking>>
    BY <1>7 DEF Detach
  <2>2. binding'.pending = binding.pending /\ binding'.in = binding.in
    BY <1>1, <2>1 DEF Binding
  <2> QED
    BY <1>1, <1>2, <1>7, <2>1, <2>2, CommandStays DEF Detach
<1>8. CASE Detach /\ ~binding.pending
  <2>1. /\ binding'.pending = binding.pending /\ binding' \in Binding /\ Leaves
    BY <1>1, <1>8, LeaveIs DEF Detach
  <2>2. Final \in Snapshot /\ (Sends(Final) \/ UNCHANGED <<queue, parking>>)
    BY <2>1, LeavesSends
  <2> QED
    BY <1>8, <2>1, <2>2, CommandStays DEF Detach
<1>9. CASE WorkerFlush
  <2>1. used'.commands = used.commands
    <3>1. CASE ExecuteSave(parked)
      BY <3>1, ExecuteSaveIs DEF SaveStep, TypeOK
    <3> QED
      BY <1>9, <3>1 DEF WorkerFlush
  <2> QED
    BY <1>1, <1>2, <1>9, <2>1, CommandStays DEF WorkerFlush
<1>10. CASE UNCHANGED vars
  BY <1>1, <1>2, <1>10, CommandStays DEF vars
<1> QED
  BY <1>3, <1>4, <1>5, <1>6, <1>7, <1>8, <1>9, <1>10

(* A staged command is with the owner.                                     *)
LEMMA StageCommand ==
  ASSUME TypeOK, OneCommand, Revisions, NEW kind \in Kind, Stage(kind)
  PROVE  OneCommand'
<1>1. /\ ~binding.pending /\ binding.in /\ reconcile.stage = "none"
      /\ UNCHANGED <<queue, sending, answer, reconcile>>
      /\ used' = [used EXCEPT !.commands = @ + 1] /\ used.commands < MaxCommands
      /\ command'.token = used.commands + 1 /\ command'.at = "outbound"
  BY DEF Stage, ActionsBlocked
<1>2. binding'.pending /\ binding'.in
  <2>1. binding' = [Adopted(binding) EXCEPT !.pending = TRUE]
    BY DEF Stage
  <2>2. Adopted(binding) \in Binding /\ Adopted(binding).in = binding.in
    BY AdoptedIs
  <2> HIDE DEF Adopted
  <2> QED
    BY <1>1, <2>1, <2>2 DEF Binding
<1>3. /\ used.commands \in Nat /\ used'.commands = used.commands + 1
      /\ command'.token \in Token
  BY <1>1, DurableAssumption DEF TypeOK, Used, Token
<1>4. NoCarrier /\ answer = NoAnswer
  BY <1>1, CarriersAre
<1> QED
  BY <1>1, <1>2, <1>3, <1>4 DEF OneCommand, NoCarrier, Slots, Carries

(* A submitted command is in the one job that carries it.                  *)
LEMMA SubmitCommand ==
  ASSUME TypeOK, OneCommand, Revisions, SubmitCommit
  PROVE  OneCommand'
<1> DEFINE b == Adopted(binding)
           aligned == [command EXCEPT !.at = "worker",
                                      !.key.revision = Later(@, b.committed)]
<1>1. /\ command.at \in {"outbound", "retry"}
      /\ binding' = b /\ command' = aligned
      /\ sending' = sending \cup {CommitJob(aligned)}
      /\ UNCHANGED <<queue, answer, reconcile, used>>
  BY DEF SubmitCommit
<1>2. /\ b \in Binding /\ b.committed \in Nat /\ b.in = binding.in
      /\ b.pending = binding.pending
  BY AdoptedIs DEF Binding
<1>3. aligned.token = command.token /\ aligned.at = "worker"
  <2> HIDE DEF b
  <2> QED
    BY <1>2, AlignedIs DEF TypeOK
<1>4. NoCarrier /\ answer = NoAnswer
  BY <1>1, CarriersAre DEF OneCommand
<1>5. /\ CommitJob(aligned).op = "commit" /\ CommitJob(aligned).token = aligned.token
      /\ CommitJob(aligned).key = aligned.key
  BY DEF CommitJob
<1> HIDE DEF b, aligned
<1>6. \A a \in sending' : Carries(a) => a = CommitJob(aligned) /\ Fits(a)'
  BY <1>1, <1>3, <1>4, <1>5 DEF NoCarrier, Fits
<1>7. \A i \in Slots' : ~Carries(queue'[i])
  BY <1>1, <1>4 DEF NoCarrier, Slots
<1> QED
  BY <1>1, <1>2, <1>3, <1>4, <1>5, <1>6, <1>7 DEF OneCommand

(* A command goes back to the owner, or to the reconcile.                  *)
LEMMA SettleCommand ==
  ASSUME TypeOK, OneCommand,
         SettleUnknown \/ SettleUnapplied \/ TakeReconcileJobs \/ ReconcileFails
  PROVE  OneCommand'
<1>1. UNCHANGED queue
  BY DEF SettleUnknown, SettleUnapplied, TakeReconcileJobs, ReconcileFails
<1>2. /\ binding \in Binding /\ command \in Command /\ reconcile \in Reconcile
      /\ used \in Used
  BY DEF TypeOK
<1>3. CASE SettleUnknown \/ SettleUnapplied
  <2>1. answer # NoAnswer /\ answer' = NoAnswer /\ UNCHANGED sending
    BY <1>3, Constants DEF SettleUnknown, SettleUnapplied
  <2>2. NoCarrier'
    BY <1>1, <2>1, CarriersAre DEF NoCarrier, Slots
  <2>3. command.at = "worker" /\ binding.pending /\ reconcile.stage = "none"
        /\ command.token \in Token /\ command.token = used.commands
    BY <2>1 DEF OneCommand
  <2>4. CASE SettleUnknown
    <3>1. /\ binding'.pending = binding.pending /\ binding'.in = binding.in
          /\ command'.at = "retry" /\ command'.token = command.token
          /\ UNCHANGED <<reconcile, used>>
      BY <1>2, <2>4 DEF SettleUnknown, Binding, Command
    <3> QED
      BY <2>1, <2>2, <2>3, <3>1 DEF OneCommand, NoCarrier
  <2>5. CASE SettleUnapplied
    <3>1. /\ UNCHANGED binding /\ command'.at = "none"
          /\ reconcile'.token = command.token
      BY <2>5, Constants DEF SettleUnapplied
    <3> QED
      BY <2>1, <2>2, <2>3, <3>1 DEF OneCommand, NoCarrier
  <2> QED
    BY <1>3, <2>4, <2>5
<1>4. CASE TakeReconcileJobs
  <2>1. /\ reconcile.stage = "wanted" /\ reconcile'.stage = "reading"
        /\ reconcile'.token = reconcile.token
        /\ sending' = sending \cup {ReadJob}
        /\ UNCHANGED <<binding, command, answer, used>>
    BY <1>2, <1>4 DEF TakeReconcileJobs, Reconcile
  <2>2. command.at = "none" /\ answer = NoAnswer /\ binding.pending
        /\ reconcile.token \in Token
    BY <2>1 DEF OneCommand
  <2>3. NoCarrier
    BY <2>1, <2>2, CarriersAre
  <2>4. ReadJob.op = "read"
    BY DEF ReadJob
  <2>5. \A a \in sending' : Carries(a) => a = ReadJob /\ Fits(a)'
    BY <2>1, <2>2, <2>3, <2>4 DEF NoCarrier, Fits
  <2>6. \A i \in Slots' : ~Carries(queue'[i])
    BY <1>1, <2>3 DEF NoCarrier, Slots
  <2> QED
    BY <2>1, <2>2, <2>4, <2>5, <2>6 DEF OneCommand
<1>5. CASE ReconcileFails
  <2>1. /\ reconcile.stage = "read" /\ reconcile'.stage \in {"stuck", "wanted"}
        /\ reconcile'.token = reconcile.token
        /\ UNCHANGED <<binding, command, answer, sending>>
    BY <1>2, <1>5 DEF ReconcileFails, Reconcile
  <2>2. command.at = "none" /\ answer = NoAnswer /\ binding.pending
        /\ reconcile.token \in Token
    BY <2>1 DEF OneCommand
  <2>3. NoCarrier
    BY <2>1, <2>2, CarriersAre
  <2>4. NoCarrier'
    BY <1>1, <2>1, <2>3 DEF NoCarrier, Slots
  <2> QED
    BY <2>1, <2>2, <2>4 DEF OneCommand, NoCarrier
<1> QED
  BY <1>3, <1>4, <1>5

(* A logout with nothing pending carries no command.                       *)
LEMMA LogoutCommand ==
  ASSUME TypeOK, OneCommand, Logout
  PROVE  OneCommand'
<1>1. /\ ~binding.pending /\ binding' = [binding EXCEPT !.in = FALSE]
      /\ sending' = sending \cup {SaveJob("logout", NextSnapshot(binding))}
      /\ UNCHANGED <<command, reconcile, queue, answer>>
  BY DEF Logout
<1>2. ~binding'.pending
  BY <1>1 DEF TypeOK, Binding
<1>3. SaveJob("logout", NextSnapshot(binding)).op = "logout"
  BY DEF SaveJob
<1>4. /\ NoCarrier /\ answer' = NoAnswer /\ command'.at = "none"
      /\ reconcile'.stage = "none"
  BY <1>1, CarriersAre DEF NoCarrier
<1>5. NoCarrier'
  BY <1>1, <1>3, <1>4 DEF NoCarrier, Carries, Slots
<1>6. \A a \in sending' : a.op # "save"
  BY <1>1, <1>3 DEF OneCommand
<1> QED
  BY <1>2, <1>4, <1>5, <1>6, IdleStep

(* The queue got a job, which a task sent or which is of someone else.     *)
LEMMA EntersIs ==
  ASSUME TypeOK, Enqueue \/ OtherWork
  PROVE  \E job \in Job :
         /\ \/ job \in sending /\ sending' = sending \ {job}
            \/ job = OtherJob /\ sending' = sending
         /\ UNCHANGED <<binding, command, reconcile, parking, parked, worker, reports,
                        answer, store, world, told, used>>
         /\ Slots = 1 .. Len(queue) /\ Len(queue) \in Nat
         /\ Slots' = 1 .. Len(queue) + 1
         /\ \A i \in Slots : queue'[i] = queue[i]
         /\ queue'[Len(queue) + 1] = job
<1>1. PICK job \in Job :
        /\ queue' = Append(queue, job)
        /\ \/ job \in sending /\ sending' = sending \ {job}
           \/ job = OtherJob /\ sending' = sending
  BY Constants DEF Enqueue, OtherWork, TypeOK
<1>2. /\ Slots = 1 .. Len(queue) /\ Len(queue) \in Nat
      /\ Slots' = 1 .. Len(queue) + 1
      /\ \A i \in Slots : queue'[i] = queue[i]
      /\ queue'[Len(queue) + 1] = job
  BY <1>1, AppendIs DEF Slots, TypeOK
<1>3. UNCHANGED <<binding, command, reconcile, parking, parked, worker, reports,
                  answer, store, world, told, used>>
  BY DEF Enqueue, OtherWork
<1> QED
  BY <1>1, <1>2, <1>3

(* The queue takes over the job that carries the command.                  *)
LEMMA EnterCommand ==
  ASSUME TypeOK, OneCommand, Enqueue \/ OtherWork
  PROVE  OneCommand'
<1>1. PICK job \in Job :
         /\ \/ job \in sending /\ sending' = sending \ {job}
            \/ job = OtherJob /\ sending' = sending
         /\ UNCHANGED <<binding, command, reconcile, answer, used>>
         /\ Slots = 1 .. Len(queue) /\ Len(queue) \in Nat
         /\ Slots' = 1 .. Len(queue) + 1
         /\ \A i \in Slots : queue'[i] = queue[i]
         /\ queue'[Len(queue) + 1] = job
  BY EntersIs
<1>2. ~Carries(OtherJob) /\ OtherJob.op # "save"
  BY DEF Carries, OtherJob
<1>3. \A i \in Slots' : i \in Slots \/ i = Len(queue) + 1
  BY <1>1
<1>4. \A a : Fits(a) <=> Fits(a)'
  BY <1>1 DEF Fits
<1>5. Carries(job) => Fits(job) /\ (\A i \in Slots : ~Carries(queue[i]))
  BY <1>1, <1>2 DEF OneCommand
<1>6. sending' \subseteq sending /\ (\A a \in sending' : Carries(a) => ~Carries(job))
  BY <1>1, <1>2 DEF OneCommand
<1>7. \A i, j \in Slots' : Carries(queue'[i]) /\ Carries(queue'[j]) => i = j
  BY <1>1, <1>3, <1>5 DEF OneCommand
<1>8. \A a \in sending', i \in Slots' : Carries(a) => ~Carries(queue'[i])
  BY <1>1, <1>3, <1>6 DEF OneCommand
<1>9. \A i \in Slots' : Carries(queue'[i]) => Fits(queue'[i])
  BY <1>1, <1>3, <1>5 DEF OneCommand
<1>10. \A i \in Slots' : Carries(queue'[i]) => Fits(queue[i])'
  BY <1>4, <1>9
<1>11. \A a \in sending' : Carries(a) => Fits(a)'
  BY <1>4, <1>6 DEF OneCommand
<1> QED
  BY <1>1, <1>6, <1>7, <1>8, <1>10, <1>11 DEF OneCommand

(* The queue after its first job was taken.                                *)
LEMMA TakenIs ==
  ASSUME TypeOK, queue # <<>>, queue' = Tail(queue)
  PROVE  /\ 1 \in Slots
         /\ \A i \in Slots' : i + 1 \in Slots /\ i + 1 # 1 /\ queue'[i] = queue[i + 1]
         /\ \A i \in Slots : i = 1 \/ (i - 1 \in Slots' /\ queue'[i - 1] = queue[i])
         /\ \A i, j \in Slots' : i + 1 = j + 1 => i = j
<1>1. /\ DOMAIN Tail(queue) = 1 .. Len(queue) - 1 /\ DOMAIN queue = 1 .. Len(queue)
      /\ Len(queue) \in Nat \ {0}
      /\ \A i \in 1 .. Len(queue) - 1 : Tail(queue)[i] = queue[i + 1]
  BY TailIs DEF TypeOK
<1>2. Slots = 1 .. Len(queue) /\ Slots' = 1 .. Len(queue) - 1
  BY <1>1 DEF Slots
<1> QED
  BY <1>1, <1>2

(* The command leaves its job for an answer or a read character.           *)
LEMMA WorkerCommand ==
  ASSUME TypeOK, OneCommand, WorkerRun
  PROVE  OneCommand'
<1> DEFINE job == queue[1]
<1>1. /\ queue # <<>> /\ queue' = Tail(queue) /\ job \in Job
      /\ UNCHANGED <<binding, command, sending>>
      /\ \/ /\ job.op = "save" /\ ExecuteSave(job.snapshot)
            /\ UNCHANGED <<answer, reconcile>>
         \/ job.op = "logout" /\ ExecuteLogout(job.snapshot)
         \/ job.op = "commit" /\ CommitStep(job) /\ job.token \in Token
         \/ job.op = "read" /\ ExecuteRead
         \/ job.op = "other" /\ UNCHANGED <<answer, reconcile, reports, store, used>>
  BY WorkerRunIs
<1>2. /\ 1 \in Slots
      /\ \A i \in Slots' : i + 1 \in Slots /\ i + 1 # 1 /\ queue'[i] = queue[i + 1]
      /\ \A i, j \in Slots' : i + 1 = j + 1 => i = j
  BY <1>1, TakenIs
<1>3. /\ \A i, j \in Slots' : Carries(queue'[i]) /\ Carries(queue'[j]) => i = j
      /\ \A a \in sending, i \in Slots' : Carries(a) => ~Carries(queue'[i])
  BY <1>2 DEF OneCommand
<1>4. job.op \in {"commit", "read"} => NoCarrier' /\ Fits(job)
  <2> SUFFICES ASSUME job.op \in {"commit", "read"} PROVE NoCarrier' /\ Fits(job)
    OBVIOUS
  <2>1. Carries(job)
    BY DEF Carries
  <2>2. \A i \in Slots' : ~Carries(queue'[i])
    BY <1>2, <2>1 DEF OneCommand
  <2>3. \A a \in sending' : ~Carries(a)
    BY <1>1, <1>2, <2>1 DEF OneCommand
  <2> QED
    BY <1>2, <2>1, <2>2, <2>3 DEF OneCommand, NoCarrier
<1> HIDE DEF job
<1>5. CASE job.op \in {"save", "logout", "other"}
  <2>1. UNCHANGED <<answer, reconcile>> /\ used'.commands = used.commands
    <3>1. job.snapshot \in Snapshot \/ job.op = "other"
      BY <1>1, <1>5, JobTypes
    <3>2. CASE job.op = "save"
      BY <1>1, <3>1, <3>2, ExecuteSaveIs DEF SaveStep
    <3>3. CASE job.op = "logout"
      BY <1>1, <3>1, <3>3, ExecuteLogoutIs DEF SaveStep
    <3>4. CASE job.op = "other"
      BY <1>1, <3>4
    <3> QED
      BY <1>5, <3>2, <3>3, <3>4
  <2>2. \A a : Fits(a) <=> Fits(a)'
    BY <1>1, <2>1 DEF Fits
  <2>3. \A i \in Slots' : Carries(queue'[i]) => Fits(queue[i])'
    <3>1. \A i \in Slots' : Carries(queue'[i]) => Fits(queue'[i])
      BY <1>2 DEF OneCommand
    <3> QED
      BY <2>2, <3>1
  <2>4. \A a \in sending' : Carries(a) => Fits(a)'
    BY <1>1, <2>2 DEF OneCommand
  <2> QED
    BY <1>1, <1>3, <2>1, <2>3, <2>4 DEF OneCommand
<1>6. CASE job.op = "commit"
  <2>1. /\ command.at = "worker" /\ UNCHANGED reconcile /\ answer'.result # "none"
        /\ used'.commands = used.commands
    BY <1>1, <1>4, <1>6 DEF Fits, CommitStep
  <2> QED
    BY <1>1, <1>4, <1>6, <2>1 DEF OneCommand, NoCarrier
<1>7. CASE job.op = "read"
  <2>1. reconcile.stage = "reading" /\ answer = NoAnswer
    BY <1>4, <1>7 DEF Fits
  <2>2. /\ reconcile'.stage = "read" /\ reconcile'.token = reconcile.token
        /\ UNCHANGED <<answer, used>>
    <3>1. ExecuteRead
      BY <1>1, <1>7
    <3> QED
      BY <3>1 DEF ExecuteRead, TypeOK, Reconcile
  <2> QED
    BY <1>1, <1>4, <1>7, <2>1, <2>2 DEF OneCommand, NoCarrier
<1> QED
  BY <1>1, <1>5, <1>6, <1>7

(* Every step keeps the command in one place.                              *)
LEMMA CommandStep ==
  ASSUME TypeOK, OneCommand, Revisions, [Next]_vars
  PROVE  OneCommand'
  BY StageCommand, SubmitCommand, OwnerCommand, SettleCommand, FinishCommand,
     LogoutCommand, EnterCommand, WorkerCommand
  DEF Next

-----------------------------------------------------------------------------
(***************************************************************************)
(* Revisions.                                                              *)
(***************************************************************************)
(* Everything that is compared is a number.                                *)
LEMMA Numbers ==
  ASSUME TypeOK
  PROVE  /\ binding.persistence \in Nat /\ binding.committed \in Nat
         /\ binding.place \in Nat /\ binding.deferred \in Nat
         /\ binding.in \in BOOLEAN /\ binding.pending \in BOOLEAN
         /\ binding.lost \in BOOLEAN
         /\ store.revision \in Nat /\ store.recorded \in Nat /\ store.place \in Nat
         /\ store.keys \subseteq Key /\ store.executed \subseteq Token
         /\ \A k \in store.keys : k.revision \in Nat
         /\ \A r \in reports : r.revision \in Nat /\ r.committed \in BOOLEAN
         /\ answer.revision \in Nat /\ reconcile.revision \in Nat
         /\ reconcile.restored \subseteq Token
         /\ command.key \in Key /\ command.key.revision \in Nat
         /\ {parked.revision, parked.place, parking.revision, parking.place} \subseteq Nat
         /\ {used.commands, used.saves, used.lost, used.failures} \subseteq Nat
<1>1. /\ binding \in Binding /\ store \in Store /\ answer \in Answer
      /\ reconcile \in Reconcile /\ command \in Command /\ used \in Used
      /\ parked \in Snapshot /\ parking \in Snapshot
      /\ reports \subseteq [revision : Nat, committed : BOOLEAN]
  BY DEF TypeOK
<1>2. store.keys \subseteq Key /\ \A k \in store.keys : k.revision \in Nat
  BY <1>1 DEF Store, Key
<1>3. command.key \in Key /\ command.key.revision \in Nat
  BY <1>1 DEF Command, Key
<1> QED
  BY <1>1, <1>2, <1>3
  DEF Binding, Store, Answer, Reconcile, Used, Snapshot

(* A step that leaves the database alone.                                  *)
LEMMA RevisionsKept ==
  ASSUME TypeOK, TypeOK', Revisions, UNCHANGED store, reports' \subseteq reports,
         binding'.in => binding.in, binding'.persistence >= binding.persistence,
         binding'.committed <= store.revision,
         binding'.committed <= binding'.persistence,
         command'.at # "none" => command'.key.revision <= binding'.persistence,
         reconcile'.stage # "none" => reconcile'.revision <= store.revision,
         answer'.result = "ok" => answer' = answer
  PROVE  Revisions'
<1>1. /\ binding.persistence \in Nat
      /\ store.revision \in Nat /\ store.recorded \in Nat
      /\ \A r \in reports : r.revision \in Nat
  BY Numbers
<1>1a. binding'.persistence \in Nat
  BY DEF TypeOK, Binding
<1>2. \A r \in reports' : /\ r.committed => r.revision <= store.revision
                          /\ binding'.in => r.revision <= binding'.persistence
  BY <1>1, <1>1a DEF Revisions
<1> QED
  BY <1>1, <1>1a, <1>2 DEF Revisions

(* A finished command leaves the revisions in order.                       *)
LEMMA FinishRevisions ==
  ASSUME TypeOK, TypeOK', OneCommand, Revisions,
         SettleRefused \/ SettleCommitted \/ CompleteReconcile
  PROVE  Revisions'
<1>1. PICK n \in Nat : FinishDurable(n) /\ n <= store.revision
  <2>1. CASE SettleRefused
    BY <2>1, Numbers DEF SettleRefused, Revisions
  <2>2. CASE SettleCommitted
    BY <2>2, Numbers DEF SettleCommitted, Revisions
  <2>3. CASE CompleteReconcile
    BY <2>3, Numbers DEF CompleteReconcile, Revisions
  <2> QED
    BY <2>1, <2>2, <2>3
<1>2. /\ binding'.persistence = Later(binding.persistence, n)
      /\ binding'.committed = Later(binding.committed, n)
      /\ Leaves \/ binding'.in = binding.in
  BY <1>1, FinishIs
<1>3. /\ UNCHANGED store /\ reports' = reports /\ command'.at = "none"
      /\ reconcile'.stage = "none" /\ (answer' = answer \/ answer' = NoAnswer)
  <2>1. CASE SettleRefused \/ SettleCommitted
    <3>1. answer # NoAnswer
      BY <2>1, Constants DEF SettleRefused, SettleCommitted
    <3>2. reconcile.stage = "none"
      BY <3>1 DEF OneCommand
    <3> QED
      BY <2>1, <3>2, Constants DEF SettleRefused, SettleCommitted
  <2>2. CASE CompleteReconcile
    <3>1. command.at = "none"
      BY <2>2 DEF CompleteReconcile, OneCommand
    <3> QED
      BY <2>2, <3>1, Constants DEF CompleteReconcile
  <2> QED
    BY <2>1, <2>2
<1>4. /\ binding'.persistence >= binding.persistence
      /\ binding'.committed <= store.revision
      /\ binding'.committed <= binding'.persistence
      /\ binding'.in => binding.in
  BY <1>1, <1>2, Numbers DEF Later, Revisions, Leaves
<1> QED
  BY <1>3, <1>4, Constants, RevisionsKept

(* The owner's other steps leave the revisions in order.                   *)
LEMMA OwnerRevisions ==
  ASSUME TypeOK, TypeOK', OneCommand, Revisions,
         \/ AdoptReports \/ RequestSave \/ Park \/ LoseAuthority \/ Detach \/ Logout
         \/ Enqueue \/ OtherWork \/ SettleUnknown \/ SettleUnapplied
         \/ TakeReconcileJobs \/ ReconcileFails \/ UNCHANGED vars
  PROVE  Revisions'
<1>1. /\ binding \in Binding /\ command \in Command /\ reconcile \in Reconcile
      /\ binding.pending => binding.in
  BY DEF TypeOK, OneCommand
<1>2. /\ UNCHANGED store /\ reports' \subseteq reports
      /\ answer' = answer \/ answer' = NoAnswer
  BY DEF AdoptReports, RequestSave, Park, LoseAuthority, Detach, Logout, Enqueue,
         OtherWork, SettleUnknown, SettleUnapplied, TakeReconcileJobs, ReconcileFails,
         vars
<1>3. /\ binding'.in => binding.in
      /\ binding'.persistence >= binding.persistence
      /\ binding'.committed <= store.revision
      /\ binding'.committed <= binding'.persistence
  <2>1. CASE AdoptReports
    BY <2>1, AdoptedIs, Numbers DEF AdoptReports
  <2>2. CASE RequestSave
    BY <2>2, RequestIs, Numbers DEF Revisions
  <2>3. CASE Park
    BY <2>3, ParkIs, Numbers DEF Revisions
  <2>4. CASE Detach /\ ~binding.pending
    <3>1. /\ Leaves /\ binding'.persistence = binding.persistence
          /\ binding'.committed = binding.committed
      BY <1>1, <2>4, LeaveIs DEF Detach
    <3> QED
      BY <3>1, Numbers DEF Leaves, Revisions
  <2>5. CASE \/ LoseAuthority \/ SettleUnknown \/ Logout \/ (Detach /\ binding.pending)
    <3>1. /\ binding'.persistence = binding.persistence
          /\ binding'.committed = binding.committed
          /\ binding'.in => binding.in
      BY <1>1, <2>5 DEF LoseAuthority, SettleUnknown, Logout, Detach, Binding
    <3> QED
      BY <3>1, Numbers DEF Revisions
  <2>6. CASE UNCHANGED binding
    BY <2>6, Numbers DEF Revisions
  <2>7. UNCHANGED binding \/ AdoptReports \/ RequestSave \/ Park \/ Detach
          \/ LoseAuthority \/ SettleUnknown \/ Logout
    BY DEF Enqueue, OtherWork, SettleUnapplied, TakeReconcileJobs, ReconcileFails, vars
  <2> QED
    BY <2>1, <2>2, <2>3, <2>4, <2>5, <2>6, <2>7
<1>4. command'.at # "none" => command'.key.revision <= binding'.persistence
  <2>1. CASE SettleUnapplied
    BY <2>1, Constants DEF SettleUnapplied
  <2>2. CASE SettleUnknown
    <3>1. answer # NoAnswer
      BY <2>2, Constants DEF SettleUnknown
    <3>2. command.at # "none" /\ command'.key = command.key
      BY <1>1, <2>2, <3>1 DEF SettleUnknown, Command, OneCommand
    <3>3. binding'.persistence = binding.persistence
      BY <1>1, <2>2 DEF SettleUnknown, Binding
    <3> QED
      BY <3>2, <3>3 DEF Revisions
  <2>3. UNCHANGED command \/ SettleUnknown \/ SettleUnapplied
    BY DEF AdoptReports, RequestSave, Park, LoseAuthority, Detach, Logout, Enqueue,
           OtherWork, TakeReconcileJobs, ReconcileFails, vars
  <2>5. /\ binding.persistence \in Nat /\ binding'.persistence \in Nat
        /\ command.key.revision \in Nat
    <3>1. binding' \in Binding
      BY DEF TypeOK
    <3> QED
      BY <3>1, Numbers DEF Binding
  <2>4. CASE UNCHANGED command
    BY <1>3, <2>4, <2>5 DEF Revisions
  <2> QED
    BY <2>1, <2>2, <2>3, <2>4
<1>5. reconcile'.stage # "none" => reconcile'.revision <= store.revision
  <2>1. CASE SettleUnapplied
    BY <2>1 DEF SettleUnapplied, Revisions
  <2>2. CASE TakeReconcileJobs \/ ReconcileFails
    BY <1>1, <2>2 DEF TakeReconcileJobs, ReconcileFails, Revisions, Reconcile
  <2>3. CASE UNCHANGED reconcile
    BY <2>3 DEF Revisions
  <2>4. UNCHANGED reconcile \/ SettleUnapplied \/ TakeReconcileJobs \/ ReconcileFails
    BY DEF AdoptReports, RequestSave, Park, LoseAuthority, Detach, Logout, Enqueue,
           OtherWork, SettleUnknown, vars
  <2> QED
    BY <2>1, <2>2, <2>3, <2>4
<1> QED
  BY <1>2, <1>3, <1>4, <1>5, Constants, RevisionsKept

(* A staged or submitted key expects a revision the owner knows.           *)
LEMMA StageRevisions ==
  ASSUME TypeOK, TypeOK', OneCommand, Revisions,
         SubmitCommit \/ (\E kind \in Kind : Stage(kind))
  PROVE  Revisions'
<1> DEFINE b == Adopted(binding)
<1>1. /\ b \in Binding /\ b.in = binding.in
      /\ b.persistence = binding.persistence
      /\ b.committed <= b.persistence /\ b.committed <= store.revision
      /\ b.committed \in Nat
  BY AdoptedIs DEF Binding
<1>2. CASE \E kind \in Kind : Stage(kind)
  <2>1. PICK kind \in Kind : Stage(kind)
    BY <1>2
  <2>2. /\ binding' = [b EXCEPT !.pending = TRUE] /\ reports' = {}
        /\ UNCHANGED <<store, answer, reconcile>>
        /\ reconcile.stage = "none"
        /\ command'.key.revision = binding'.committed
    BY <2>1 DEF Stage, ActionsBlocked
  <2> HIDE DEF b
  <2>3. /\ binding'.in = b.in /\ binding'.persistence = b.persistence
        /\ binding'.committed = b.committed
    BY <1>1, <2>2 DEF Binding
  <2> QED
    BY <1>1, <2>2, <2>3, Numbers, RevisionsKept
<1>3. CASE SubmitCommit
  <2> DEFINE aligned == [command EXCEPT !.at = "worker",
                                        !.key.revision = Later(@, b.committed)]
  <2>1. /\ binding' = b /\ reports' = {} /\ UNCHANGED <<store, answer, reconcile>>
        /\ command' = aligned /\ command.at # "none"
    BY <1>3 DEF SubmitCommit
  <2> HIDE DEF b
  <2>2. aligned.key.revision = Later(command.key.revision, b.committed)
    BY <1>1, AlignedIs DEF TypeOK
  <2> HIDE DEF aligned
  <2>3. command'.key.revision <= binding'.persistence
    BY <1>1, <2>1, <2>2, Numbers DEF Later, Revisions
  <2> QED
    BY <1>1, <2>1, <2>3, Numbers, RevisionsKept DEF Revisions
<1> QED
  BY <1>2, <1>3

(* A snapshot is written, and reported if it is not that of a logout.      *)
WriteStep(s) ==
  /\ SaveStep(s)
  /\ UNCHANGED <<answer, reconcile, binding, command, world, told>>
  /\ \A r \in reports' :
       \/ r \in reports
       \/ r.revision = s.revision /\ (r.committed => store' = Saved(s))

(* A save and the save of a logout both write.                             *)
LEMMA WriteIs ==
  ASSUME TypeOK, NEW s \in Snapshot,
         (ExecuteSave(s) /\ UNCHANGED <<answer, reconcile>>) \/ ExecuteLogout(s),
         UNCHANGED <<binding, command, world, told>>
  PROVE  WriteStep(s)
<1>1. CASE ExecuteSave(s) /\ UNCHANGED <<answer, reconcile>>
  <2>1. /\ SaveStep(s)
        /\ \E committed \in BOOLEAN :
             /\ reports' = reports \cup {[revision |-> s.revision, committed |-> committed]}
             /\ committed => store' = Saved(s)
    BY <1>1, ExecuteSaveIs
  <2> QED
    BY <1>1, <2>1 DEF WriteStep
<1>2. CASE ExecuteLogout(s)
  BY <1>2, ExecuteLogoutIs DEF WriteStep
<1> QED
  BY <1>1, <1>2

(* What a step of the worker does: it writes a snapshot that was coming,   *)
(* it commits, it reads, or it only takes a job of someone else.           *)
LEMMA WorkerDoes ==
  ASSUME TypeOK, OneCommand, WorkerRun \/ WorkerFlush
  PROVE  /\ UNCHANGED <<binding, command, parking, sending, world, told>>
         /\ \/ \E s \in Snapshot : Coming(s) /\ WriteStep(s)
            \/ \E job \in Job :
                 /\ job.op = "commit" /\ CommitStep(job) /\ Fits(job)
                 /\ job.token \in Token /\ job.key \in Key
            \/ ExecuteRead /\ reconcile.stage = "reading"
            \/ UNCHANGED <<answer, reconcile, reports, store, used>>
<1>1. CASE WorkerRun
  <2> DEFINE job == queue[1]
  <2>1. /\ queue # <<>> /\ queue' = Tail(queue) /\ job \in Job
        /\ UNCHANGED <<binding, command, parking, sending, world, told>>
        /\ \/ /\ job.op = "save" /\ ExecuteSave(job.snapshot)
              /\ UNCHANGED <<answer, reconcile>>
           \/ job.op = "logout" /\ ExecuteLogout(job.snapshot)
           \/ job.op = "commit" /\ CommitStep(job) /\ job.token \in Token
           \/ job.op = "read" /\ ExecuteRead
           \/ job.op = "other" /\ UNCHANGED <<answer, reconcile, reports, store, used>>
    BY <1>1, WorkerRunIs
  <2>2. 1 \in Slots
    BY <2>1, TakenIs
  <2>3. /\ job.op \in {"save", "logout"} => job.snapshot \in Snapshot /\ Coming(job.snapshot)
        /\ job.op = "commit" => Fits(job) /\ job.key \in Key
        /\ job.op = "read" => reconcile.stage = "reading"
    BY <2>1, <2>2, JobTypes DEF Coming, IsSave, OneCommand, Carries, Fits
  <2> HIDE DEF job
  <2>4. job.op \in {"save", "logout"} => WriteStep(job.snapshot)
    BY <2>1, <2>3, WriteIs
  <2> QED
    BY <2>1, <2>3, <2>4
<1>2. CASE WorkerFlush
  <2>1. /\ UNCHANGED <<binding, command, parking, sending, world, told, answer, reconcile>>
        /\ UNCHANGED <<reports, store, used>> \/ ExecuteSave(parked)
        /\ parked \in Snapshot /\ Coming(parked)
    BY <1>2 DEF WorkerFlush, TypeOK, Coming
  <2>2. ExecuteSave(parked) => WriteStep(parked)
    BY <2>1, WriteIs
  <2> QED
    BY <2>1, <2>2
<1> QED
  BY <1>1, <1>2

(* A command that applies finds the database where the owner expects it.   *)
LEMMA AppliesIs ==
  ASSUME TypeOK, OneCommand, Revisions, NEW job \in Job, job.op = "commit",
         Fits(job), job.token \in Token, Applies(job), store' = Applied(job)
  PROVE  /\ binding.in /\ store.revision <= binding.persistence
         /\ store.revision = job.key.revision
         /\ store'.revision = store.revision + 1
         /\ store'.recorded = store.recorded /\ store'.place = store.place
         /\ store'.keys = store.keys \cup {job.key}
         /\ store'.executed = store.executed \cup {job.token}
         /\ command.at = "worker" /\ job.key = command.key /\ job.token = command.token
<1>1. /\ command.at = "worker" /\ job.key = command.key /\ job.token = command.token
      /\ answer = NoAnswer
  BY DEF Fits
<1>2. binding.in /\ job.key.revision <= binding.persistence
  BY <1>1 DEF OneCommand, Revisions
<1>3. job.key.revision = store.revision
  BY DEF Applies
<1> QED
  BY <1>1, <1>2, <1>3, AppliedIs

(* What the worker stores leaves the revisions in order.                   *)
LEMMA WorkerRevisions ==
  ASSUME TypeOK, OneCommand, Revisions, Places, WorkerRun \/ WorkerFlush
  PROVE  Revisions'
<1>1. /\ binding' = binding /\ command' = command
      /\ \/ \E s \in Snapshot : Coming(s) /\ WriteStep(s)
         \/ \E job \in Job :
              /\ job.op = "commit" /\ CommitStep(job) /\ Fits(job)
              /\ job.token \in Token /\ job.key \in Key
         \/ ExecuteRead /\ reconcile.stage = "reading"
         \/ UNCHANGED <<answer, reconcile, reports, store, used>>
  BY WorkerDoes
<1>2. CASE \E s \in Snapshot : Coming(s) /\ WriteStep(s)
  <2>1. PICK s \in Snapshot : Coming(s) /\ WriteStep(s)
    BY <1>2
  <2>2. /\ s.revision \in Nat /\ s.revision <= Last
        /\ binding.in => s.revision <= binding.persistence
        /\ ~binding.in => s.revision <= binding.persistence + 1
    BY <2>1 DEF Places, Snapshot, Last
  <2>3. /\ store'.keys = store.keys
        /\ \/ store'.revision = store.revision /\ store'.recorded = store.recorded
           \/ store'.revision = s.revision /\ store'.recorded = s.revision
        /\ store' = Saved(s) => s.revision <= store'.revision
        /\ store'.revision >= store.revision
    BY <2>1, <2>2, SavedIs, Numbers DEF WriteStep, SaveStep
  <2>4. \A r \in reports' : /\ r.committed => r.revision <= store'.revision
                            /\ binding.in => r.revision <= binding.persistence
    BY <2>1, <2>2, <2>3, Numbers DEF WriteStep, Revisions
  <2>5. UNCHANGED <<answer, reconcile, binding, command>>
    BY <2>1 DEF WriteStep
  <2>6. store'.revision \in Nat /\ store'.recorded \in Nat
    BY <2>2, <2>3, Numbers
  <2>7. \A k \in store'.keys : k.revision < store'.revision
    BY <2>3, <2>6, Numbers DEF Revisions
  <2> QED
    BY <2>2, <2>3, <2>4, <2>5, <2>6, <2>7, Numbers DEF Revisions
<1>3. CASE \E job \in Job :
              /\ job.op = "commit" /\ CommitStep(job) /\ Fits(job)
              /\ job.token \in Token /\ job.key \in Key
  <2>1. PICK job \in Job :
              /\ job.op = "commit" /\ CommitStep(job) /\ Fits(job)
              /\ job.token \in Token /\ job.key \in Key
    BY <1>3
  <2>2. /\ UNCHANGED <<binding, command, reconcile, reports>>
        /\ job.key.revision \in Nat
    BY <1>1, <2>1 DEF CommitStep, Key
  <2>3. CASE store' = store
    <3>1. answer'.result = "ok" =>
            answer'.revision = job.key.revision + 1 /\ job.key \in store.keys
      <4>1. Stored(job.key) \/ answer'.result # "ok" \/ store' = Applied(job)
        BY <2>1 DEF CommitStep
      <4>2. store # Applied(job)
        BY <2>1, AppliedIs, Numbers
      <4> QED
        BY <2>1, <2>3, <4>1, <4>2 DEF CommitStep, Stored
    <3>2. answer'.result = "ok" => answer'.revision <= store.revision
      BY <2>2, <3>1, Numbers DEF Revisions
    <3> QED
      BY <2>2, <2>3, <3>2 DEF Revisions
  <2>4. CASE Applies(job) /\ store' = Applied(job)
    <3>1. /\ binding.in /\ store.revision <= binding.persistence
          /\ store.revision = job.key.revision
          /\ store'.revision = store.revision + 1
          /\ store'.recorded = store.recorded
          /\ store'.keys = store.keys \cup {job.key}
      BY <2>1, <2>4, AppliesIs
    <3>2. answer'.result = "ok" => answer'.revision <= store'.revision
      BY <2>1, <2>2, <3>1, Numbers DEF CommitStep
    <3>3. \A k \in store'.keys : k.revision < store'.revision
      BY <2>2, <3>1, Numbers DEF Revisions
    <3>4. \A r \in reports : r.committed => r.revision <= store'.revision
      BY <3>1, Numbers DEF Revisions
    <3> QED
      BY <2>2, <3>1, <3>2, <3>3, <3>4, Numbers DEF Revisions
  <2> QED
    BY <2>1, <2>3, <2>4 DEF CommitStep
<1>4. CASE ExecuteRead /\ reconcile.stage = "reading"
  <2>1. /\ UNCHANGED <<answer, store, reports>> /\ reconcile'.revision = reconcile.revision
    BY <1>4 DEF ExecuteRead, TypeOK, Reconcile
  <2> QED
    BY <1>1, <1>4, <2>1 DEF Revisions
<1>5. CASE UNCHANGED <<answer, reconcile, reports, store, used>>
  BY <1>1, <1>5 DEF Revisions
<1> QED
  BY <1>1, <1>2, <1>3, <1>4, <1>5

(* Every step leaves the revisions in order.                               *)
LEMMA RevisionsStep ==
  ASSUME TypeOK, OneCommand, Revisions, Places, [Next]_vars
  PROVE  Revisions'
<1>1. TypeOK'
  BY TypeStep
<1> QED
  BY <1>1, StageRevisions, OwnerRevisions, FinishRevisions, WorkerRevisions DEF Next

-----------------------------------------------------------------------------
(***************************************************************************)
(* The snapshots on their way.                                             *)
(***************************************************************************)
(* The last revision is a number, one ahead after a departure.             *)
LEMMA LastIs ==
  ASSUME TypeOK
  PROVE  /\ Last \in Nat
         /\ binding.in => Last = binding.persistence
         /\ ~binding.in => Last = binding.persistence + 1
  BY Numbers DEF Last

(* The steps of the owner that request no snapshot.                        *)
Quiet ==
  \/ \E kind \in Kind : Stage(kind)
  \/ SubmitCommit \/ AdoptReports \/ SettleUnknown \/ SettleUnapplied
  \/ TakeReconcileJobs \/ ReconcileFails \/ LoseAuthority
  \/ Detach /\ binding.pending
  \/ UNCHANGED vars

(* What those steps change of the binding.                                 *)
LEMMA QuietBinding ==
  ASSUME TypeOK, OneCommand, Revisions, Quiet
  PROVE  /\ binding'.in = binding.in /\ binding'.place = binding.place
         /\ binding'.persistence = binding.persistence
         /\ binding'.committed >= binding.committed
         /\ binding.lost => binding'.lost
         /\ binding'.lost = binding.lost \/ binding.in
         /\ binding.in => \A n \in binding.queued : n \in binding'.queued \/ Reported(n)
         /\ \/ binding'.deferred = binding.deferred
            \/ Reported(binding.deferred)
<1>1. binding \in Binding /\ binding.committed \in Nat /\ binding.lost \in BOOLEAN
  BY Numbers DEF TypeOK
<1> DEFINE b == Adopted(binding)
<1>2. CASE \/ \E kind \in Kind : Stage(kind)
           \/ SubmitCommit \/ AdoptReports
  <2>1. binding' = [b EXCEPT !.pending = TRUE] \/ binding' = b
    BY <1>2 DEF Stage, SubmitCommit, AdoptReports
  <2>2. /\ b \in Binding /\ b.in = binding.in /\ b.place = binding.place
        /\ b.persistence = binding.persistence /\ b.lost = binding.lost
        /\ b.committed >= binding.committed
        /\ binding.in => \A n \in binding.queued : n \in b.queued \/ Reported(n)
        /\ b.deferred = binding.deferred \/ Reported(binding.deferred)
    BY AdoptedIs
  <2> HIDE DEF b
  <2>3. /\ binding'.in = b.in /\ binding'.place = b.place
        /\ binding'.persistence = b.persistence /\ binding'.lost = b.lost
        /\ binding'.committed = b.committed
        /\ binding'.queued = b.queued /\ binding'.deferred = b.deferred
    BY <2>1, <2>2 DEF Binding
  <2> QED
    BY <2>2, <2>3
<1>3. CASE SettleUnknown \/ (Detach /\ binding.pending)
  BY <1>1, <1>3 DEF SettleUnknown, Detach, Binding
<1>4. CASE LoseAuthority
  <2>1. binding' = [binding EXCEPT !.lost = TRUE] /\ binding.in
    BY <1>4 DEF LoseAuthority
  <2>2. /\ binding'.in = binding.in /\ binding'.place = binding.place
        /\ binding'.persistence = binding.persistence
        /\ binding'.committed = binding.committed /\ binding'.lost
        /\ binding'.queued = binding.queued /\ binding'.deferred = binding.deferred
    BY <1>1, <2>1 DEF Binding
  <2>3. binding'.committed >= binding.committed
    BY <1>1, <2>2
  <2> QED
    BY <2>1, <2>2, <2>3
<1>5. CASE UNCHANGED binding
  BY <1>1, <1>5
<1> QED
  BY <1>2, <1>3, <1>4, <1>5
  DEF Quiet, SettleUnapplied, TakeReconcileJobs, ReconcileFails, vars

(* Those steps send nothing that is saved.                                 *)
LEMMA QuietIs ==
  ASSUME TypeOK, Quiet
  PROVE  /\ UNCHANGED <<store, queue, parking, parked>>
         /\ reports' \subseteq reports
         /\ used'.failures >= used.failures
         /\ \A s : Coming(s)' <=> Coming(s)
<1>1. UNCHANGED <<store, queue, parking, parked>> /\ reports' \subseteq reports
  BY DEF Quiet, Stage, SubmitCommit, AdoptReports, SettleUnknown, SettleUnapplied,
         TakeReconcileJobs, ReconcileFails, LoseAuthority, Detach, vars
<1>2. used'.failures >= used.failures
  <2>1. used \in Used /\ used.failures \in Nat
    BY Numbers DEF TypeOK
  <2>2. \/ used' = used
        \/ used' = [used EXCEPT !.commands = @ + 1]
        \/ used' = [used EXCEPT !.failures = @ + 1]
    BY DEF Quiet, Stage, SubmitCommit, AdoptReports, SettleUnknown, SettleUnapplied,
           TakeReconcileJobs, ReconcileFails, LoseAuthority, Detach, vars
  <2> QED
    BY <2>1, <2>2 DEF Used
<1>3. \/ sending' = sending
      \/ \E c : sending' = sending \cup {CommitJob(c)}
      \/ sending' = sending \cup {ReadJob}
  BY DEF Quiet, Stage, SubmitCommit, AdoptReports, SettleUnknown, SettleUnapplied,
         TakeReconcileJobs, ReconcileFails, LoseAuthority, Detach, vars
<1>4. \A a : IsSave(a) => (a \in sending' <=> a \in sending)
  BY <1>3 DEF IsSave, CommitJob, ReadJob
<1> QED
  BY <1>1, <1>2, <1>4 DEF Coming, Slots

(* A handoff adds its snapshot to what is on its way.                      *)
LEMMA SendsComing ==
  ASSUME TypeOK, NEW n \in Snapshot, Sends(n) \/ UNCHANGED <<queue, parking>>,
         UNCHANGED <<parked, sending>>
  PROVE  /\ \A s : Coming(s)' => Coming(s) \/ s = n
         /\ Sends(n) => Coming(n)'
         /\ \A s : Coming(s) /\ s # parking => Coming(s)'
<1>1. /\ \A i \in Slots : i \in Slots' /\ queue'[i] = queue[i]
      /\ \A i \in Slots' :
              \/ i \in Slots
              \/ /\ queue' # queue /\ parking' = parking /\ i = Len(queue) + 1
                 /\ queue'[i] = SaveJob("save", n)
      /\ parking' \in {parking, n}
      /\ queue' # queue => Len(queue) + 1 \in Slots'
  BY SendsIs
<1>2. SaveJob("save", n).snapshot = n /\ IsSave(SaveJob("save", n))
  BY DEF SaveJob, IsSave
<1>3. \A s : Coming(s)' => Coming(s) \/ s = n
  BY <1>1, <1>2 DEF Coming
<1>4. Sends(n) => Coming(n)'
  <2>1. CASE parking' = n
    BY <2>1 DEF Coming
  <2>2. CASE queue' = Append(queue, SaveJob("save", n)) /\ parking' = parking
    <3> DEFINE x == SaveJob("save", n)
    <3>1. x \in Job /\ queue \in Seq(Job)
      BY JobTypes DEF TypeOK
    <3> HIDE DEF x
    <3>2. Slots' = 1 .. Len(queue) + 1 /\ queue'[Len(queue) + 1] = x /\ Len(queue) \in Nat
      BY <2>2, <3>1, AppendIs DEF Slots, x
    <3> QED
      BY <1>2, <3>2 DEF Coming, x
  <2> QED
    BY <2>1, <2>2 DEF Sends
<1>5. \A s : Coming(s) /\ s # parking => Coming(s)'
  BY <1>1 DEF Coming
<1> QED
  BY <1>3, <1>4, <1>5

(* The queue takes a job that waited; nothing comes that did not.          *)
LEMMA EnterComing ==
  ASSUME TypeOK, Enqueue \/ OtherWork
  PROVE  \A s : Coming(s)' <=> Coming(s)
<1>1. PICK job \in Job :
         /\ \/ job \in sending /\ sending' = sending \ {job}
            \/ job = OtherJob /\ sending' = sending
         /\ UNCHANGED <<parking, parked>>
         /\ Slots = 1 .. Len(queue) /\ Len(queue) \in Nat
         /\ Slots' = 1 .. Len(queue) + 1
         /\ \A i \in Slots : queue'[i] = queue[i]
         /\ queue'[Len(queue) + 1] = job
  BY EntersIs
<1>2. ~IsSave(OtherJob)
  BY DEF IsSave, OtherJob
<1>3. /\ \A i \in Slots : i \in Slots'
      /\ \A i \in Slots' : i \in Slots \/ i = Len(queue) + 1
      /\ Len(queue) + 1 \in Slots'
  BY <1>1
<1> QED
  BY <1>1, <1>2, <1>3 DEF Coming

(* The worker takes a job, or empties the parking slot.                    *)
LEMMA WorkerComing ==
  ASSUME TypeOK, OneCommand, WorkerRun \/ WorkerFlush
  PROVE  /\ \A s : Coming(s)' => Coming(s) \/ s = NoSnapshot
         /\ \/ /\ WorkerFlush
               /\ \A s : Coming(s) => Coming(s)' \/ s = parked
            \/ /\ WorkerRun
               /\ \A s : Coming(s) =>
                    Coming(s)' \/ (IsSave(queue[1]) /\ s = queue[1].snapshot)
<1>1. CASE WorkerRun
  <2>1. /\ queue # <<>> /\ queue' = Tail(queue) /\ UNCHANGED <<parking, sending, parked>>
    BY <1>1, WorkerRunIs
  <2>2. /\ \A i \in Slots' : i + 1 \in Slots /\ queue'[i] = queue[i + 1]
        /\ \A i \in Slots : i = 1 \/ (i - 1 \in Slots' /\ queue'[i - 1] = queue[i])
    BY <2>1, TakenIs
  <2>3. \A s : Coming(s)' => Coming(s)
    BY <2>1, <2>2 DEF Coming
  <2>4. \A s : Coming(s) => Coming(s)' \/ (IsSave(queue[1]) /\ s = queue[1].snapshot)
    BY <2>1, <2>2 DEF Coming
  <2> QED
    BY <1>1, <2>3, <2>4
<1>2. CASE WorkerFlush
  <2>1. parked' = NoSnapshot /\ UNCHANGED <<parking, sending, queue>>
    BY <1>2 DEF WorkerFlush
  <2> QED
    BY <1>2, <2>1 DEF Coming, Slots
<1> QED
  BY <1>1, <1>2

-----------------------------------------------------------------------------
(***************************************************************************)
(* Places.                                                                 *)
(***************************************************************************)
(* A step that leaves the database alone; n is what may be on its way now. *)
LEMMA PlacesGrow ==
  ASSUME TypeOK, TypeOK', Places, UNCHANGED store, NEW n \in Snapshot,
         \A s \in Snapshot : Coming(s)' => Coming(s) \/ s = NoSnapshot \/ s = n,
         \/ n = NoSnapshot
         \/ n.revision > Last /\ n.revision = Last' /\ n.place = binding'.place,
         Last' >= Last, binding'.place >= binding.place,
         \/ binding'.in
         \/ Last' > Last
         \/ ~binding.in /\ Last' = Last /\ binding'.place = binding.place
  PROVE  Places'
<1>1. /\ Last \in Nat /\ store.place \in Nat /\ store.recorded \in Nat
      /\ binding.place \in Nat /\ store.revision \in Nat
  BY LastIs, Numbers
<1>2. Last' \in Nat /\ binding'.place \in Nat
  <2>1. binding' \in Binding
    BY DEF TypeOK
  <2> QED
    BY <2>1 DEF Last, Binding
<1>3. \A s \in Snapshot : s.revision \in Nat /\ s.place \in Nat
  BY DEF Snapshot
<1>4. NoSnapshot.revision = 0 /\ NoSnapshot.place = 0 /\ NoSnapshot \in Snapshot
  BY Constants
<1>5. /\ store.place <= binding.place /\ store.recorded <= Last
      /\ \A s \in Snapshot : Coming(s) =>
           /\ s = NoSnapshot \/ s.revision > 0
           /\ s.revision <= Last /\ s.place <= binding.place
           /\ s.revision > store.recorded => s.place >= store.place
           /\ ~binding.in /\ s.revision = Last => s.place = binding.place
      /\ \A s, t \in Snapshot : Coming(s) /\ Coming(t) /\ s.revision <= t.revision
           => s.place <= t.place
      /\ ~binding.in /\ store.recorded = Last => store.place = binding.place
  BY DEF Places
<1>6. \A s \in Snapshot : Coming(s)' =>
        /\ s = NoSnapshot \/ s.revision > 0
        /\ s.revision <= Last' /\ s.place <= binding'.place
        /\ s.revision > store.recorded => s.place >= store.place
        /\ ~binding'.in /\ s.revision = Last' => s.place = binding'.place
  <2> SUFFICES ASSUME NEW s \in Snapshot, Coming(s)'
               PROVE  /\ s = NoSnapshot \/ s.revision > 0
                      /\ s.revision <= Last' /\ s.place <= binding'.place
                      /\ s.revision > store.recorded => s.place >= store.place
                      /\ ~binding'.in /\ s.revision = Last' => s.place = binding'.place
    OBVIOUS
  <2>1. CASE Coming(s)
    BY <1>1, <1>2, <1>3, <1>5, <2>1
  <2>2. CASE s = NoSnapshot
    <3>1. ~binding'.in => Last' > 0
      BY <1>2, LastIs DEF Last, TypeOK, Binding
    <3> QED
      BY <1>1, <1>2, <1>4, <2>2, <3>1
  <2>3. CASE s = n /\ s # NoSnapshot
    BY <1>1, <1>2, <1>3, <1>5, <2>3
  <2> QED
    BY <2>1, <2>2, <2>3
<1>7. \A s, t \in Snapshot : Coming(s)' /\ Coming(t)' /\ s.revision <= t.revision
        => s.place <= t.place
  <2> SUFFICES ASSUME NEW s \in Snapshot, NEW t \in Snapshot, Coming(s)', Coming(t)',
                      s.revision <= t.revision
               PROVE  s.place <= t.place
    OBVIOUS
  <2>1. \A u \in Snapshot : Coming(u)' => Coming(u) \/ u = NoSnapshot \/ (u = n /\ n # NoSnapshot)
    OBVIOUS
  <2>2. CASE s = NoSnapshot
    BY <1>3, <1>4, <2>2
  <2>3. CASE t = NoSnapshot
    <3>1. s.revision = 0
      BY <1>3, <1>4, <2>3
    <3>2. s = NoSnapshot
      BY <1>6, <3>1
    <3> QED
      BY <1>3, <1>4, <3>2
  <2>4. CASE t = n /\ n # NoSnapshot
    BY <1>3, <1>6, <2>4
  <2>5. CASE s = n /\ n # NoSnapshot /\ Coming(t)
    BY <1>1, <1>2, <1>3, <1>5, <2>5
  <2>6. CASE Coming(s) /\ Coming(t)
    BY <1>5, <2>6
  <2> QED
    BY <2>1, <2>2, <2>3, <2>4, <2>5, <2>6
<1> QED
  BY <1>1, <1>2, <1>5, <1>6, <1>7 DEF Places

(* What a departure does to the binding and the snapshots.                 *)
LEMMA LeavesComing ==
  ASSUME TypeOK, binding' \in Binding, Leaves, UNCHANGED <<parked, sending>>,
         binding'.persistence >= binding.persistence, binding.in
  PROVE  /\ ~binding'.in /\ Last' = binding'.persistence + 1 /\ Last' > Last
         /\ \E n \in Snapshot :
              /\ n.revision = Last' /\ n.place = binding'.place
              /\ \A s : Coming(s)' => Coming(s) \/ s = n
              /\ ~binding'.lost => Coming(n)'
              /\ \A s : Coming(s) /\ s # parking => Coming(s)'
              /\ Sends(n) \/ UNCHANGED <<queue, parking>>
<1>1. Final \in Snapshot /\ (Sends(Final) \/ UNCHANGED <<queue, parking>>)
  BY LeavesSends
<1>2. PICK n \in Snapshot : n = Final
  BY <1>1
<1>3. /\ Sends(n) \/ UNCHANGED <<queue, parking>>
      /\ ~binding'.lost => Sends(n)
  BY <1>1, <1>2 DEF Leaves, Final
<1>4. ~binding'.in
  BY DEF Leaves
<1>5. Last' = binding'.persistence + 1
  BY <1>4 DEF Last
<1>6. Last = binding.persistence
  BY DEF Last
<1>7. binding'.persistence \in Nat /\ binding.persistence \in Nat
  BY Numbers DEF Binding
<1>8. Last' > Last
  BY <1>5, <1>6, <1>7
<1>9. /\ \A s : Coming(s)' => Coming(s) \/ s = n
      /\ Sends(n) => Coming(n)'
      /\ \A s : Coming(s) /\ s # parking => Coming(s)'
  BY <1>3, SendsComing
<1>10. n.revision = Last' /\ n.place = binding'.place
  BY <1>2, <1>5 DEF Final
<1> QED
  BY <1>3, <1>4, <1>5, <1>8, <1>9, <1>10

(* A command is over, or its character is taken back from the database.    *)
Finishes == SettleRefused \/ SettleCommitted \/ CompleteReconcile

(* The character stays as it was or departs.                               *)
LEMMA FinishDoes ==
  ASSUME TypeOK, OneCommand, Revisions, Finishes
  PROVE  /\ binding.in /\ UNCHANGED <<store, parked, sending, reports, used>>
         /\ parking = NoSnapshot /\ binding' \in Binding /\ ~binding'.pending
         /\ binding'.lost = binding.lost /\ binding'.place = binding.place
         /\ binding'.persistence >= binding.persistence
         /\ binding'.committed >= binding.committed
         /\ \/ Leaves
            \/ /\ binding'.in = binding.in /\ UNCHANGED <<queue, parking>>
               /\ binding'.queued = binding.queued /\ binding'.deferred = binding.deferred
<1>1. /\ UNCHANGED <<store, parked, sending, reports, used>> /\ parking = NoSnapshot
  BY DEF Finishes, SettleRefused, SettleCommitted, CompleteReconcile, OwnerFree
<1>2. binding.in
  <2>1. answer # NoAnswer \/ reconcile.stage # "none"
    BY Constants DEF Finishes, SettleRefused, SettleCommitted, CompleteReconcile
  <2>2. binding.pending
    BY <2>1 DEF OneCommand
  <2> QED
    BY <2>2 DEF OneCommand
<1>3. PICK n \in Nat : FinishDurable(n)
  BY Numbers DEF Finishes, SettleRefused, SettleCommitted, CompleteReconcile
<1>4. /\ binding' \in Binding /\ ~binding'.pending
      /\ binding'.lost = binding.lost /\ binding'.place = binding.place
      /\ binding'.persistence = Later(binding.persistence, n)
      /\ binding'.committed = Later(binding.committed, n)
      /\ \/ Leaves
         \/ /\ binding'.in = binding.in /\ UNCHANGED <<queue, parking>>
            /\ binding'.queued = binding.queued /\ binding'.deferred = binding.deferred
  BY <1>3, FinishIs
<1>5. /\ binding'.persistence >= binding.persistence
      /\ binding'.committed >= binding.committed
  BY <1>4, Numbers DEF Later
<1> QED
  BY <1>1, <1>2, <1>4, <1>5

(* The character leaves World.                                             *)
Departs ==
  \/ Finishes /\ Leaves
  \/ Detach /\ ~binding.pending
  \/ Logout

(* Whichever way it departs, one last snapshot is on its way.              *)
LEMMA DepartIs ==
  ASSUME TypeOK, OneCommand, Revisions, Departs
  PROVE  /\ binding.in /\ UNCHANGED <<store, parked, reports, used>>
         /\ binding'.lost = binding.lost /\ binding'.place = binding.place
         /\ ~binding'.in /\ Last' = binding'.persistence + 1 /\ Last' > Last
         /\ \E n \in Snapshot :
              /\ n.revision = Last' /\ n.place = binding'.place
              /\ \A s : Coming(s)' => Coming(s) \/ s = n
              /\ ~binding'.lost => Coming(n)'
<1>1. CASE (Finishes /\ Leaves) \/ (Detach /\ ~binding.pending)
  <2>1. /\ binding.in /\ UNCHANGED <<store, parked, reports, used, sending>>
        /\ binding'.lost = binding.lost /\ binding'.place = binding.place
        /\ binding' \in Binding /\ Leaves /\ binding'.persistence >= binding.persistence
    <3>1. CASE Finishes /\ Leaves
      BY <3>1, FinishDoes
    <3>2. CASE Detach /\ ~binding.pending
      <4>1. LeaveWorld(binding) /\ binding \in Binding /\ binding.in
        BY <3>2 DEF Detach, TypeOK
      <4>2. /\ binding'.persistence = binding.persistence
            /\ binding'.lost = binding.lost /\ binding'.place = binding.place
            /\ binding' \in Binding /\ Leaves
        BY <4>1, LeaveIs
      <4> QED
        BY <3>2, <4>1, <4>2, Numbers DEF Detach
    <3> QED
      BY <1>1, <3>1, <3>2
  <2> QED
    BY <2>1, LeavesComing
<1>2. CASE Logout
  <2> DEFINE n == NextSnapshot(binding)
  <2>1. /\ binding.in /\ UNCHANGED <<store, parked, reports, used, queue, parking>>
        /\ sending' = sending \cup {SaveJob("logout", n)}
        /\ binding' = [binding EXCEPT !.in = FALSE]
    BY <1>2 DEF Logout
  <2>2. /\ binding'.lost = binding.lost /\ binding'.place = binding.place
        /\ ~binding'.in /\ binding'.persistence = binding.persistence
    BY <2>1 DEF TypeOK, Binding
  <2>3. /\ n \in Snapshot /\ n.revision = binding.persistence + 1
        /\ n.place = binding.place
    BY Numbers DEF NextSnapshot, Snapshot
  <2>4. /\ IsSave(SaveJob("logout", n)) /\ SaveJob("logout", n).snapshot = n
    BY DEF IsSave, SaveJob
  <2>7. PICK last \in Snapshot : last = n
    BY <2>3
  <2>8. PICK job : job = SaveJob("logout", n)
    OBVIOUS
  <2> HIDE DEF n
  <2>5. Coming(last)' /\ \A s : Coming(s)' => Coming(s) \/ s = last
    <3>1. sending' = sending \cup {job} /\ IsSave(job) /\ job.snapshot = last
      BY <2>1, <2>4, <2>7, <2>8
    <3> QED
      BY <2>1, <3>1 DEF Coming, Slots
  <2>6. Last' = binding.persistence + 1 /\ Last' > Last
    BY <2>1, <2>2, Numbers DEF Last
  <2> QED
    BY <2>1, <2>2, <2>3, <2>5, <2>6, <2>7
<1> QED
  BY <1>1, <1>2 DEF Departs

(* What every step is.                                                     *)
LEMMA StepIs ==
  ASSUME TypeOK, OneCommand, Revisions, [Next]_vars
  PROVE  \/ Quiet \/ RequestSave \/ Park \/ Departs
         \/ Finishes /\ ~Leaves
         \/ Enqueue \/ OtherWork \/ WorkerRun \/ WorkerFlush
  BY DEF Next, Quiet, Departs, Finishes

(* A requested snapshot is newer than all that are on their way.           *)
LEMMA RequestComing ==
  ASSUME TypeOK, RequestSave
  PROVE  /\ UNCHANGED <<store, parked, sending, reports>> /\ parking = NoSnapshot
         /\ Last = binding.persistence /\ Last' = Last + 1 /\ binding'.in
         /\ \E n \in Snapshot :
              /\ n.revision = Last' /\ n.place = binding'.place
              /\ \A s : Coming(s)' => Coming(s) \/ s = n
              /\ Sends(n) \/ UNCHANGED <<queue, parking>>
<1>1. /\ UNCHANGED <<store, parked, sending, reports>> /\ parking = NoSnapshot
  BY DEF RequestSave, OwnerFree
<1>2. /\ binding' \in Binding /\ binding.in /\ binding'.in
      /\ binding'.persistence = binding.persistence + 1
      /\ \/ UNCHANGED <<queue, parking>>
         \/ Sends([revision |-> binding'.persistence, place |-> binding'.place])
  BY RequestIs
<1>3. PICK n \in Snapshot : n = [revision |-> binding'.persistence, place |-> binding'.place]
  BY <1>2 DEF Snapshot, Binding
<1>4. Sends(n) \/ UNCHANGED <<queue, parking>>
  BY <1>2, <1>3
<1>5. \A s : Coming(s)' => Coming(s) \/ s = n
  BY <1>1, <1>4, SendsComing
<1>6. Last = binding.persistence /\ Last' = binding'.persistence
  BY <1>2 DEF Last
<1> QED
  BY <1>1, <1>2, <1>3, <1>4, <1>5, <1>6

(* The owner's steps keep places and revisions in step.                    *)
LEMMA OwnerPlaces ==
  ASSUME TypeOK, TypeOK', OneCommand, Revisions, Places,
         \/ Quiet \/ RequestSave \/ Park \/ Departs \/ (Finishes /\ ~Leaves)
         \/ Enqueue \/ OtherWork
  PROVE  Places'
<1>0. /\ NoSnapshot \in Snapshot /\ Last \in Nat /\ binding.place \in Nat
      /\ binding.persistence \in Nat
  BY Constants, LastIs, Numbers
<1>1. CASE Quiet
  <2>1. /\ UNCHANGED store /\ \A s : Coming(s)' <=> Coming(s)
    BY <1>1, QuietIs
  <2>2. /\ binding'.in = binding.in /\ binding'.place = binding.place
        /\ binding'.persistence = binding.persistence
    BY <1>1, QuietBinding
  <2>3. Last' = Last
    BY <2>2 DEF Last
  <2>4. binding'.in \/ ~binding.in
    BY <2>2
  <2> QED
    BY <1>0, <2>1, <2>2, <2>3, <2>4, PlacesGrow
<1>2. CASE RequestSave
  <2>1. /\ UNCHANGED store
        /\ Last = binding.persistence /\ Last' = Last + 1 /\ binding'.in
        /\ \E n \in Snapshot :
              /\ n.revision = Last' /\ n.place = binding'.place
              /\ \A s : Coming(s)' => Coming(s) \/ s = n
    BY <1>2, RequestComing
  <2>2. PICK n \in Snapshot :
              /\ n.revision = Last' /\ n.place = binding'.place
              /\ \A s : Coming(s)' => Coming(s) \/ s = n
    BY <2>1
  <2>3. binding'.place >= binding.place /\ Last' > Last /\ Last' >= Last
    BY <1>0, <1>2, <2>1, RequestIs
  <2> QED
    BY <2>1, <2>2, <2>3, PlacesGrow
<1>3. CASE Park
  <2>1. /\ UNCHANGED <<store, queue, sending>> /\ parking' = NoSnapshot
        /\ parked' \in {parked, parking}
        /\ binding'.in = binding.in /\ binding'.place = binding.place
        /\ binding'.persistence = binding.persistence
    BY <1>3, ParkIs DEF Park
  <2>2. \A s : Coming(s)' => Coming(s) \/ s = NoSnapshot
    BY <2>1 DEF Coming, Slots
  <2>3. Last' = Last
    BY <2>1 DEF Last
  <2> QED
    BY <1>0, <2>1, <2>2, <2>3, PlacesGrow
<1>4. CASE Departs
  <2>1. /\ UNCHANGED store /\ binding'.place = binding.place /\ Last' > Last
        /\ \E n \in Snapshot :
              /\ n.revision = Last' /\ n.place = binding'.place
              /\ \A s : Coming(s)' => Coming(s) \/ s = n
        /\ Last' = binding'.persistence + 1
    BY <1>4, DepartIs
  <2>2. PICK n \in Snapshot :
              /\ n.revision = Last' /\ n.place = binding'.place
              /\ \A s : Coming(s)' => Coming(s) \/ s = n
    BY <2>1
  <2>3. Last' \in Nat
    BY <2>2 DEF Snapshot
  <2>4. Last' >= Last /\ binding'.place >= binding.place
    BY <1>0, <2>1, <2>3
  <2> QED
    BY <2>1, <2>2, <2>4, PlacesGrow
<1>5. CASE Finishes /\ ~Leaves
  <2>1. /\ binding.in /\ UNCHANGED <<store, parked, sending, queue, parking>>
        /\ binding'.place = binding.place /\ binding'.in
        /\ binding'.persistence >= binding.persistence
    BY <1>5, FinishDoes
  <2>2. \A s : Coming(s)' <=> Coming(s)
    BY <2>1 DEF Coming, Slots
  <2>3. Last' >= Last
    BY <2>1 DEF Last
  <2> QED
    BY <1>0, <2>1, <2>2, <2>3, PlacesGrow
<1>6. CASE Enqueue \/ OtherWork
  <2>1. UNCHANGED <<store, binding>>
    BY <1>6 DEF Enqueue, OtherWork
  <2>2. \A s : Coming(s)' <=> Coming(s)
    BY <1>6, EnterComing
  <2>3. Last' = Last
    BY <2>1 DEF Last
  <2> QED
    BY <1>0, <2>1, <2>2, <2>3, PlacesGrow
<1> QED
  BY <1>1, <1>2, <1>3, <1>4, <1>5, <1>6

(* The stored place after a snapshot was written.                          *)
LEMMA WritePlaces ==
  ASSUME TypeOK, TypeOK', Revisions, Places, NEW s \in Snapshot, Coming(s), WriteStep(s),
         \A u : Coming(u)' => Coming(u) \/ u = NoSnapshot
  PROVE  Places' /\ store'.place >= store.place
<1>1. /\ Last \in Nat /\ store.place \in Nat /\ store.recorded \in Nat
      /\ store.revision \in Nat /\ binding.place \in Nat
      /\ \A u \in Snapshot : u.revision \in Nat /\ u.place \in Nat
      /\ NoSnapshot.revision = 0 /\ NoSnapshot.place = 0 /\ NoSnapshot \in Snapshot
      /\ ~binding.in => Last > 0
  BY LastIs, Numbers, Constants DEF Snapshot
<1>2. UNCHANGED binding /\ Last' = Last
  BY DEF WriteStep, Last
<1>3. /\ store.place <= binding.place /\ store.recorded <= Last
      /\ store.recorded <= store.revision
      /\ \A u \in Snapshot : Coming(u) =>
           /\ u = NoSnapshot \/ u.revision > 0
           /\ u.revision <= Last /\ u.place <= binding.place
           /\ u.revision > store.recorded => u.place >= store.place
           /\ ~binding.in /\ u.revision = Last => u.place = binding.place
      /\ \A u, t \in Snapshot : Coming(u) /\ Coming(t) /\ u.revision <= t.revision
           => u.place <= t.place
      /\ ~binding.in /\ store.recorded = Last => store.place = binding.place
  BY DEF Places, Revisions
<1>4. \/ store' = store
      \/ /\ store'.recorded = s.revision /\ store'.place = s.place
         /\ s.revision > store.recorded
  BY <1>1, <1>3, SavedIs DEF WriteStep, SaveStep
<1>5. /\ store'.place <= binding.place /\ store'.recorded <= Last
      /\ ~binding.in /\ store'.recorded = Last => store'.place = binding.place
      /\ store'.place >= store.place /\ store'.recorded >= store.recorded
      /\ store'.recorded \in Nat /\ store'.place \in Nat
  BY <1>1, <1>3, <1>4
<1>6. \A u \in Snapshot : Coming(u)' =>
        /\ u = NoSnapshot \/ u.revision > 0
        /\ u.revision <= Last /\ u.place <= binding.place
        /\ u.revision > store'.recorded => u.place >= store'.place
        /\ ~binding.in /\ u.revision = Last => u.place = binding.place
  <2> SUFFICES ASSUME NEW u \in Snapshot, Coming(u)'
               PROVE  /\ u = NoSnapshot \/ u.revision > 0
                      /\ u.revision <= Last /\ u.place <= binding.place
                      /\ u.revision > store'.recorded => u.place >= store'.place
                      /\ ~binding.in /\ u.revision = Last => u.place = binding.place
    OBVIOUS
  <2>1. CASE Coming(u)
    <3>1. u.revision > store'.recorded => u.place >= store'.place
      <4>1. CASE store' = store
        BY <1>3, <2>1, <4>1
      <4>2. CASE store'.recorded = s.revision /\ store'.place = s.place
        BY <1>1, <1>3, <2>1, <4>2
      <4> QED
        BY <1>4, <4>1, <4>2
    <3> QED
      BY <1>3, <2>1, <3>1
  <2>2. CASE u = NoSnapshot
    BY <1>1, <1>5, <2>2
  <2> QED
    BY <2>1, <2>2
<1>7. \A u, t \in Snapshot : Coming(u)' /\ Coming(t)' /\ u.revision <= t.revision
        => u.place <= t.place
  <2> SUFFICES ASSUME NEW u \in Snapshot, NEW t \in Snapshot, Coming(u)', Coming(t)',
                      u.revision <= t.revision
               PROVE  u.place <= t.place
    OBVIOUS
  <2>1. CASE Coming(u) /\ Coming(t)
    BY <1>3, <2>1
  <2>2. CASE u = NoSnapshot
    BY <1>1, <2>2
  <2>3. CASE t = NoSnapshot
    <3>1. u.revision = 0
      BY <1>1, <2>3
    <3>2. u = NoSnapshot
      BY <1>6, <3>1
    <3> QED
      BY <1>1, <3>2
  <2> QED
    BY <2>1, <2>2, <2>3
<1> QED
  BY <1>2, <1>5, <1>6, <1>7 DEF Places

(* The worker's writes do so too, and the place never goes back.           *)
LEMMA WorkerPlaces ==
  ASSUME TypeOK, TypeOK', OneCommand, Revisions, Places, WorkerRun \/ WorkerFlush
  PROVE  Places' /\ store'.place >= store.place
<1>1. /\ UNCHANGED binding
      /\ \/ \E s \in Snapshot : Coming(s) /\ WriteStep(s)
         \/ \E job \in Job :
              /\ job.op = "commit" /\ CommitStep(job) /\ Fits(job)
              /\ job.token \in Token /\ job.key \in Key
         \/ ExecuteRead /\ reconcile.stage = "reading"
         \/ UNCHANGED <<answer, reconcile, reports, store, used>>
  BY WorkerDoes
<1>2. \A s : Coming(s)' => Coming(s) \/ s = NoSnapshot
  BY WorkerComing
<1>3. CASE \E s \in Snapshot : Coming(s) /\ WriteStep(s)
  BY <1>2, <1>3, WritePlaces
<1>4. CASE UNCHANGED store
  <2>1. Last' = Last
    BY <1>1 DEF Last
  <2>2. NoSnapshot \in Snapshot /\ Last \in Nat /\ binding.place \in Nat
    BY Constants, LastIs, Numbers
  <2>3. Places'
    BY <1>1, <1>2, <1>4, <2>1, <2>2, PlacesGrow
  <2> QED
    BY <1>4, <2>3, Numbers
<1>5. CASE \E job \in Job :
              /\ job.op = "commit" /\ CommitStep(job) /\ Fits(job)
              /\ job.token \in Token /\ job.key \in Key
  <2>1. PICK job \in Job :
              /\ job.op = "commit" /\ CommitStep(job) /\ Fits(job)
              /\ job.token \in Token /\ job.key \in Key
    BY <1>5
  <2>2. CASE Applies(job) /\ store' = Applied(job)
    <3>1. /\ binding.in /\ store'.recorded = store.recorded /\ store'.place = store.place
      BY <2>1, <2>2, AppliesIs
    <3>2. Last' = Last
      BY <1>1 DEF Last
    <3>3. /\ \A s \in Snapshot : s = NoSnapshot => s.revision = 0 /\ s.place = 0
          /\ store.place \in Nat /\ store.recorded \in Nat /\ Last \in Nat
          /\ \A s \in Snapshot : s.revision \in Nat /\ s.place \in Nat
      BY Constants, Numbers, LastIs DEF Snapshot
    <3>4. \A s \in Snapshot : Coming(s)' =>
            /\ s = NoSnapshot \/ s.revision > 0
            /\ s.revision <= Last /\ s.place <= binding.place
            /\ s.revision > store.recorded => s.place >= store.place
      <4>1. \A s \in Snapshot : s = NoSnapshot =>
              /\ s.revision <= Last /\ s.place <= binding.place
              /\ s.revision > store.recorded => s.place >= store.place
        BY <3>3, Numbers
      <4> QED
        BY <1>2, <4>1 DEF Places
    <3>5. \A s, t \in Snapshot : Coming(s)' /\ Coming(t)' /\ s.revision <= t.revision
            => s.place <= t.place
      <4> SUFFICES ASSUME NEW s \in Snapshot, NEW t \in Snapshot, Coming(s)', Coming(t)',
                          s.revision <= t.revision
                   PROVE  s.place <= t.place
        OBVIOUS
      <4>1. CASE Coming(s) /\ Coming(t)
        BY <4>1 DEF Places
      <4>2. CASE s = NoSnapshot
        BY <3>3, <4>2
      <4>3. CASE t = NoSnapshot
        <5>1. s = NoSnapshot
          BY <3>3, <3>4, <4>3
        <5> QED
          BY <3>3, <5>1
      <4> QED
        BY <1>2, <4>1, <4>2, <4>3
    <3>6. store'.place <= binding.place /\ store'.recorded <= Last
      BY <3>1 DEF Places
    <3> QED
      BY <1>1, <3>1, <3>2, <3>3, <3>4, <3>5, <3>6 DEF Places
  <2> QED
    BY <1>4, <2>1, <2>2 DEF CommitStep
<1> QED
  BY <1>1, <1>3, <1>4, <1>5 DEF ExecuteRead

(* Every step does.                                                        *)
LEMMA PlacesStep ==
  ASSUME TypeOK, OneCommand, Revisions, Places, [Next]_vars
  PROVE  Places' /\ store'.place >= store.place
<1>1. TypeOK'
  BY TypeStep
<1>2. \/ Quiet \/ RequestSave \/ Park \/ Departs
      \/ (Finishes /\ ~Leaves)
      \/ Enqueue \/ OtherWork \/ WorkerRun \/ WorkerFlush
  BY StepIs
<1>3. CASE WorkerRun \/ WorkerFlush
  BY <1>1, <1>3, WorkerPlaces
<1>4. CASE ~(WorkerRun \/ WorkerFlush)
  <2>1. UNCHANGED store
    <3>1. Quiet => UNCHANGED store
      BY QuietIs
    <3> QED
      BY <1>2, <1>4, <3>1
      DEF RequestSave, Park, Departs, Finishes, SettleRefused, SettleCommitted,
          CompleteReconcile, Detach, Logout, Enqueue, OtherWork
  <2>2. Places'
    BY <1>1, <1>2, <1>4, OwnerPlaces
  <2> QED
    BY <2>1, <2>2, Numbers
<1> QED
  BY <1>3, <1>4

-----------------------------------------------------------------------------
(***************************************************************************)
(* What a departed character leaves behind, and what the owner knows.      *)
(***************************************************************************)
(* Which snapshot the worker writes and what it reports.                   *)
LEMMA WorkerWrites ==
  ASSUME TypeOK, OneCommand, WorkerRun \/ WorkerFlush
  PROVE  /\ WorkerRun => 
              /\ queue[1] \in Job
              /\ IsSave(queue[1]) =>
                   queue[1].snapshot \in Snapshot /\ WriteStep(queue[1].snapshot)
              /\ \A r \in reports' :
                   \/ r \in reports
                   \/ queue[1].op = "save" /\ r.revision = queue[1].snapshot.revision
         /\ WorkerFlush =>
              /\ parked = NoSnapshot \/ WriteStep(parked)
              /\ \A r \in reports' :
                   \/ r \in reports
                   \/ parked # NoSnapshot /\ r.revision = parked.revision
<1>1. CASE WorkerRun
  <2> DEFINE job == queue[1]
  <2>1. /\ job \in Job
        /\ UNCHANGED <<binding, command, world, told>>
        /\ \/ /\ job.op = "save" /\ ExecuteSave(job.snapshot)
              /\ UNCHANGED <<answer, reconcile>>
           \/ job.op = "logout" /\ ExecuteLogout(job.snapshot)
           \/ job.op = "commit" /\ CommitStep(job) /\ job.token \in Token
           \/ job.op = "read" /\ ExecuteRead
           \/ job.op = "other" /\ UNCHANGED <<answer, reconcile, reports, store, used>>
    BY <1>1, WorkerRunIs
  <2>2. job.op \in {"save", "logout"} => job.snapshot \in Snapshot
    BY <2>1, JobTypes
  <2> HIDE DEF job
  <2>3. job.op \in {"save", "logout"} => WriteStep(job.snapshot)
    BY <2>1, <2>2, WriteIs
  <2>4. job.op # "save" => reports' = reports
    <3>1. job.op = "logout" => reports' = reports
      BY <2>1 DEF ExecuteLogout
    <3> QED
      BY <2>1, <3>1 DEF CommitStep, ExecuteRead
  <2>5. \A r \in reports' :
          r \in reports \/ (job.op = "save" /\ r.revision = job.snapshot.revision)
    BY <2>3, <2>4 DEF WriteStep
  <2>6. ~WorkerFlush
    BY <1>1 DEF WorkerRun, WorkerFlush
  <2> QED
    BY <2>1, <2>2, <2>3, <2>5, <2>6 DEF IsSave, job
<1>2. CASE WorkerFlush
  <2>1. /\ UNCHANGED <<binding, command, world, told, answer, reconcile>>
        /\ IF parked = NoSnapshot THEN UNCHANGED <<reports, store, used>>
           ELSE ExecuteSave(parked)
        /\ parked \in Snapshot
    BY <1>2 DEF WorkerFlush, TypeOK
  <2>2. parked # NoSnapshot => WriteStep(parked)
    BY <2>1, WriteIs
  <2>3. \A r \in reports' :
          r \in reports \/ (parked # NoSnapshot /\ r.revision = parked.revision)
    BY <2>1, <2>2 DEF WriteStep
  <2>4. ~WorkerRun
    BY <1>2 DEF WorkerRun, WorkerFlush
  <2> QED
    BY <2>2, <2>3, <2>4
<1> QED
  BY <1>1, <1>2

(* The last snapshot of a character that left is written.                  *)
LEMMA WriteLast ==
  ASSUME TypeOK, Revisions, Places, NEW s \in Snapshot, Coming(s), WriteStep(s),
         ~binding.in, s.revision = Last, used'.failures = used.failures
  PROVE  store'.place = binding.place
<1>1. store' = Saved(s)
  BY DEF WriteStep, SaveStep
<1>2. s.place = binding.place
  BY DEF Places
<1>3. store.recorded = Last => store.place = binding.place
  BY DEF Places
<1>4. store.revision <= Last /\ store.recorded <= Last
  BY LastIs DEF Revisions, Places
<1> QED
  BY <1>1, <1>2, <1>3, <1>4, SavedIs, LastIs, Numbers

(* The worker's writes do not lose the place of a departure.               *)
LEMMA WorkerLeaving ==
  ASSUME TypeOK, TypeOK', OneCommand, Revisions, Places, Leaving, WorkerRun \/ WorkerFlush
  PROVE  Leaving'
<1> SUFFICES ASSUME ~binding'.in, ~binding'.lost, used'.failures = 0
             PROVE  \/ store'.place = binding'.place
                    \/ \E s \in Snapshot : Coming(s)' /\ s.revision = Last'
  BY DEF Leaving
<1>1. /\ UNCHANGED binding
      /\ \/ \E s \in Snapshot : Coming(s) /\ WriteStep(s)
         \/ \E job \in Job :
              /\ job.op = "commit" /\ CommitStep(job) /\ Fits(job)
              /\ job.token \in Token /\ job.key \in Key
         \/ ExecuteRead /\ reconcile.stage = "reading"
         \/ UNCHANGED <<answer, reconcile, reports, store, used>>
  BY WorkerDoes
<1>2. Last' = Last /\ Last \in Nat /\ Last > 0
  BY <1>1, LastIs, Numbers DEF Last
<1>3. used'.failures = used.failures
  <2>1. used'.failures >= used.failures
    BY <1>1, Numbers DEF WriteStep, SaveStep, CommitStep, ExecuteRead
  <2> QED
    BY <2>1, Numbers
<1>4. CASE store.place = binding.place
  <2>1. store'.place >= store.place /\ Places'
    BY WorkerPlaces
  <2>2. store'.place <= binding.place
    BY <1>1, <2>1 DEF Places
  <2>3. store'.place \in Nat
    <3>1. store' \in Store
      BY DEF TypeOK
    <3> QED
      BY <3>1 DEF Store
  <2> QED
    BY <1>1, <1>4, <2>1, <2>2, <2>3, Numbers
<1>5. CASE \E s \in Snapshot : Coming(s) /\ s.revision = Last
  <2>1. PICK s \in Snapshot : Coming(s) /\ s.revision = Last
    BY <1>5
  <2>2. CASE Coming(s)'
    BY <1>2, <2>1, <2>2
  <2>3. CASE WriteStep(s)
    BY <1>1, <1>3, <2>1, <2>3, WriteLast
  <2>4. s # NoSnapshot
    BY <1>2, <2>1, Constants
  <2>5. Coming(s)' \/ WriteStep(s)
    BY <2>1, <2>4, WorkerComing, WorkerWrites
  <2> QED
    BY <2>2, <2>3, <2>5
<1> QED
  BY <1>1, <1>3, <1>4, <1>5 DEF Leaving

(* The owner's steps do not lose it, those of parking included.            *)
LEMMA OwnerLeaving ==
  ASSUME TypeOK, TypeOK', OneCommand, Revisions, Places, Leaving,
         \/ Quiet \/ RequestSave \/ Park \/ Departs \/ (Finishes /\ ~Leaves)
         \/ Enqueue \/ OtherWork
  PROVE  Leaving'
<1>1. CASE Quiet
  <2>1. /\ UNCHANGED store /\ used'.failures >= used.failures
        /\ \A s : Coming(s)' <=> Coming(s)
    BY <1>1, QuietIs
  <2>2. /\ binding'.in = binding.in /\ binding'.place = binding.place
        /\ binding'.persistence = binding.persistence
        /\ binding'.lost = binding.lost \/ binding.in
    BY <1>1, QuietBinding
  <2>3. Last' = Last
    BY <2>2 DEF Last
  <2>4. used'.failures = 0 => used.failures = 0
    BY <2>1, Numbers
  <2> QED
    BY <2>1, <2>2, <2>3, <2>4 DEF Leaving
<1>2. CASE RequestSave
  <2>1. binding'.in
    BY <1>2, RequestIs
  <2> QED
    BY <2>1 DEF Leaving
<1>3. CASE Park
  <2>1. /\ UNCHANGED <<store, queue, sending, used>>
        /\ parked' \in {parked, parking}
        /\ binding'.in = binding.in /\ binding'.place = binding.place
        /\ binding'.persistence = binding.persistence
        /\ binding'.lost = binding.lost
        /\ parked'.revision >= parked.revision /\ parked'.revision >= parking.revision
    BY <1>3, ParkIs DEF Park
  <2>2. Last' = Last
    BY <2>1 DEF Last
  <2>3. \A s \in Snapshot : Coming(s) /\ s.revision = Last =>
          Coming(s)' \/ (Coming(parked') /\ parked'.revision = Last)
    <3> SUFFICES ASSUME NEW s \in Snapshot, Coming(s), s.revision = Last, ~Coming(s)'
                 PROVE  Coming(parked') /\ parked'.revision = Last
      OBVIOUS
    <3>1. s \in {parked, parking}
      BY <2>1 DEF Coming, Slots
    <3>2. Coming(parked') /\ parked' \in Snapshot
      BY <2>1 DEF Coming, TypeOK
    <3>3. parked'.revision <= Last
      BY <3>2 DEF Places
    <3>4. parked'.revision >= Last
      BY <2>1, <3>1
    <3>5. parked'.revision \in Nat
      BY <3>2 DEF Snapshot
    <3> QED
      BY <3>2, <3>3, <3>4, <3>5, LastIs
  <2>4. parked' \in Snapshot /\ \A s : s = parked' => Coming(s)'
    BY <2>1 DEF Coming, TypeOK
  <2>5. (\E s \in Snapshot : Coming(s) /\ s.revision = Last) =>
          \E s \in Snapshot : Coming(s)' /\ s.revision = Last
    BY <2>3, <2>4
  <2> QED
    BY <2>1, <2>2, <2>5 DEF Leaving
<1>4. CASE Departs
  BY <1>4, DepartIs DEF Leaving
<1>5. CASE Finishes /\ ~Leaves
  <2>1. binding'.in
    BY <1>5, FinishDoes
  <2> QED
    BY <2>1 DEF Leaving
<1>6. CASE Enqueue \/ OtherWork
  <2>1. UNCHANGED <<store, binding, used>>
    BY <1>6 DEF Enqueue, OtherWork
  <2>2. \A s : Coming(s)' <=> Coming(s)
    BY <1>6, EnterComing
  <2>3. Last' = Last
    BY <2>1 DEF Last
  <2> QED
    BY <2>1, <2>2, <2>3 DEF Leaving
<1> QED
  BY <1>1, <1>2, <1>3, <1>4, <1>5, <1>6

(* No step loses it.                                                       *)
LEMMA LeavingStep ==
  ASSUME TypeOK, OneCommand, Revisions, Places, Leaving, [Next]_vars
  PROVE  Leaving'
<1>1. TypeOK'
  BY TypeStep
<1> QED
  BY <1>1, StepIs, OwnerLeaving, WorkerLeaving

(* Revisions of what is on its way, where the owner still has the binding. *)
LEMMA ComingNumbers ==
  ASSUME TypeOK, Revisions, Places
  PROVE  /\ \A i \in Slots : queue[i].op = "save" =>
              /\ queue[i].snapshot \in Snapshot /\ queue[i].snapshot.revision \in Nat
              /\ binding.in => queue[i].snapshot.revision <= binding.persistence
         /\ binding.in => /\ parked.revision <= binding.persistence
                          /\ parking.revision <= binding.persistence
         /\ binding.in => \A n : Reported(n) => n <= binding.persistence
         /\ parked \in Snapshot /\ parking \in Snapshot
         /\ parked # NoSnapshot => parked.revision > 0
         /\ parking # NoSnapshot => parking.revision > 0
         /\ NoSnapshot.revision = 0 /\ parked.revision \in Nat /\ parking.revision \in Nat
<1>1. \A i \in Slots : queue[i].op = "save" =>
        queue[i].snapshot \in Snapshot /\ Coming(queue[i].snapshot)
  <2>1. \A i \in Slots : queue[i] \in Job
    BY DEF TypeOK, Slots
  <2> QED
    BY <2>1, JobTypes DEF Coming, IsSave
<1>2. parked \in Snapshot /\ parking \in Snapshot /\ Coming(parked) /\ Coming(parking)
  BY DEF TypeOK, Coming
<1>3. \A s \in Snapshot : s.revision \in Nat
  BY DEF Snapshot
<1>4. binding.in => Last = binding.persistence
  BY DEF Last
<1> QED
  BY <1>1, <1>2, <1>3, <1>4, Constants DEF Places, Revisions, Reported

(* A step that neither writes nor sends.                                   *)
LEMMA StillKnown ==
  ASSUME Distinct, Known, UNCHANGED <<queue, parking, parked>>,
         reports' \subseteq reports, binding'.in => binding.in,
         binding.committed \in Nat, binding'.committed \in Nat,
         parked.revision \in Nat,
         \A i \in Slots : queue[i].op = "save" => queue[i].snapshot.revision \in Nat,
         binding'.committed >= binding.committed,
         binding.in => \A n \in binding.queued : n \in binding'.queued \/ Reported(n),
         \/ binding'.deferred = binding.deferred
         \/ Reported(binding.deferred)
  PROVE  Distinct' /\ Known'
<1>1. \A n : Reported(n)' => Reported(n)
  BY DEF Reported
<1>2. Slots' = Slots
  BY DEF Slots
<1>3. Distinct'
  BY <1>1, <1>2 DEF Distinct
<1>4. binding'.in => \A i \in Slots : queue[i].op = "save" =>
         \/ queue[i].snapshot.revision \in binding'.queued
         \/ queue[i].snapshot.revision <= binding'.committed
  BY DEF Known, Distinct
<1>5. binding'.in /\ parked # NoSnapshot =>
         \/ parked.revision = binding'.deferred
         \/ parked.revision <= binding'.committed
  BY DEF Known, Distinct
<1> QED
  BY <1>2, <1>3, <1>4, <1>5 DEF Known

(* The owner sends a snapshot newer than every other one, and notes it.    *)
LEMMA RequestKnown ==
  ASSUME TypeOK, Revisions, Places, Distinct, Known, RequestSave
  PROVE  Distinct' /\ Known'
<1>1. /\ binding.in /\ binding'.in /\ binding'.persistence = binding.persistence + 1
      /\ binding'.committed = binding.committed /\ binding'.deferred = binding.deferred
      /\ binding.queued \subseteq binding'.queued
      /\ queue' # queue => binding'.persistence \in binding'.queued
  BY RequestIs
<1>2. UNCHANGED <<parked, reports>> /\ parking = NoSnapshot
  BY RequestComing
<1>3. PICK n \in Snapshot : /\ n.revision = binding'.persistence
                            /\ Sends(n) \/ UNCHANGED <<queue, parking>>
  <2>1. PICK n \in Snapshot : /\ n.revision = Last'
                              /\ Sends(n) \/ UNCHANGED <<queue, parking>>
    BY RequestComing
  <2> QED
    BY <1>1, <2>1 DEF Last
<1>4. /\ \A i \in Slots : i \in Slots' /\ queue'[i] = queue[i]
      /\ \A i \in Slots' :
           \/ i \in Slots
           \/ /\ queue' # queue /\ parking' = parking /\ i = Len(queue) + 1
              /\ queue'[i] = SaveJob("save", n)
      /\ parking' \in {parking, n}
  BY <1>3, SendsIs
<1>5. SaveJob("save", n).snapshot = n
  BY DEF SaveJob
<1>6. /\ \A i \in Slots : queue[i].op = "save" =>
           queue[i].snapshot.revision \in Nat /\ queue[i].snapshot.revision < n.revision
      /\ parked.revision < n.revision /\ n.revision > 0 /\ ~Reported(n.revision)
      /\ parked.revision \in Nat /\ NoSnapshot.revision = 0 /\ n.revision \in Nat
  BY <1>1, <1>3, ComingNumbers, Numbers
<1>7. \A m : Reported(m)' <=> Reported(m)
  BY <1>2 DEF Reported
<1>8. \A i \in Slots' : queue'[i].op = "save" =>
        \/ i \in Slots /\ queue'[i] = queue[i] /\ queue[i].op = "save"
        \/ /\ i = Len(queue) + 1 /\ queue'[i].snapshot = n /\ queue' # queue
           /\ parking' = NoSnapshot
  BY <1>2, <1>4, <1>5
<1>9. \A i, j \in Slots' :
         /\ queue'[i].op = "save" /\ queue'[j].op = "save"
         /\ queue'[i].snapshot.revision = queue'[j].snapshot.revision
         => i = j
  <2>1. \A i, j \in Slots : /\ queue[i].op = "save" /\ queue[j].op = "save"
                            /\ queue[i].snapshot.revision = queue[j].snapshot.revision
                            => i = j
    BY <1>1 DEF Distinct
  <2> QED
    BY <1>6, <1>8, <2>1
<1>10. \A i \in Slots' : queue'[i].op = "save" =>
         /\ queue'[i].snapshot.revision > 0
         /\ queue'[i].snapshot.revision \notin {parked.revision, parking'.revision}
         /\ ~Reported(queue'[i].snapshot.revision)
  <2>1. \A i \in Slots : queue[i].op = "save" =>
         /\ queue[i].snapshot.revision > 0
         /\ queue[i].snapshot.revision \notin {parked.revision, parking.revision}
         /\ ~Reported(queue[i].snapshot.revision)
    BY <1>1 DEF Distinct
  <2> QED
    BY <1>2, <1>4, <1>6, <1>8, <2>1
<1>11. \A i \in Slots' : queue'[i].op = "save" =>
         /\ ~Reported(queue[i].snapshot.revision)'
  BY <1>7, <1>10
<1>12. parked # NoSnapshot =>
         /\ parked.revision > 0 /\ ~Reported(parked.revision)
         /\ parked.revision # parking'.revision
  BY <1>1, <1>2, <1>4, <1>6 DEF Distinct
<1>13. parking' # NoSnapshot => parking'.revision > 0 /\ ~Reported(parking'.revision)
  BY <1>2, <1>4, <1>6
<1>14. Distinct'
  <2>1. parking' # NoSnapshot => ~Reported(parking.revision)'
    BY <1>7, <1>13
  <2> QED
    BY <1>2, <1>7, <1>9, <1>10, <1>11, <1>12, <1>13, <2>1 DEF Distinct
<1>15. Known'
  <2>1. \A i \in Slots' : queue'[i].op = "save" =>
          \/ queue'[i].snapshot.revision \in binding'.queued
          \/ queue'[i].snapshot.revision <= binding'.committed
    BY <1>1, <1>3, <1>8 DEF Known
  <2> QED
    BY <1>1, <1>2, <2>1 DEF Known
<1> QED
  BY <1>14, <1>15

(* The owner notes the snapshot it parks.                                  *)
LEMMA ParkKnown ==
  ASSUME TypeOK, Revisions, Places, Distinct, Known, Park
  PROVE  Distinct' /\ Known'
<1>1. /\ parked' \in {parked, parking}
      /\ binding'.in = binding.in
      /\ binding'.committed = binding.committed
      /\ binding'.queued = binding.queued
      /\ binding.in => binding'.deferred = parked'.revision
  BY ParkIs
<1>2. UNCHANGED <<queue, reports>> /\ parking' = NoSnapshot
  BY DEF Park
<1>3. /\ Slots' = Slots /\ \A n : Reported(n)' <=> Reported(n)
  BY <1>2 DEF Slots, Reported
<1>4. NoSnapshot.revision = 0
  BY Constants
<1>5. binding.in /\ parked' # NoSnapshot =>
        parked'.revision > 0 /\ ~Reported(parked'.revision)
  BY <1>1 DEF Distinct
<1>6. binding.in /\ parked' # NoSnapshot => ~Reported(parked.revision)'
  BY <1>3, <1>5
<1>7. binding.in => \A i \in Slots : queue[i].op = "save" =>
         /\ queue[i].snapshot.revision > 0
         /\ queue[i].snapshot.revision \notin {parked'.revision, 0}
         /\ ~Reported(queue[i].snapshot.revision)'
  BY <1>1, <1>2, <1>3, ComingNumbers DEF Distinct
<1>8. Distinct'
  <2>1. binding.in => \A i, j \in Slots : /\ queue[i].op = "save" /\ queue[j].op = "save"
                            /\ queue[i].snapshot.revision = queue[j].snapshot.revision
                            => i = j
    BY DEF Distinct
  <2> QED
    BY <1>1, <1>2, <1>3, <1>4, <1>5, <1>6, <1>7, <2>1 DEF Distinct
<1>9. Known'
  BY <1>1, <1>2, <1>3 DEF Known
<1> QED
  BY <1>8, <1>9

(* The queue takes over a job that is no save.                             *)
LEMMA EnterKnown ==
  ASSUME TypeOK, OneCommand, Distinct, Known, Enqueue \/ OtherWork
  PROVE  Distinct' /\ Known'
<1>1. PICK job \in Job :
         /\ \/ job \in sending /\ sending' = sending \ {job}
            \/ job = OtherJob /\ sending' = sending
         /\ UNCHANGED <<binding, parking, parked, reports>>
         /\ Slots = 1 .. Len(queue) /\ Len(queue) \in Nat
         /\ Slots' = 1 .. Len(queue) + 1
         /\ \A i \in Slots : queue'[i] = queue[i]
         /\ queue'[Len(queue) + 1] = job
  BY EntersIs
<1>2. job.op # "save"
  BY <1>1 DEF OneCommand, OtherJob
<1>3. \A i \in Slots' : queue'[i].op = "save" =>
        i \in Slots /\ queue'[i] = queue[i] /\ queue[i].op = "save"
  <2>1. \A i \in Slots' : i \in Slots \/ i = Len(queue) + 1
    BY <1>1
  <2> QED
    BY <1>1, <1>2, <2>1
<1>4. \A n : Reported(n)' <=> Reported(n)
  BY <1>1 DEF Reported
<1>5. \A i \in Slots' : queue'[i].op = "save" =>
        (Reported(queue[i].snapshot.revision)' <=> Reported(queue[i].snapshot.revision))
  BY <1>3, <1>4
<1>6. Distinct'
  BY <1>1, <1>3, <1>4, <1>5 DEF Distinct
<1> QED
  BY <1>1, <1>3, <1>6 DEF Known

(* What the worker reports is no longer on its way.                        *)
LEMMA WorkerKnown ==
  ASSUME TypeOK, OneCommand, Revisions, Places, Distinct, Known, WorkerRun \/ WorkerFlush
  PROVE  Distinct' /\ Known'
<1> SUFFICES ASSUME binding'.in PROVE Distinct' /\ Known'
  BY DEF Distinct, Known
<1>1. UNCHANGED <<binding, parking>> /\ binding.in
  BY WorkerDoes
<1>2. NoSnapshot.revision = 0
  BY Constants
<1>3. CASE WorkerRun
  <2>1. queue # <<>> /\ queue' = Tail(queue) /\ UNCHANGED parked
    BY <1>3, WorkerRunIs
  <2>2. /\ 1 \in Slots
        /\ \A i \in Slots' : i + 1 \in Slots /\ i + 1 # 1 /\ queue'[i] = queue[i + 1]
        /\ \A i, j \in Slots' : i + 1 = j + 1 => i = j
    BY <2>1, TakenIs
  <2>3. \A n : Reported(n)' =>
          Reported(n) \/ (queue[1].op = "save" /\ n = queue[1].snapshot.revision)
    BY <1>3, WorkerWrites DEF Reported
  <2>4. \A i \in Slots' : queue'[i].op = "save" =>
         /\ queue'[i].snapshot.revision > 0
         /\ queue'[i].snapshot.revision \notin {parked.revision, parking.revision}
         /\ ~Reported(queue[i].snapshot.revision)'
    <3> SUFFICES ASSUME NEW i \in Slots', queue'[i].op = "save"
                 PROVE  /\ queue'[i].snapshot.revision > 0
                        /\ queue'[i].snapshot.revision \notin {parked.revision, parking.revision}
                        /\ ~Reported(queue[i].snapshot.revision)'
      OBVIOUS
    <3>1. PICK n : n = queue'[i].snapshot.revision
      OBVIOUS
    <3>2. /\ n > 0 /\ n \notin {parked.revision, parking.revision} /\ ~Reported(n)
          /\ queue[1].op = "save" => n # queue[1].snapshot.revision
      BY <1>1, <2>2, <3>1 DEF Distinct
    <3>3. ~Reported(n)'
      BY <2>3, <3>2
    <3> QED
      BY <3>1, <3>2, <3>3
  <2>5. \A i, j \in Slots' : /\ queue'[i].op = "save" /\ queue'[j].op = "save"
                             /\ queue'[i].snapshot.revision = queue'[j].snapshot.revision
                             => i = j
    BY <1>1, <2>2 DEF Distinct
  <2>6. /\ parked # NoSnapshot =>
             /\ parked.revision > 0 /\ ~Reported(parked.revision)'
             /\ parked.revision # parking.revision
        /\ parking # NoSnapshot => parking.revision > 0 /\ ~Reported(parking.revision)'
    <3>1. queue[1].op = "save" =>
            queue[1].snapshot.revision \notin {parked.revision, parking.revision}
      BY <1>1, <2>2 DEF Distinct
    <3>2. /\ Reported(parked.revision)' => \/ Reported(parked.revision)
                                           \/ queue[1].op = "save" /\ parked.revision = queue[1].snapshot.revision
          /\ Reported(parking.revision)' => \/ Reported(parking.revision)
                                            \/ queue[1].op = "save" /\ parking.revision = queue[1].snapshot.revision
      BY <1>1, <2>1, <2>3
    <3> QED
      BY <1>1, <3>1, <3>2 DEF Distinct
  <2>7. Distinct'
    BY <1>1, <2>1, <2>4, <2>5, <2>6 DEF Distinct
  <2>8. Known'
    BY <1>1, <2>1, <2>2 DEF Known
  <2> QED
    BY <2>7, <2>8
<1>4. CASE WorkerFlush
  <2>1. UNCHANGED queue /\ parked' = NoSnapshot
    BY <1>4 DEF WorkerFlush
  <2>2. Slots' = Slots
    BY <2>1 DEF Slots
  <2>3. \A n : Reported(n)' => Reported(n) \/ (parked # NoSnapshot /\ n = parked.revision)
    BY <1>4, WorkerWrites DEF Reported
  <2>4. \A i \in Slots : queue[i].op = "save" =>
         /\ queue[i].snapshot.revision > 0
         /\ queue[i].snapshot.revision \notin {0, parking.revision}
         /\ ~Reported(queue[i].snapshot.revision)'
    <3> SUFFICES ASSUME NEW i \in Slots, queue[i].op = "save"
                 PROVE  /\ queue[i].snapshot.revision > 0
                        /\ queue[i].snapshot.revision \notin {0, parking.revision}
                        /\ ~Reported(queue[i].snapshot.revision)'
      OBVIOUS
    <3>1. PICK n : n = queue[i].snapshot.revision
      OBVIOUS
    <3>2. /\ n > 0 /\ n \notin {parked.revision, parking.revision} /\ ~Reported(n)
          /\ n \in Nat
      BY <1>1, <3>1, ComingNumbers DEF Distinct
    <3>3. ~Reported(n)'
      BY <2>3, <3>2
    <3> QED
      BY <2>1, <3>1, <3>2, <3>3
  <2>5. parking # NoSnapshot => parking.revision > 0 /\ ~Reported(parking.revision)'
    <3>1. Reported(parking.revision)' => \/ Reported(parking.revision)
                                         \/ parked # NoSnapshot /\ parking.revision = parked.revision
      BY <1>1, <2>3
    <3> QED
      BY <1>1, <3>1 DEF Distinct
  <2>6. \A i, j \in Slots : /\ queue[i].op = "save" /\ queue[j].op = "save"
                            /\ queue[i].snapshot.revision = queue[j].snapshot.revision
                            => i = j
    BY <1>1 DEF Distinct
  <2>7. Distinct'
    BY <1>1, <1>2, <2>1, <2>2, <2>4, <2>5, <2>6 DEF Distinct
  <2>8. Known'
    BY <1>1, <2>1, <2>2 DEF Known
  <2> QED
    BY <2>7, <2>8
<1> QED
  BY <1>3, <1>4

(* Every step keeps the owner aware of what is on its way.                 *)
LEMMA KnownStep ==
  ASSUME TypeOK, OneCommand, Revisions, Places, Distinct, Known, [Next]_vars
  PROVE  Distinct' /\ Known'
<1>1. CASE Quiet \/ (Finishes /\ ~Leaves)
  <2>1. TypeOK'
    BY TypeStep
  <2>2. binding'.committed \in Nat /\ binding.committed \in Nat
    <3>1. binding' \in Binding
      BY <2>1 DEF TypeOK
    <3> QED
      BY <3>1, Numbers DEF Binding
  <2>3. /\ UNCHANGED <<queue, parking, parked>> /\ reports' \subseteq reports
        /\ binding'.in = binding.in /\ binding'.committed >= binding.committed
        /\ binding.in => \A n \in binding.queued : n \in binding'.queued \/ Reported(n)
        /\ \/ binding'.deferred = binding.deferred
           \/ Reported(binding.deferred)
    <3>1. CASE Quiet
      BY <3>1, QuietIs, QuietBinding
    <3>2. CASE Finishes /\ ~Leaves
      BY <3>2, FinishDoes
    <3> QED
      BY <1>1, <3>1, <3>2
  <2> QED
    BY <2>2, <2>3, ComingNumbers, StillKnown
<1>2. CASE Departs
  <2>1. ~binding'.in
    BY <1>2, DepartIs
  <2> QED
    BY <2>1 DEF Distinct, Known
<1> QED
  BY <1>1, <1>2, StepIs, RequestKnown, ParkKnown, EnterKnown, WorkerKnown

-----------------------------------------------------------------------------
(***************************************************************************)
(* The theorems that hold whatever happens.                                *)
(***************************************************************************)
(* The invariant holds at first.                                           *)
LEMMA DurableInit == Init => DurableInv
<1> SUFFICES ASSUME Init PROVE DurableInv
  OBVIOUS
<1>1. TypeOK
  BY TypeInit
<1>2. Slots = {} /\ Last = 1 /\ binding.in /\ ~Reported(0)
  BY DEF Init, Slots, Last, Reported
<1>3. OneCommand /\ Revisions
  BY <1>2, Constants DEF Init, OneCommand, Revisions
<1>4. \A s \in Snapshot : Coming(s) => s = NoSnapshot
  BY <1>2 DEF Init, Coming
<1>5. Places
  BY <1>2, <1>4, Constants DEF Init, Places
<1>6. Leaving /\ Distinct /\ Known
  BY <1>2, Constants DEF Init, Leaving, Distinct, Known
<1> QED
  BY <1>1, <1>3, <1>5, <1>6 DEF DurableInv

(* Every step keeps it, and no step writes an older place.                 *)
LEMMA DurableStep ==
  ASSUME DurableInv, [Next]_vars
  PROVE  DurableInv' /\ store'.place >= store.place
<1>1. TypeOK /\ OneCommand /\ Revisions /\ Places /\ Leaving /\ Distinct /\ Known
  BY DEF DurableInv
<1>2. TypeOK' /\ OneCommand' /\ Revisions'
  BY <1>1, TypeStep, CommandStep, RevisionsStep
<1>3. Places' /\ store'.place >= store.place
  BY <1>1, PlacesStep
<1>4. Leaving' /\ Distinct' /\ Known'
  BY <1>1, LeavingStep, KnownStep
<1> QED
  BY <1>2, <1>3, <1>4 DEF DurableInv

(* The invariant of every behaviour, whatever is lost or fails.            *)
THEOREM DurableSound == Spec => []DurableInv
<1>1. DurableInv /\ [Next]_vars => DurableInv'
  BY DurableStep
<1> QED
  BY <1>1, DurableInit, PTL DEF Spec

(* Types: take_durable_commits, persist.rs and postgres.rs keep them.      *)
THEOREM DurableTypes == Spec => []TypeOK
<1>1. DurableInv => TypeOK
  BY DEF DurableInv
<1> QED
  BY <1>1, DurableSound, PTL

(* The owner believes no revision committed that the database has not.     *)
THEOREM OwnerBelievesStored == Spec => []CommittedIsStored
<1>1. DurableInv => CommittedIsStored
  BY DEF DurableInv, Revisions, CommittedIsStored
<1> QED
  BY <1>1, DurableSound, PTL

(* Neither the queue nor the parking slot brings an older place back.      *)
THEOREM PlacesGoForward == Spec => PlaceNeverOlder
<1>1. DurableInv /\ [Next]_vars => [store'.place >= store.place]_vars
  BY DurableStep
<1> QED
  BY <1>1, DurableSound, PTL DEF Spec, PlaceNeverOlder

(* When nothing is on its way any more, the place is stored.               *)
LEMMA LeftIsStored ==
  ASSUME TypeOK, OneCommand, Leaving
  PROVE  LeaveStoresPlace
<1> SUFFICES ASSUME ~binding.in, ~binding.lost, OnTheWay = {NoSnapshot},
                    \A job \in sending \cup {queue[i] : i \in 1..Len(queue)} :
                      job.op # "logout",
                    used.failures = 0, store.place # binding.place
             PROVE  FALSE
  BY DEF LeaveStoresPlace
<1>1. PICK s \in Snapshot : Coming(s) /\ s.revision = Last
  BY DEF Leaving
<1>2. s.revision > 0
  BY <1>1, LastIs, Numbers
<1>3. s \in {parked, parking} => s \in OnTheWay
  BY DEF OnTheWay
<1>4. Slots = 1 .. Len(queue)
  BY DEF TypeOK, Slots
<1>5. \A i \in Slots : IsSave(queue[i]) /\ queue[i].snapshot = s => s \in OnTheWay
  BY <1>4 DEF IsSave, OnTheWay
<1>6. \A a \in sending : ~IsSave(a)
  BY DEF IsSave, OneCommand
<1>7. s \in OnTheWay
  BY <1>1, <1>3, <1>5, <1>6 DEF Coming
<1> QED
  BY <1>2, <1>7, Constants

(* A character that left under its authority is stored where it left.      *)
THEOREM DeparturesAreStored == Spec => []LeaveStoresPlace
<1>1. DurableInv => LeaveStoresPlace
  BY LeftIsStored DEF DurableInv
<1> QED
  BY <1>1, DurableSound, PTL

(* What take_durable_commits finds when it hands a command over: nothing   *)
(* newer than the key is on its way.                                       *)
LEMMA SubmitAhead ==
  ASSUME DurableInv, SubmitCommit, NEW s \in OnTheWay
  PROVE  s.revision <= command'.key.revision
<1> DEFINE b == Adopted(binding)
           aligned == [command EXCEPT !.at = "worker",
                                      !.key.revision = Later(@, b.committed)]
<1>1. /\ TypeOK /\ OneCommand /\ Revisions /\ Places /\ Distinct /\ Known
  BY DEF DurableInv
<1>2. /\ parking = NoSnapshot /\ command.at # "none" /\ command' = aligned
      /\ ~SnapshotAhead(b)
  BY DEF SubmitCommit, OwnerFree
<1>3. binding.in
  BY <1>1, <1>2 DEF OneCommand
<1>4. /\ b \in Binding /\ b.committed \in Nat /\ b.queued \subseteq Nat
      /\ b.deferred \in Nat
      /\ b.committed >= binding.committed
      /\ \A n \in binding.queued : n \in b.queued \/ Reported(n)
      /\ b.deferred = binding.deferred \/ Reported(binding.deferred)
  BY <1>1, <1>3, AdoptedIs DEF Binding
<1> HIDE DEF b
<1>5. aligned.key.revision = Later(command.key.revision, b.committed)
  BY <1>1, <1>4, AlignedIs DEF TypeOK
<1>6. command'.key.revision >= b.committed /\ command'.key.revision \in Nat
  BY <1>1, <1>2, <1>4, <1>5, LaterIs, Numbers
<1>7. \A n \in b.queued : n <= b.committed
  BY <1>2, <1>4 DEF SnapshotAhead
<1>8. b.deferred <= b.committed
  BY <1>2, <1>4 DEF SnapshotAhead
<1>9. CASE s = NoSnapshot
  BY <1>6, <1>9, Constants
<1>10. CASE s = parked /\ s # NoSnapshot
  <2>1. /\ ~Reported(parked.revision)
        /\ parked.revision = binding.deferred \/ parked.revision <= binding.committed
    BY <1>3, <1>1, <1>10 DEF Distinct, Known
  <2>2. parked.revision <= b.committed
    BY <1>1, <1>4, <1>8, <2>1, Numbers
  <2> QED
    BY <1>1, <1>4, <1>6, <1>10, <2>2, Numbers
<1>11. CASE s \notin {parked, parking}
  <2>1. Slots = 1 .. Len(queue)
    BY <1>1 DEF TypeOK, Slots
  <2>2. PICK i \in Slots : queue[i].op = "save" /\ s = queue[i].snapshot
    BY <1>11, <2>1 DEF OnTheWay
  <2>3. /\ ~Reported(s.revision) /\ s.revision \in Nat
        /\ s.revision \in binding.queued \/ s.revision <= binding.committed
    BY <1>1, <1>3, <2>2, ComingNumbers DEF Distinct, Known
  <2>4. s.revision <= b.committed
    BY <1>1, <1>4, <1>7, <2>3, Numbers
  <2> QED
    BY <1>4, <1>6, <2>3, <2>4
<1> QED
  BY <1>2, <1>9, <1>10, <1>11

(* Only take_durable_commits hands a command to the worker.                *)
LEMMA OnlySubmits ==
  ASSUME TypeOK, OneCommand, [Next]_vars, command.at # "worker", command'.at = "worker"
  PROVE  SubmitCommit
<1>1. CASE \E kind \in Kind : Stage(kind)
  <2>1. command'.at = "outbound"
    BY <1>1 DEF Stage
  <2> QED
    BY <2>1
<1>2. CASE SettleUnknown
  <2>1. answer # NoAnswer
    BY <1>2, Constants DEF SettleUnknown
  <2> QED
    BY <2>1 DEF OneCommand
<1>3. CASE SettleRefused \/ SettleCommitted \/ SettleUnapplied
  BY <1>3, Constants DEF SettleRefused, SettleCommitted, SettleUnapplied
<1>4. CASE \/ AdoptReports \/ RequestSave \/ Park \/ TakeReconcileJobs
           \/ CompleteReconcile \/ ReconcileFails \/ LoseAuthority \/ Detach \/ Logout
           \/ Enqueue \/ OtherWork \/ WorkerRun \/ WorkerFlush \/ UNCHANGED vars
  BY <1>4
  DEF vars, AdoptReports, RequestSave, Park, TakeReconcileJobs, CompleteReconcile,
      ReconcileFails, LoseAuthority, Detach, Logout, Enqueue, OtherWork,
      WorkerRun, WorkerFlush
<1> QED
  BY <1>1, <1>2, <1>3, <1>4 DEF Next

(* A command is not submitted behind a snapshot that changes the revision  *)
(* it expects.                                                             *)
THEOREM SubmitsWait == Spec => SubmitsBehindNoSnapshot
<1>1. DurableInv /\ [Next]_vars =>
        [command.at # "worker" /\ command'.at = "worker" =>
           \A s \in OnTheWay : s.revision <= command'.key.revision]_vars
  BY OnlySubmits, SubmitAhead DEF DurableInv
<1> QED
  BY <1>1, DurableSound, PTL DEF Spec, SubmitsBehindNoSnapshot

-----------------------------------------------------------------------------
(***************************************************************************)
(* Keys and effects, where no stored command is realigned.                 *)
(***************************************************************************)
(* The bounds and what is used of them are numbers.                        *)
LEMMA UsedNumbers ==
  ASSUME TypeOK
  PROVE  /\ used \in Used /\ used.commands \in Nat /\ used.saves \in Nat
         /\ used.lost \in Nat /\ MaxCommands \in Nat /\ MaxSaves \in Nat
         /\ MaxLost \in Nat /\ Token = 1 .. MaxCommands
  BY DurableAssumption DEF TypeOK, Used, Token

(* No step sends a snapshot when none is requested.                        *)
LEMMA NoSavesStep ==
  ASSUME TypeOK, OneCommand, Revisions, Fresh, NoSaves, [Next]_vars
  PROVE  NoSaves'
<1> SUFFICES ASSUME MaxSaves = 0, binding'.in PROVE NoSaves'
  BY DEF NoSaves
<1> USE DEF NoSaves
<1>1. CASE Quiet \/ (Finishes /\ ~Leaves)
  <2>1. CASE Quiet
    <3>1. /\ UNCHANGED <<queue, parking, parked>> /\ reports' \subseteq reports
          /\ binding'.in = binding.in
      BY <2>1, QuietIs, QuietBinding
    <3> QED
      BY <3>1 DEF Slots
  <2>2. CASE Finishes /\ ~Leaves
    <3>1. UNCHANGED <<queue, parking, parked, reports>> /\ binding.in
      BY <2>2, FinishDoes
    <3> QED
      BY <3>1 DEF Slots
  <2> QED
    BY <1>1, <2>1, <2>2
<1>2. ~RequestSave
  <2>1. RequestSave => used.saves < MaxSaves
    BY DEF RequestSave
  <2> QED
    BY <2>1, UsedNumbers
<1>3. ~Departs
  BY DepartIs
<1>4. ~Park
  BY ParkIs DEF Park, OwnerFree
<1>5. CASE Enqueue \/ OtherWork
  <2>1. PICK job \in Job :
         /\ \/ job \in sending /\ sending' = sending \ {job}
            \/ job = OtherJob /\ sending' = sending
         /\ UNCHANGED <<binding, parking, parked, reports>>
         /\ Slots = 1 .. Len(queue) /\ Len(queue) \in Nat
         /\ Slots' = 1 .. Len(queue) + 1
         /\ \A i \in Slots : queue'[i] = queue[i]
         /\ queue'[Len(queue) + 1] = job
    BY <1>5, EntersIs
  <2>2. job.op # "save"
    BY <2>1 DEF OneCommand, OtherJob
  <2>3. \A i \in Slots' : i \in Slots \/ i = Len(queue) + 1
    BY <2>1
  <2> QED
    BY <2>1, <2>2, <2>3
<1>6. CASE WorkerRun
  <2>1. queue # <<>> /\ queue' = Tail(queue) /\ UNCHANGED <<binding, parking, parked>>
    BY <1>6, WorkerRunIs
  <2>2. 1 \in Slots /\ \A i \in Slots' : i + 1 \in Slots /\ queue'[i] = queue[i + 1]
    BY <2>1, TakenIs
  <2>3. reports' = {}
    BY <1>6, <2>1, <2>2, WorkerWrites
  <2> QED
    BY <2>1, <2>2, <2>3
<1>7. CASE WorkerFlush
  <2>1. UNCHANGED <<binding, parking, queue>> /\ parked' = NoSnapshot
    BY <1>7 DEF WorkerFlush
  <2>2. reports' = {}
    BY <1>7, <2>1, WorkerWrites
  <2> QED
    BY <2>1, <2>2 DEF Slots
<1> QED
  BY <1>1, <1>2, <1>3, <1>4, <1>5, <1>6, <1>7, StepIs

(* A step that decides about no command.                                   *)
LEMMA OnceFrame ==
  ASSUME Fresh, Keys, Shows, UNCHANGED <<command, answer, reconcile, told, world>>,
         store'.keys = store.keys, store'.executed = store.executed,
         used'.commands = used.commands, used'.saves <= MaxSaves, used'.lost <= MaxLost,
         binding.committed \in Nat, binding'.committed \in Nat,
         \A k \in store.keys : k.revision \in Nat,
         binding'.committed >= binding.committed,
         MaxSaves = 0 /\ command.at # "none" => binding'.committed = binding.committed,
         binding'.in /\ ~binding'.pending => binding.in /\ ~binding.pending
  PROVE  Fresh' /\ Keys' /\ Shows'
<1>1. Fresh'
  BY DEF Fresh
<1>2. \A k \in store.keys : k.revision < binding.committed =>
                              k.revision < binding'.committed
  OBVIOUS
<1>3. Keys'
  BY <1>2 DEF Keys
<1>4. Shows'
  BY DEF Shows
<1> QED
  BY <1>1, <1>3, <1>4

(* Reports, snapshots and departures decide about no command.              *)
LEMMA FrameSteps ==
  ASSUME TypeOK, TypeOK', OneCommand, Revisions, Fresh, Keys, NoSaves, Shows,
         \/ AdoptReports \/ RequestSave \/ Park \/ LoseAuthority \/ Detach \/ Logout
         \/ Enqueue \/ OtherWork \/ UNCHANGED vars
  PROVE  Fresh' /\ Keys' /\ Shows'
<1>1. /\ UNCHANGED <<command, answer, reconcile, told, world, store>>
      /\ used' = used \/ (RequestSave /\ used' = [used EXCEPT !.saves = @ + 1]
                                      /\ used.saves < MaxSaves)
  BY DEF AdoptReports, RequestSave, Park, LoseAuthority, Detach, Logout, Enqueue,
         OtherWork, vars
<1>2. used'.commands = used.commands /\ used'.saves <= MaxSaves /\ used'.lost <= MaxLost
  BY <1>1, UsedNumbers DEF Used, Fresh
<1>3. binding.committed \in Nat /\ \A k \in store.keys : k.revision \in Nat
  BY Numbers
<1>4. binding'.committed \in Nat /\ binding' \in Binding
  BY DEF TypeOK, Binding
<1>5. CASE AdoptReports
  <2>1. /\ binding'.committed >= binding.committed /\ binding'.in = binding.in
        /\ binding'.pending = binding.pending
        /\ reports = {} => binding'.committed = binding.committed
    BY <1>5, AdoptedIs DEF AdoptReports
  <2>2. MaxSaves = 0 /\ command.at # "none" => reports = {}
    BY DEF OneCommand, NoSaves
  <2> QED
    BY <1>1, <1>2, <1>3, <1>4, <2>1, <2>2, OnceFrame
<1>6. CASE ~AdoptReports
  <2>1. /\ binding'.committed = binding.committed
        /\ binding'.in /\ ~binding'.pending => binding.in /\ ~binding.pending
    <3>1. CASE RequestSave
      BY <3>1, RequestIs
    <3>2. CASE Park
      BY <3>2, ParkIs
    <3>3. CASE Detach /\ ~binding.pending
      <4>1. Leaves /\ binding'.committed = binding.committed
        BY <3>3, LeaveIs DEF Detach, TypeOK
      <4> QED
        BY <4>1 DEF Leaves
    <3>4. CASE LoseAuthority \/ Logout \/ (Detach /\ binding.pending)
      <4>1. /\ binding'.committed = binding.committed
            /\ binding'.pending = binding.pending
            /\ binding'.in => binding.in
        BY <3>4 DEF LoseAuthority, Logout, Detach, TypeOK, Binding
      <4> QED
        BY <4>1
    <3>5. CASE UNCHANGED binding
      BY <3>5
    <3>6. UNCHANGED binding \/ RequestSave \/ Park \/ Detach \/ LoseAuthority \/ Logout
      BY <1>6 DEF Enqueue, OtherWork, vars
    <3> QED
      BY <3>1, <3>2, <3>3, <3>4, <3>5, <3>6
  <2> QED
    BY <1>1, <1>2, <1>3, <2>1, OnceFrame
<1> QED
  BY <1>5, <1>6

(* A new command expects a revision newer than every key.                  *)
LEMMA StageOnce ==
  ASSUME TypeOK, TypeOK', OneCommand, Revisions, Fresh, Keys, Shows,
         NEW kind \in Kind, Stage(kind)
  PROVE  Fresh' /\ Keys' /\ Shows'
<1> DEFINE b == Adopted(binding)
<1>1. /\ binding.in /\ ~binding.pending /\ used.commands < MaxCommands
      /\ binding' = [b EXCEPT !.pending = TRUE]
      /\ used' = [used EXCEPT !.commands = @ + 1]
      /\ command' = [token |-> used.commands + 1,
                     key |-> [revision |-> binding'.committed, kind |-> kind],
                     at |-> "outbound"]
      /\ UNCHANGED <<reconcile, answer, store, world, told>>
  BY DEF Stage
<1>2. /\ used.commands \in Nat /\ used'.commands = used.commands + 1
      /\ used'.saves = used.saves /\ used'.lost = used.lost
      /\ used.commands + 1 \in Token /\ used.commands + 1 <= MaxCommands
  BY <1>1, UsedNumbers DEF Used
<1>3. /\ b \in Binding /\ b.committed >= binding.committed /\ b.committed \in Nat
  BY AdoptedIs DEF Binding
<1> HIDE DEF b
<1>4. binding'.committed = b.committed /\ binding'.pending
  BY <1>1, <1>3 DEF Binding
<1>5. command.at = "none" /\ reconcile.stage = "none" /\ answer = NoAnswer
  BY <1>1, CarriersAre
<1>6. /\ command'.token = used.commands + 1 /\ command'.at = "outbound"
      /\ command'.key.revision = b.committed
  BY <1>1, <1>4
<1>7. used.commands + 1 \notin store.executed /\ told[used.commands + 1] = "nothing"
  BY <1>2 DEF Fresh
<1>8. \A k \in store.keys : k.revision < b.committed
  BY <1>3, <1>5, Numbers DEF Keys
<1>9. Fresh'
  <2>1. store.executed \subseteq 1 .. used'.commands
    BY <1>2 DEF Fresh
  <2>2. \A t \in Token : t > used'.commands => told[t] = "nothing"
    BY <1>2, UsedNumbers DEF Fresh
  <2> QED
    BY <1>1, <1>2, <1>5, <1>6, <1>7, <2>1, <2>2 DEF Fresh
<1>10. Keys'
  <2>1. command'.key \notin store.keys
    BY <1>3, <1>6, <1>8
  <2>2. command'.token \notin store.executed
    BY <1>6, <1>7
  <2> QED
    BY <1>1, <1>3, <1>4, <1>5, <1>6, <1>8, <2>1, <2>2, Constants DEF Keys
<1>11. Shows'
  <2>1. world = store.executed
    BY <1>1 DEF Shows
  <2> QED
    BY <1>1, <1>4, <1>5, <1>6, <1>7, <2>1 DEF Shows
<1> QED
  BY <1>9, <1>10, <1>11

(* The key of a command moves only while it is not stored.                 *)
LEMMA SubmitOnce ==
  ASSUME TypeOK, TypeOK', OneCommand, Revisions, Fresh, Keys, NoSaves, Shows,
         ~Realigns, SubmitCommit
  PROVE  Fresh' /\ Keys' /\ Shows'
<1> DEFINE b == Adopted(binding)
           aligned == [command EXCEPT !.at = "worker",
                                      !.key.revision = Later(@, b.committed)]
<1>1. /\ command.at \in {"outbound", "retry"}
      /\ binding' = b /\ command' = aligned
      /\ UNCHANGED <<reconcile, answer, store, world, told, used>>
  BY DEF SubmitCommit
<1>2. /\ b \in Binding /\ b.committed \in Nat /\ b.committed >= binding.committed
      /\ b.pending = binding.pending
      /\ reports = {} => b.committed = binding.committed
  BY AdoptedIs DEF Binding
<1> HIDE DEF b
<1>3. /\ aligned.token = command.token /\ aligned.at = "worker"
      /\ aligned.key.revision = Later(command.key.revision, b.committed)
      /\ aligned.key.kind = command.key.kind /\ aligned \in Command
  BY <1>2, AlignedIs DEF TypeOK
<1> HIDE DEF aligned
<1>4. /\ binding.pending /\ binding.in /\ reconcile.stage = "none"
      /\ answer = NoAnswer
  BY <1>1 DEF OneCommand
<1>5. /\ command.key.revision \in Nat /\ binding.committed \in Nat
      /\ \A k \in store.keys : k.revision \in Nat
      /\ store.keys \subseteq Key /\ command.key \in Key /\ aligned.key \in Key
  BY <1>3, Numbers, CommandIs
<1>6. aligned.key.revision >= b.committed /\ aligned.key.revision \in Nat
  BY <1>2, <1>3, <1>5, LaterIs
<1>7. CASE MaxSaves = 0
  <2>1. /\ reports = {} /\ command.key.revision >= binding.committed
    BY <1>1, <1>4, <1>7 DEF NoSaves, Keys
  <2>2. b.committed = binding.committed
    BY <1>2, <2>1
  <2>3. aligned.key.revision = command.key.revision
    BY <1>3, <1>5, <2>1, <2>2 DEF Later
  <2>4. aligned.key = command.key
    BY <1>3, <1>5, <2>3 DEF Key
  <2>5. Keys'
    BY <1>1, <1>3, <1>4, <2>1, <2>2, <2>4, Constants DEF Keys
  <2> QED
    BY <1>1, <1>2, <1>3, <1>4, <2>5 DEF Fresh, Shows
<1>8. CASE MaxLost = 0 /\ MaxSaves # 0
  <2>1. command.token \notin store.executed /\ command.key \notin store.keys
    BY <1>1, <1>8 DEF Keys
  <2>2. \A k \in store.keys : k.revision < binding.committed
    BY <1>4, <2>1 DEF Keys
  <2>3. \A k \in store.keys : k.revision < b.committed
    BY <1>2, <1>5, <2>2
  <2>4. aligned.key \notin store.keys
    BY <1>2, <1>5, <1>6, <2>3
  <2>5. Keys'
    BY <1>1, <1>3, <1>4, <1>8, <2>1, <2>3, <2>4, Constants DEF Keys
  <2> QED
    BY <1>1, <1>2, <1>3, <1>4, <2>5 DEF Fresh, Shows
<1> QED
  BY <1>7, <1>8 DEF Realigns

(* An unknown outcome keeps the key; an unapplied command is stored.       *)
LEMMA SettleOnce ==
  ASSUME TypeOK, TypeOK', OneCommand, Revisions, Fresh, Keys, Shows,
         SettleUnknown \/ SettleUnapplied \/ TakeReconcileJobs \/ ReconcileFails
  PROVE  Fresh' /\ Keys' /\ Shows'
<1>1. /\ binding \in Binding /\ command \in Command /\ reconcile \in Reconcile
      /\ used \in Used /\ store.revision \in Nat
  BY Numbers DEF TypeOK
<1>2. UNCHANGED store
  BY DEF SettleUnknown, SettleUnapplied, TakeReconcileJobs, ReconcileFails
<1>3. CASE SettleUnknown
  <2>1. /\ answer.result = "unknown" /\ answer' = NoAnswer
        /\ binding' = [binding EXCEPT !.uncertain = TRUE]
        /\ command' = [command EXCEPT !.at = "retry"]
        /\ UNCHANGED <<reconcile, world, told, used>>
    BY <1>3 DEF SettleUnknown
  <2>2. /\ binding'.in = binding.in /\ binding'.pending = binding.pending
        /\ binding'.committed = binding.committed
        /\ command'.at = "retry" /\ command'.key = command.key
        /\ command'.token = command.token
    BY <1>1, <2>1 DEF Binding, Command
  <2>3. command.at # "none" /\ answer # NoAnswer
    BY <2>1, Constants DEF OneCommand
  <2>4. MaxLost # 0
    BY <2>1 DEF Keys
  <2>5. Keys'
    BY <1>2, <2>1, <2>2, <2>3, <2>4, Constants DEF Keys
  <2> QED
    BY <1>2, <2>1, <2>2, <2>3, <2>5 DEF Fresh, Shows
<1>4. CASE SettleUnapplied
  <2>1. /\ answer.result = "ok" /\ answer' = NoAnswer /\ command' = NoCommand
        /\ reconcile' = [stage |-> "wanted", token |-> command.token,
                         revision |-> answer.revision, restored |-> {}]
        /\ UNCHANGED <<binding, world, told>>
        /\ used' = [used EXCEPT !.failures = @ + 1]
    BY <1>4 DEF SettleUnapplied
  <2>2. /\ used'.commands = used.commands /\ used'.saves = used.saves
        /\ used'.lost = used.lost
    BY <1>1, <2>1 DEF Used
  <2>3. command.at = "worker" /\ binding.pending /\ reconcile.stage = "none"
    BY <2>1, Constants DEF OneCommand
  <2>4. /\ command.key \in store.keys /\ answer.revision = command.key.revision + 1
        /\ command.token \in store.executed /\ told[command.token] = "nothing"
    BY <2>1, <2>3 DEF Keys, Fresh
  <2>5. Keys'
    <3>1. command.key.revision < answer.revision
      BY <2>4, Numbers
    <3>2. \A k \in store.keys : k.revision < binding.committed \/ k = command.key
      BY <2>3 DEF Keys
    <3> QED
      BY <1>2, <2>1, <2>3, <3>1, <3>2, Constants DEF Keys
  <2>6. Fresh'
    BY <1>2, <2>1, <2>2, <2>4, Constants DEF Fresh
  <2> QED
    BY <1>2, <2>1, <2>3, <2>5, <2>6, Constants DEF Shows
<1>5. CASE TakeReconcileJobs \/ ReconcileFails
  <2>1. /\ reconcile.stage # "none" /\ reconcile'.stage \in {"reading", "stuck", "wanted"}
        /\ reconcile'.token = reconcile.token /\ reconcile'.revision = reconcile.revision
        /\ UNCHANGED <<binding, command, answer, told>>
        /\ used' = used \/ used' = [used EXCEPT !.failures = @ + 1]
    BY <1>1, <1>5 DEF TakeReconcileJobs, ReconcileFails, Reconcile
  <2>2. /\ used'.commands = used.commands /\ used'.saves = used.saves
        /\ used'.lost = used.lost
    BY <1>1, <2>1 DEF Used
  <2>3. binding.pending /\ command.at = "none"
    BY <2>1 DEF OneCommand
  <2>4. Keys' /\ Fresh'
    BY <1>2, <2>1, <2>2, <2>3 DEF Keys, Fresh
  <2> QED
    BY <1>2, <2>1, <2>3, <2>4 DEF Shows
<1> QED
  BY <1>3, <1>4, <1>5

(* A finished command leaves World as the database is.                     *)
LEMMA FinishOnce ==
  ASSUME TypeOK, TypeOK', OneCommand, Revisions, Fresh, Keys, Shows, Finishes
  PROVE  Fresh' /\ Keys' /\ Shows'
<1>1. /\ UNCHANGED <<store, used>> /\ ~binding'.pending
  BY FinishDoes
<1>2. /\ command'.at = "none" /\ reconcile'.stage = "none" /\ answer' = NoAnswer
  <2>1. CASE SettleRefused \/ SettleCommitted
    <3>1. answer # NoAnswer
      BY <2>1, Constants DEF SettleRefused, SettleCommitted
    <3>2. reconcile.stage = "none"
      BY <3>1 DEF OneCommand
    <3> QED
      BY <2>1, <3>2, Constants DEF SettleRefused, SettleCommitted
  <2>2. CASE CompleteReconcile
    <3>1. command.at = "none" /\ answer = NoAnswer
      BY <2>2 DEF CompleteReconcile, OneCommand
    <3> QED
      BY <2>2, <3>1, Constants DEF CompleteReconcile
  <2> QED
    BY <2>1, <2>2 DEF Finishes
<1>3. PICK n \in Nat : /\ FinishDurable(n)
                       /\ \A k \in store.keys : k.revision < Later(binding.committed, n)
  <2>0. binding.committed \in Nat /\ \A k \in store.keys : k.revision \in Nat
    BY Numbers
  <2>1. CASE SettleRefused
    <3>1. /\ FinishDurable(binding.committed) /\ answer.result = "refused"
      BY <2>1 DEF SettleRefused
    <3>2. answer # NoAnswer
      BY <3>1, Constants
    <3>3. command.at = "worker" /\ reconcile.stage = "none"
      BY <3>2 DEF OneCommand
    <3>4. command.key \notin store.keys
      BY <3>1 DEF Keys
    <3>5. \A k \in store.keys : k.revision < binding.committed
      BY <3>3, <3>4 DEF Keys
    <3>6. Later(binding.committed, binding.committed) = binding.committed
      BY DEF Later
    <3> QED
      BY <2>0, <3>1, <3>5, <3>6
  <2>2. CASE SettleCommitted
    <3>1. /\ FinishDurable(answer.revision) /\ answer.result = "ok"
      BY <2>2 DEF SettleCommitted
    <3>2. answer # NoAnswer
      BY <3>1, Constants
    <3>3. command.at = "worker" /\ reconcile.stage = "none"
      BY <3>2 DEF OneCommand
    <3>4. answer.revision = command.key.revision + 1
      BY <3>1 DEF Keys
    <3>5. \A k \in store.keys : k.revision < binding.committed \/ k = command.key
      BY <3>3 DEF Keys
    <3>6. /\ answer.revision \in Nat /\ command.key.revision \in Nat
      BY Numbers
    <3>7. /\ Later(binding.committed, answer.revision) >= binding.committed
          /\ Later(binding.committed, answer.revision) >= answer.revision
          /\ Later(binding.committed, answer.revision) \in Nat
      BY <2>0, <3>6, LaterIs
    <3> QED
      BY <2>0, <3>1, <3>4, <3>5, <3>6, <3>7
  <2>3. CASE CompleteReconcile
    <3>1. /\ FinishDurable(reconcile.revision) /\ reconcile.stage = "read"
      BY <2>3 DEF CompleteReconcile
    <3>2. command.at = "none"
      BY <3>1 DEF OneCommand
    <3>3. \A k \in store.keys :
            k.revision < binding.committed \/ k.revision < reconcile.revision
      BY <3>1, <3>2 DEF Keys
    <3>4. /\ reconcile.revision \in Nat
          /\ Later(binding.committed, reconcile.revision) >= binding.committed
          /\ Later(binding.committed, reconcile.revision) >= reconcile.revision
          /\ Later(binding.committed, reconcile.revision) \in Nat
      BY <2>0, LaterIs, Numbers
    <3> QED
      BY <2>0, <3>1, <3>3, <3>4
  <2> QED
    BY <2>1, <2>2, <2>3 DEF Finishes
<1>4. binding'.committed = Later(binding.committed, n)
  BY <1>3, FinishIs
<1>5. Keys'
  BY <1>1, <1>2, <1>3, <1>4, Constants DEF Keys
<1>6. /\ \A t \in Token : t > used.commands => told'[t] = "nothing"
      /\ world' = store.executed
  <2>1. CASE SettleRefused \/ SettleCommitted
    <3>1. /\ answer # NoAnswer
      BY <2>1, Constants DEF SettleRefused, SettleCommitted
    <3>2. /\ command.at = "worker" /\ command.token = used.commands
          /\ command.token \in Token
      BY <3>1 DEF OneCommand
    <3>3. world = store.executed \ {command.token}
      BY <3>2 DEF Shows
    <3>4. \E a \in {"nothing", "accepted", "rejected"} :
            told' = told \/ told' = [told EXCEPT ![command.token] = a]
      BY <2>1 DEF SettleRefused, SettleCommitted
    <3>5. \A t \in Token : t > used.commands => told'[t] = "nothing"
      BY <3>2, <3>4, UsedNumbers DEF Fresh, TypeOK
    <3>6. CASE SettleRefused
      <4>1. command.key \notin store.keys /\ world' = world
        BY <3>6 DEF SettleRefused, Keys
      <4>2. command.token \notin store.executed
        BY <3>2, <4>1 DEF Keys
      <4> QED
        BY <3>3, <3>5, <4>1, <4>2
    <3>7. CASE SettleCommitted
      <4>1. command.key \in store.keys /\ world' = world \cup {command.token}
        BY <3>7 DEF SettleCommitted, Keys
      <4>2. command.token \in store.executed
        BY <3>2, <4>1 DEF Keys
      <4> QED
        BY <3>3, <3>5, <4>1, <4>2
    <3> QED
      BY <2>1, <3>6, <3>7
  <2>2. CASE CompleteReconcile
    <3>1. /\ reconcile.stage = "read" /\ world' = reconcile.restored
          /\ told' = [told EXCEPT ![reconcile.token] = "accepted"]
      BY <2>2 DEF CompleteReconcile
    <3>2. reconcile.token \in store.executed /\ reconcile.restored = store.executed
      BY <3>1 DEF Fresh, Shows
    <3>3. reconcile.token \in 1 .. used.commands
      BY <3>2 DEF Fresh
    <3>4. \A t \in Token : t > used.commands => t # reconcile.token
      BY <3>3, UsedNumbers
    <3> QED
      BY <3>1, <3>2, <3>4 DEF Fresh, TypeOK
  <2> QED
    BY <2>1, <2>2 DEF Finishes
<1>7. Fresh'
  BY <1>1, <1>2, <1>6 DEF Fresh
<1>8. Shows'
  BY <1>1, <1>2, <1>6 DEF Shows
<1> QED
  BY <1>5, <1>7, <1>8

(* A command and its key are stored together.                              *)
LEMMA WorkerOnce ==
  ASSUME TypeOK, TypeOK', OneCommand, Revisions, Fresh, Keys, Shows,
         WorkerRun \/ WorkerFlush
  PROVE  Fresh' /\ Keys' /\ Shows'
<1>1. /\ UNCHANGED <<binding, command, world, told>>
      /\ \/ \E s \in Snapshot : Coming(s) /\ WriteStep(s)
         \/ \E job \in Job :
              /\ job.op = "commit" /\ CommitStep(job) /\ Fits(job)
              /\ job.token \in Token /\ job.key \in Key
         \/ ExecuteRead /\ reconcile.stage = "reading"
         \/ UNCHANGED <<answer, reconcile, reports, store, used>>
  BY WorkerDoes
<1>2. /\ binding.committed \in Nat /\ \A k \in store.keys : k.revision \in Nat
  BY Numbers
<1>3. CASE \E s \in Snapshot : Coming(s) /\ WriteStep(s)
  <2>1. PICK s \in Snapshot : WriteStep(s)
    BY <1>3
  <2>2. /\ UNCHANGED <<answer, reconcile>>
        /\ store'.keys = store.keys /\ store'.executed = store.executed
        /\ used'.commands = used.commands /\ used'.saves = used.saves
        /\ used'.lost = used.lost
    BY <2>1, SavedIs DEF WriteStep, SaveStep
  <2>3. used'.saves <= MaxSaves /\ used'.lost <= MaxLost
    BY <2>2 DEF Fresh
  <2>4. binding'.committed = binding.committed /\ binding'.in = binding.in
        /\ binding'.pending = binding.pending
    BY <1>1
  <2> QED
    BY <1>1, <1>2, <2>2, <2>3, <2>4, OnceFrame
<1>4. CASE UNCHANGED <<answer, reconcile, reports, store, used>>
  BY <1>1, <1>4 DEF Fresh, Keys, Shows
<1>5. CASE ExecuteRead /\ reconcile.stage = "reading"
  <2>1. /\ reconcile'.stage = "read" /\ reconcile'.token = reconcile.token
        /\ reconcile'.revision = reconcile.revision
        /\ reconcile'.restored = store.executed
        /\ UNCHANGED <<answer, store, used>>
    BY <1>5 DEF ExecuteRead, TypeOK, Reconcile
  <2>2. binding.pending
    BY <1>5 DEF OneCommand
  <2> QED
    BY <1>1, <1>5, <2>1, <2>2 DEF Fresh, Keys, Shows
<1>6. CASE \E job \in Job :
              /\ job.op = "commit" /\ CommitStep(job) /\ Fits(job)
              /\ job.token \in Token /\ job.key \in Key
  <2>1. PICK job \in Job :
              /\ job.op = "commit" /\ CommitStep(job) /\ Fits(job)
              /\ job.token \in Token /\ job.key \in Key
    BY <1>6
  <2>2. /\ command.at = "worker" /\ job.key = command.key /\ job.token = command.token
        /\ answer = NoAnswer
    BY <2>1 DEF Fits
  <2>3. /\ binding.pending /\ reconcile.stage = "none" /\ UNCHANGED reconcile
        /\ command.token = used.commands /\ command.token \in Token
    BY <2>1, <2>2 DEF OneCommand, CommitStep
  <2>4. \/ /\ store'.keys = store.keys /\ store'.executed = store.executed
           /\ answer'.result = "ok" => command.key \in store.keys
        \/ /\ store'.keys = store.keys \cup {command.key}
           /\ store'.executed = store.executed \cup {command.token}
           /\ answer'.result # "refused"
    <3>1. CASE Applies(job) /\ store' = Applied(job)
      BY <2>1, <2>2, <3>1, AppliesIs DEF CommitStep
    <3>2. CASE store' = store /\ store' # Applied(job)
      BY <2>1, <2>2, <3>2 DEF CommitStep, Stored
    <3>3. CASE store' = store /\ store' = Applied(job)
      <4>1. Applied(job).revision = store.revision + 1
        BY <2>1, AppliedIs
      <4> QED
        BY <3>3, <4>1, Numbers
    <3> QED
      BY <2>1, <3>1, <3>2, <3>3 DEF CommitStep
  <2>5. /\ answer'.result \in {"ok", "refused", "unknown"}
        /\ answer'.result = "ok" => answer'.revision = command.key.revision + 1
        /\ answer'.result = "refused" => command.key \notin store.keys
        /\ answer'.result = "unknown" => used.lost < MaxLost
        /\ used'.commands = used.commands /\ used'.saves = used.saves
        /\ used'.lost <= Later(MaxLost, used.lost)
    BY <2>1, <2>2 DEF CommitStep, Stored
  <2>6. used'.lost <= MaxLost /\ (answer'.result = "unknown" => MaxLost # 0)
    BY <2>5, UsedNumbers DEF Fresh, Later
  <2>7. command.token \in 1 .. used.commands
    BY <2>3, UsedNumbers
  <2>8. Fresh'
    BY <1>1, <2>3, <2>4, <2>5, <2>6, <2>7 DEF Fresh
  <2>9. Keys'
    <3>1. \A k \in store'.keys : k.revision < binding.committed \/ k = command.key
      BY <2>3, <2>4 DEF Keys
    <3>2. command.token \in store'.executed <=> command.key \in store'.keys
      BY <2>2, <2>4 DEF Keys
    <3>3. answer'.result = "ok" => command.key \in store'.keys
      BY <2>4
    <3>4. answer'.result = "refused" => command.key \notin store'.keys
      BY <2>4, <2>5
    <3> QED
      BY <1>1, <2>2, <2>3, <2>5, <2>6, <3>1, <3>2, <3>3, <3>4 DEF Keys
  <2>10. Shows'
    <3>1. world = store'.executed \ {command.token}
      BY <2>2, <2>4 DEF Shows
    <3> QED
      BY <1>1, <2>2, <2>3, <3>1 DEF Shows
  <2> QED
    BY <2>8, <2>9, <2>10
<1> QED
  BY <1>1, <1>3, <1>4, <1>5, <1>6

(* The second invariant holds at first.                                    *)
LEMMA OnceInit == Init => OnceInv
<1> SUFFICES ASSUME Init PROVE OnceInv
  OBVIOUS
<1>1. Slots = {} /\ MaxCommands \in Nat /\ MaxSaves \in Nat /\ MaxLost \in Nat
  BY DurableAssumption DEF Init, Slots
<1> QED
  BY <1>1, Constants DEF Init, OnceInv, Fresh, Keys, NoSaves, Shows

(* Every step keeps it where no stored command is realigned.               *)
LEMMA OnceStep ==
  ASSUME DurableInv, OnceInv, ~Realigns, [Next]_vars
  PROVE  OnceInv'
<1>1. /\ TypeOK /\ OneCommand /\ Revisions /\ TypeOK'
      /\ Fresh /\ Keys /\ NoSaves /\ Shows
  BY TypeStep DEF DurableInv, OnceInv
<1>2. NoSaves'
  BY <1>1, NoSavesStep
<1>3. Fresh' /\ Keys' /\ Shows'
  BY <1>1, StageOnce, SubmitOnce, SettleOnce, FinishOnce, FrameSteps, WorkerOnce
  DEF Next, Finishes
<1> QED
  BY <1>2, <1>3 DEF OnceInv

(* The invariant behind the keys, where no stored command is realigned.    *)
THEOREM KeysSound ==
  ASSUME ~Realigns
  PROVE  Spec => [](DurableInv /\ OnceInv)
<1>1. DurableInv /\ OnceInv /\ [Next]_vars => OnceInv'
  BY OnceStep
<1> QED
  BY <1>1, OnceInit, DurableSound, PTL DEF Spec

(* Between commands World shows what the database holds.                   *)
THEOREM WorldIsStored ==
  ASSUME ~Realigns
  PROVE  Spec => []WorldMatchesStore
<1>1. OnceInv => WorldMatchesStore
  BY DEF OnceInv, Shows, WorldMatchesStore
<1> QED
  BY <1>1, KeysSound, PTL

-----------------------------------------------------------------------------
(***************************************************************************)
(* DurableCommands implements DurableOnce.                                 *)
(***************************************************************************)
(* The first states of the two specifications agree.                       *)
LEMMA OnceInitial == Init => Once!Init
  BY DEF Init, Once!Init

(* What the player is told, of which command.                              *)
LEMMA FinishTells ==
  ASSUME TypeOK, OneCommand, Revisions, Fresh, Keys, Finishes
  PROVE  UNCHANGED <<store.executed, told>> \/ Once!Next
<1>1. UNCHANGED store.executed
  BY FinishDoes
<1>2. CASE SettleRefused \/ SettleCommitted
  <2>1. answer # NoAnswer
    BY <1>2, Constants DEF SettleRefused, SettleCommitted
  <2>2. /\ command.at = "worker" /\ command.token \in Token
    BY <2>1 DEF OneCommand
  <2>3. told[command.token] = "nothing"
    BY <2>2 DEF Fresh
  <2>4. CASE SettleRefused
    <3>1. /\ told' = [told EXCEPT ![command.token] = "rejected"]
          /\ command.token \notin store.executed
      BY <2>2, <2>4 DEF SettleRefused, Keys
    <3> QED
      BY <1>1, <2>2, <2>3, <3>1 DEF Once!Next, Once!Reject
  <2>5. CASE SettleCommitted
    <3>1. /\ told' = told \/ told' = [told EXCEPT ![command.token] = "accepted"]
          /\ command.token \in store.executed
      BY <2>2, <2>5 DEF SettleCommitted, Keys
    <3> QED
      BY <1>1, <2>2, <2>3, <3>1 DEF Once!Next, Once!Accept
  <2> QED
    BY <1>2, <2>4, <2>5
<1>3. CASE CompleteReconcile
  <2>1. /\ reconcile.stage # "none"
        /\ told' = [told EXCEPT ![reconcile.token] = "accepted"]
    BY <1>3 DEF CompleteReconcile
  <2>2. /\ reconcile.token \in Token /\ told[reconcile.token] = "nothing"
        /\ reconcile.token \in store.executed
    BY <2>1 DEF OneCommand, Fresh
  <2> QED
    BY <1>1, <2>1, <2>2 DEF Once!Next, Once!Accept
<1> QED
  BY <1>2, <1>3 DEF Finishes

(* The worker stores the effect of a command not yet answered.             *)
LEMMA WorkerCommits ==
  ASSUME TypeOK, OneCommand, Revisions, Fresh, WorkerRun \/ WorkerFlush
  PROVE  UNCHANGED <<store.executed, told>> \/ Once!Next
<1>1. /\ UNCHANGED told
      /\ \/ \E s \in Snapshot : Coming(s) /\ WriteStep(s)
         \/ \E job \in Job :
              /\ job.op = "commit" /\ CommitStep(job) /\ Fits(job)
              /\ job.token \in Token /\ job.key \in Key
         \/ ExecuteRead /\ reconcile.stage = "reading"
         \/ UNCHANGED <<answer, reconcile, reports, store, used>>
  BY WorkerDoes
<1>2. CASE \E s \in Snapshot : Coming(s) /\ WriteStep(s)
  <2>1. store'.executed = store.executed
    BY <1>2, SavedIs DEF WriteStep, SaveStep
  <2> QED
    BY <1>1, <2>1
<1>3. CASE UNCHANGED store
  BY <1>1, <1>3
<1>4. CASE \E job \in Job :
              /\ job.op = "commit" /\ CommitStep(job) /\ Fits(job)
              /\ job.token \in Token /\ job.key \in Key
  <2>1. PICK job \in Job :
              /\ job.op = "commit" /\ CommitStep(job) /\ Fits(job)
              /\ job.token \in Token /\ job.key \in Key
    BY <1>4
  <2>2. CASE Applies(job) /\ store' = Applied(job)
    <3>1. /\ store'.executed = store.executed \cup {job.token}
          /\ command.at = "worker" /\ job.token = command.token
      BY <2>1, <2>2, AppliesIs
    <3>2. told[job.token] = "nothing"
      BY <3>1 DEF Fresh
    <3> QED
      BY <1>1, <2>1, <3>1, <3>2 DEF Once!Next, Once!Commit
  <2> QED
    BY <1>3, <2>1, <2>2 DEF CommitStep
<1> QED
  BY <1>1, <1>2, <1>3, <1>4 DEF ExecuteRead

(* Every step is a step of DurableOnce or leaves it alone.                 *)
LEMMA OnceNext ==
  ASSUME DurableInv, OnceInv, [Next]_vars
  PROVE  [Once!Next]_(Once!vars)
<1>1. /\ TypeOK /\ OneCommand /\ Revisions /\ Fresh /\ Keys
  BY DEF DurableInv, OnceInv
<1>2. CASE Finishes
  BY <1>1, <1>2, FinishTells DEF Once!vars
<1>3. CASE WorkerRun \/ WorkerFlush
  BY <1>1, <1>3, WorkerCommits DEF Once!vars
<1>4. CASE ~(Finishes \/ WorkerRun \/ WorkerFlush)
  <2>1. UNCHANGED <<store, told>>
    BY <1>4
    DEF Next, vars, Finishes, Stage, SubmitCommit, AdoptReports, RequestSave, Park,
        SettleUnknown, SettleUnapplied, TakeReconcileJobs, ReconcileFails,
        LoseAuthority, Detach, Logout, Enqueue, OtherWork
  <2> QED
    BY <2>1 DEF Once!vars
<1> QED
  BY <1>2, <1>3, <1>4

(* A command is stored before it is acknowledged, and one told rejected is *)
(* not stored then and never will be.                                      *)
THEOREM DurableImplementsOnce ==
  ASSUME ~Realigns
  PROVE  Spec => OnceSpec
<1>1. DurableInv /\ OnceInv /\ [Next]_vars => [Once!Next]_(Once!vars)
  BY OnceNext
<1>2. Spec => [](DurableInv /\ OnceInv)
  BY KeysSound
<1> QED
  BY <1>1, <1>2, OnceInitial, PTL DEF Spec, OnceSpec, Once!Spec

=============================================================================
