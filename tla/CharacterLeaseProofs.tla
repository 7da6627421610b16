------------------------- MODULE CharacterLeaseProofs -------------------------
(***************************************************************************)
(* Theorems about CharacterLease, for every set of sessions, processes and *)
(* characters and every value of the bounds.                               *)
(***************************************************************************)
EXTENDS CharacterLease, TLAPS

-----------------------------------------------------------------------------
(***************************************************************************)
(* The inductive invariant.  A generation is used by a session that was    *)
(* granted it, is about to enter under it, or has a binding under it; a    *)
(* session still names the generation it entered under after a reconnect   *)
(* took its binding away.                                                  *)
(***************************************************************************)
GrantedTo(s, g) == reply[s].kind = "granted" /\ reply[s].generation = g

BoundTo(s, g) == binding[s].status # "none" /\ binding[s].generation = g

Uses(s, g) ==
  \/ GrantedTo(s, g)
  \/ task[s].pc = "entering" /\ task[s].generation = g
  \/ BoundTo(s, g)

Names(s, g) ==
  \/ GrantedTo(s, g)
  \/ /\ task[s].pc \in {"entering", "entered", "abandoning", "playing",
                        "leaving"}
     /\ task[s].generation = g
  \/ BoundTo(s, g)

(* Somebody is ending generation g: it is saved for a reconnect or a       *)
(* logout, or a request to supersede or release it is on its way.          *)
Ending(g) ==
  \/ \E r \in requests : r.op \in {"supersede", "release"} /\ r.generation = g
  \/ \E s \in Session : /\ task[s].pc \in {"saving", "logout_save"}
                        /\ task[s].generation = g

(* A deadline kept for generation g is over, or the row backs it.          *)
Backed(g, d) ==
  d <= clock \/ (g = lease.generation /\ d <= lease.expires_at)

Clocks ==
  /\ lease.expires_at <= clock + Expiry
  /\ \A s \in Session : task[s].sent <= clock /\ renewal[s].sent <= clock

(* No one knows a generation that was not issued.                          *)
Issued ==
  /\ \A r \in requests : r.generation <= lease.generation
  /\ \A s \in Session :
       /\ task[s].generation <= lease.generation
       /\ binding[s].generation <= lease.generation
       /\ reply[s].kind = "granted" => reply[s].generation <= lease.generation

(* What a session may hold in each phase of its connection task.           *)
PhaseOf(s) ==
  /\ reply[s].kind = "granted" => task[s].pc \in {"admit", "superseding"}
  /\ binding[s].status # "none" =>
       /\ task[s].pc \in {"entered", "abandoning", "playing", "leaving",
                          "detaching", "gone"}
       /\ task[s].pc \in {"entered", "abandoning", "playing", "leaving"} =>
            binding[s].generation = task[s].generation
  /\ renewal[s].state # "off" => task[s].pc = "playing"
  /\ mail[s] # <<>> => task[s].pc \in {"playing", "leaving", "logout_save",
                                       "logout_release", "detaching", "gone"}
  /\ \A r \in requests :
       r.op = "renew" /\ r.session = s =>
         /\ task[s].pc \in {"playing", "leaving", "logout_save",
                            "logout_release", "detaching", "gone"}
         /\ task[s].pc = "playing" => r.generation = task[s].generation

Phases == \A s \in Session : PhaseOf(s)

(* The deadlines a session counts on are backed.                           *)
DeadlinesOf(s) ==
  /\ reply[s].kind = "granted" =>
       Backed(reply[s].generation, FromRequest(task[s].sent))
  /\ task[s].pc = "entering" =>
       Backed(task[s].generation, task[s].deadline)
  /\ binding[s].status # "none" =>
       /\ Backed(binding[s].generation, binding[s].deadline)
       /\ renewal[s].state = "ok" =>
            Backed(binding[s].generation, FromRequest(renewal[s].sent))
       /\ \A i \in DOMAIN mail[s] :
            mail[s][i].kind = "deadline" =>
              Backed(binding[s].generation, mail[s][i].at)

Deadlines == \A s \in Session : DeadlinesOf(s)

OneUser ==
  \A g \in Nat : \A s, t \in Session : Uses(s, g) /\ Names(t, g) => s = t

EndedUnused == \A g \in Nat : Ending(g) => \A s \in Session : ~Uses(s, g)

LeaseInv ==
  /\ TypeOK
  /\ Clocks
  /\ Issued
  /\ Phases
  /\ Deadlines
  /\ OneUser
  /\ EndedUnused
-----------------------------------------------------------------------------
(***************************************************************************)
(* Types.                                                                  *)
(***************************************************************************)
LEMMA SomeCharacterType == SomeCharacter \in Character
  BY LeaseAssumption DEF LeaseAssumption, SomeCharacter

LEMMA ConstantRecords ==
  /\ NoTask \in Task
  /\ NoReply \in Reply
  /\ NoBinding \in Binding
  /\ NoRenewal \in Renewal
  /\ \A k \in {"refused", "held", "ok", "error"} : Simple(k) \in Reply
  BY SomeCharacterType
  DEF NoTask, Task, Pc, NoReply, Simple, Reply, NoBinding, Binding, NoRenewal,
      Renewal

(* One field of one session at a time; updates of several fields are       *)
(* chains of these.                                                        *)
LEMMA TaskField ==
  ASSUME NEW f \in [Session -> Task], NEW s \in Session
  PROVE  /\ \A pc \in Pc : [f EXCEPT ![s].pc = pc] \in [Session -> Task]
         /\ \A c \in Character :
              [f EXCEPT ![s].character = c] \in [Session -> Task]
         /\ \A n \in Nat :
              /\ [f EXCEPT ![s].generation = n] \in [Session -> Task]
              /\ [f EXCEPT ![s].sent = n] \in [Session -> Task]
              /\ [f EXCEPT ![s].deadline = n] \in [Session -> Task]
              /\ [f EXCEPT ![s].seen = n] \in [Session -> Task]
  BY DEF Task

LEMMA BindingField ==
  ASSUME TypeOK, NEW s \in Session
  PROVE  /\ \A st \in {"none", "live", "lost"} :
              [binding EXCEPT ![s].status = st] \in [Session -> Binding]
         /\ \A d \in {"idle", "pending", "detach"} :
              [binding EXCEPT ![s].durable = d] \in [Session -> Binding]
         /\ \A n \in Nat :
              [binding EXCEPT ![s].deadline = n] \in [Session -> Binding]
         /\ [binding EXCEPT ![s] = NoBinding] \in [Session -> Binding]
<1>1. binding \in [Session -> Binding]
  BY DEF TypeOK
<1> QED
  BY <1>1, ConstantRecords DEF Binding

LEMMA TaskMoves ==
  ASSUME TypeOK, NEW s \in Session, NEW pc \in Pc
  PROVE  /\ [task EXCEPT ![s].pc = pc] \in [Session -> Task]
         /\ [task EXCEPT ![s] = [NoTask EXCEPT !.pc = pc]] \in [Session -> Task]
         /\ \A g \in Nat :
              /\ [task EXCEPT ![s].pc = pc, ![s].generation = g]
                   \in [Session -> Task]
              /\ [task EXCEPT ![s].pc = pc, ![s].sent = g] \in [Session -> Task]
<1> DEFINE moved == [task EXCEPT ![s].pc = pc]
<1>1. moved \in [Session -> Task]
  BY TaskField DEF TypeOK
<1>2. [task EXCEPT ![s] = [NoTask EXCEPT !.pc = pc]] \in [Session -> Task]
  BY ConstantRecords DEF TypeOK, Task
<1>3. ASSUME NEW g \in Nat
      PROVE  /\ [moved EXCEPT ![s].generation = g] \in [Session -> Task]
             /\ [moved EXCEPT ![s].sent = g] \in [Session -> Task]
  <2> HIDE DEF moved
  <2> QED BY <1>1, TaskField
<1> QED
  BY <1>1, <1>2, <1>3

LEMMA TaskAdmits ==
  ASSUME TypeOK, NEW s \in Session, NEW c \in Character
  PROVE  [task EXCEPT ![s].pc = "admit", ![s].character = c,
                      ![s].sent = clock] \in [Session -> Task]
<1> DEFINE t1 == [task EXCEPT ![s].pc = "admit"]
           t2 == [t1 EXCEPT ![s].character = c]
<1>1. t1 \in [Session -> Task]
  BY TaskField DEF TypeOK, Pc
<1>2. t2 \in [Session -> Task]
  <2> HIDE DEF t1
  <2> QED BY <1>1, TaskField
<1>3. [t2 EXCEPT ![s].sent = clock] \in [Session -> Task]
  <2> HIDE DEF t2
  <2> QED BY <1>2, TaskField DEF TypeOK
<1> QED
  BY <1>3

LEMMA TaskGranted ==
  ASSUME TypeOK, NEW s \in Session, NEW g \in Nat, NEW d \in Nat, NEW n \in Nat
  PROVE  [task EXCEPT ![s].pc = "entering", ![s].generation = g,
                      ![s].deadline = d, ![s].seen = n] \in [Session -> Task]
<1> DEFINE t1 == [task EXCEPT ![s].pc = "entering", ![s].generation = g]
           t2 == [t1 EXCEPT ![s].deadline = d]
<1>1. t1 \in [Session -> Task]
  BY TaskMoves DEF Pc
<1>2. t2 \in [Session -> Task]
  <2> HIDE DEF t1
  <2> QED BY <1>1, TaskField
<1>3. [t2 EXCEPT ![s].seen = n] \in [Session -> Task]
  <2> HIDE DEF t2
  <2> QED BY <1>2, TaskField
<1> QED
  BY <1>3

LEMMA AnswerType ==
  ASSUME TypeOK, NEW r \in requests, NEW rep \in Reply, Answer(r, rep)
  PROVE  reply' \in [Session -> Reply]
  BY DEF TypeOK, Answer

LEMMA AnswerRenewalType ==
  ASSUME TypeOK, NEW r \in requests, NEW out \in {"ok", "err"},
         AnswerRenewal(r, out)
  PROVE  renewal' \in [Session -> Renewal]
<1> DEFINE s == r.session
           x == [renewal[s] EXCEPT !.state = out]
<1>1. renewal \in [Session -> Renewal]
  BY DEF TypeOK
<1>2. CASE s \in Session /\ renewal[s].state = "sent"
  <2>1. renewal[s] \in Renewal
    BY <1>1, <1>2
  <2>2. x \in Renewal
    BY <2>1 DEF Renewal
  <2>3. renewal' = [renewal EXCEPT ![s] = x]
    BY <1>2 DEF AnswerRenewal
  <2> HIDE DEF x, s
  <2> QED
    BY <1>1, <2>2, <2>3
<1>3. CASE s \notin Session
  BY <1>1, <1>3 DEF AnswerRenewal
<1>4. CASE renewal[s].state /= "sent"
  BY <1>1, <1>4 DEF AnswerRenewal
<1> QED
  BY <1>2, <1>3, <1>4

LEMMA GrantedType ==
  ASSUME TypeOK, NEW g \in Nat, NEW c \in Character
  PROVE  Granted(g, c) \in Reply
  BY DEF TypeOK, Granted, Reply

LEMMA LeaseField ==
  ASSUME TypeOK, NEW t \in Int
  PROVE  [lease EXCEPT !.expires_at = t]
           \in [generation : Nat, character : Character, expires_at : Int]
  BY DEF TypeOK

LEMMA SavedType ==
  ASSUME TypeOK, NEW c \in Character, NEW g \in Nat
  PROVE  Saved(c, g) \in [Character -> Seq(Nat)]
<1>1. Append(stored[c], g) \in Seq(Nat)
  BY DEF TypeOK
<1> QED
  BY <1>1 DEF Saved, TypeOK

LEMMA SendType ==
  ASSUME TypeOK, NEW op \in Op, NEW s \in Session, NEW c \in Character,
         NEW g \in Nat, Send(NewRequest(op, s, c, g))
  PROVE  requests' \subseteq Request
  BY DEF TypeOK, Send, NewRequest, Request

LEMMA ReleaseUnusedType ==
  ASSUME TypeOK, NEW s \in Session, NEW g \in Nat, ReleaseUnused(s, g)
  PROVE  /\ requests' \subseteq Request
         /\ task' \in [Session -> Task]
<1>1. requests' \subseteq Request
  BY SendType DEF ReleaseUnused, TypeOK, Task, Op
<1>2. task' \in [Session -> Task]
  BY TaskMoves DEF ReleaseUnused, Pc
<1> QED
  BY <1>1, <1>2

LEMMA LeaveWorldType ==
  ASSUME TypeOK, NEW s \in Session, LeaveWorld(s)
  PROVE  /\ requests' \subseteq Request
         /\ binding' \in [Session -> Binding]
<1>1. requests' \subseteq Request
  <2>1. CASE binding[s].status = "live"
    BY <2>1, SendType DEF LeaveWorld, TypeOK, Binding, Op
  <2>2. CASE binding[s].status # "live"
    BY <2>2 DEF LeaveWorld, TypeOK
  <2> QED
    BY <2>1, <2>2
<1>2. binding' \in [Session -> Binding]
  BY ConstantRecords DEF LeaveWorld, TypeOK
<1> QED
  BY <1>1, <1>2

LEMMA LeaveType ==
  ASSUME TypeOK, NEW s \in Session, NEW pc \in Pc, Leave(s, pc)
  PROVE  task' \in [Session -> Task]
  BY TaskMoves DEF Leave

LEMMA ReceivesType ==
  ASSUME TypeOK, NEW s \in Session, NEW pc, NEW kinds, Receives(s, pc, kinds)
  PROVE  reply' \in [Session -> Reply]
  BY ConstantRecords DEF TypeOK, Receives

LEMMA MailType ==
  ASSUME TypeOK, NEW s \in Session, NEW m \in Message, Len(mail[s]) < MailCap,
         mail' = [mail EXCEPT ![s] = Append(@, m)]
  PROVE  /\ mail' \in [Session -> Seq(Message)]
         /\ \A t \in Session : Len(mail'[t]) <= MailCap
<1>1. /\ Append(mail[s], m) \in Seq(Message)
      /\ Len(Append(mail[s], m)) = Len(mail[s]) + 1
      /\ Len(mail[s]) \in Nat
  BY DEF TypeOK
<1>2. \A t \in Session : t # s => mail'[t] = mail[t]
  BY DEF TypeOK
<1>3. mail'[s] = Append(mail[s], m)
  BY DEF TypeOK
<1>4. Len(mail'[s]) <= MailCap
  BY <1>1, <1>3, LeaseAssumption DEF LeaseAssumption
<1> QED
  BY <1>1, <1>2, <1>4 DEF TypeOK

LEMMA TypeInit == Init => TypeOK
  BY ConstantRecords, SomeCharacterType, LeaseAssumption
  DEF Init, TypeOK, LeaseAssumption

(* The transactions of the worker.                                         *)
LEMMA TypeWorker ==
  ASSUME TypeOK, NEW r \in requests, Worker(r)
  PROVE  TypeOK'
<1> USE LeaseAssumption DEF LeaseAssumption
<1>r. r \in Request /\ lease.generation \in Nat
  BY DEF TypeOK
<1>1. CASE Admit(r)
  <2>1. reply' \in [Session -> Reply]
    <3>1. ASSUME NEW rep \in {Simple("refused"), Simple("held"),
                     Simple("error"),
                     Granted(lease.generation + 1, r.character)},
                 Answer(r, rep)
          PROVE  reply' \in [Session -> Reply]
      BY <1>r, <3>1, AnswerType, ConstantRecords, GrantedType DEF Request
    <3> QED
      BY <1>1, <3>1 DEF Admit
  <2>2. lease' \in [generation : Nat, character : Character, expires_at : Int]
    BY <1>1, <1>r DEF Admit, TypeOK, Request, FromRequest
  <2> QED
    BY <1>1, <2>1, <2>2 DEF Admit, TypeOK, TakeRequest
<1>2. CASE Supersede(r)
  <2>1. reply' \in [Session -> Reply]
    <3>1. ASSUME NEW rep \in {Simple("error"),
                     Granted(lease.generation + 1, r.character)},
                 Answer(r, rep)
          PROVE  reply' \in [Session -> Reply]
      BY <1>r, <3>1, AnswerType, ConstantRecords, GrantedType DEF Request
    <3> QED
      BY <1>2, <3>1 DEF Supersede
  <2>2. lease' \in [generation : Nat, character : Character, expires_at : Int]
    BY <1>2, <1>r DEF Supersede, TypeOK, Request, FromRequest
  <2> QED
    BY <1>2, <2>1, <2>2 DEF Supersede, TypeOK, TakeRequest
<1>3. CASE Renew(r)
  <2>1. renewal' \in [Session -> Renewal]
    BY <1>3, AnswerRenewalType DEF Renew
  <2>2. lease' \in [generation : Nat, character : Character, expires_at : Int]
    <3>1. FromRequest(clock) \in Int
      BY DEF FromRequest, TypeOK
    <3> QED
      BY <1>3, <3>1, LeaseField DEF Renew, TypeOK
  <2> QED
    BY <1>3, <2>1, <2>2 DEF Renew, TypeOK, TakeRequest
<1>4. CASE Release(r)
  <2>1. reply' \in [Session -> Reply]
    BY <1>4, AnswerType, ConstantRecords DEF Release
  <2>2. lease' \in [generation : Nat, character : Character, expires_at : Int]
    <3>1. clock - 1 \in Int
      BY DEF TypeOK
    <3> QED
      BY <1>4, <3>1, LeaseField DEF Release, TypeOK
  <2> QED
    BY <1>4, <2>1, <2>2 DEF Release, TypeOK, TakeRequest
<1>5. CASE SaveLeased(r)
  <2>1. reply' \in [Session -> Reply]
    BY <1>5, AnswerType, ConstantRecords DEF SaveLeased
  <2>2. stored' \in [Character -> Seq(Nat)]
    <3>1. Saved(r.character, r.generation) \in [Character -> Seq(Nat)]
      BY <1>r, SavedType DEF Request
    <3> QED
      BY <1>5, <3>1 DEF SaveLeased, TypeOK
  <2> QED
    BY <1>5, <2>1, <2>2 DEF SaveLeased, TypeOK, TakeRequest
<1>6. CASE StorageFails(r)
  <2>1. reply' \in [Session -> Reply]
    BY <1>6, AnswerType, ConstantRecords DEF StorageFails, TypeOK
  <2>2. renewal' \in [Session -> Renewal]
    BY <1>6, AnswerRenewalType DEF StorageFails, TypeOK
  <2> QED
    BY <1>6, <2>1, <2>2 DEF StorageFails, TypeOK
<1> QED
  BY <1>1, <1>2, <1>3, <1>4, <1>5, <1>6 DEF Worker

(* Admission.                                                              *)
LEMMA TypeActivation ==
  ASSUME TypeOK, NEW s \in Session, Activation(s)
  PROVE  TypeOK'
<1>s. /\ task[s] \in Task
      /\ reply[s] \in Reply
      /\ binding[s] \in Binding
  BY DEF TypeOK
<1>d. FromRequest(task[s].sent) \in Nat
  BY <1>s, LeaseAssumption DEF FromRequest, Task, LeaseAssumption
<1>1. CASE AdmitRejected(s)
  <2>1. reply' \in [Session -> Reply] /\ task' \in [Session -> Task]
    BY <1>1, ReceivesType, LeaveType DEF AdmitRejected, Pc
  <2> QED
    BY <1>1, <2>1 DEF AdmitRejected, TypeOK
<1>2. CASE AdmitHeld(s)
  <2>1. reply' \in [Session -> Reply] /\ task' \in [Session -> Task]
    BY <1>2, ReceivesType, TaskMoves DEF AdmitHeld, Pc
  <2> QED
    BY <1>2, <2>1 DEF AdmitHeld, TypeOK
<1>3. CASE LeaseGranted(s)
  <2>1. reply' \in [Session -> Reply]
    BY <1>3, ReceivesType DEF LeaseGranted
  <2>2. task' \in [Session -> Task] /\ requests' \subseteq Request
    <3> DEFINE deadline == FromRequest(task[s].sent)
    <3>1. reply[s].generation \in Nat /\ reply[s].seen \in Nat
      BY <1>s DEF Reply
    <3>2. CASE task' = [task EXCEPT ![s].pc = "entering",
                                    ![s].generation = reply[s].generation,
                                    ![s].deadline = deadline,
                                    ![s].seen = reply[s].seen]
               /\ UNCHANGED requests
      <4>1. task' \in [Session -> Task]
        BY <1>d, <3>1, <3>2, TaskGranted
      <4> QED
        BY <3>2, <4>1 DEF TypeOK
    <3>3. CASE ReleaseUnused(s, reply[s].generation)
      BY <3>1, <3>3, ReleaseUnusedType
    <3> QED
      BY <1>3, <3>2, <3>3 DEF LeaseGranted
  <2> QED
    BY <1>3, <2>1, <2>2 DEF LeaseGranted, TypeOK
<1>4. CASE StopForReconnect(s)
  <2>1. /\ task' \in [Session -> Task]
        /\ requests' \subseteq Request
        /\ binding' \in [Session -> Binding]
    <3>1. CASE Leave(s, "out") /\ UNCHANGED <<requests, binding>>
      BY <3>1, LeaveType DEF TypeOK, Pc
    <3>2. ASSUME NEW o \in Session,
                 binding' = [binding EXCEPT ![o] = NoBinding],
                 Send(NewRequest("save", s, task[s].character,
                                 binding[o].generation)),
                 task' = [task EXCEPT ![s].pc = "saving",
                                ![s].generation = binding[o].generation]
          PROVE  <2>1!1 /\ <2>1!2 /\ <2>1!3
      <4>1. binding[o].generation \in Nat /\ task[s].character \in Character
        BY <1>s DEF TypeOK, Binding, Task
      <4> QED
        BY <3>2, <4>1, TaskMoves, SendType, BindingField DEF Pc, Op
    <3> QED
      BY <1>4, <3>1, <3>2 DEF StopForReconnect, Occupants
  <2> QED
    BY <1>4, <2>1 DEF StopForReconnect, TypeOK
<1>5. CASE ReconnectSaved(s)
  <2>1. reply' \in [Session -> Reply] /\ task' \in [Session -> Task]
    BY <1>5, ReceivesType, TaskMoves DEF ReconnectSaved, Pc, TypeOK
  <2>2. requests' \subseteq Request
    BY <1>5, <1>s, SendType DEF ReconnectSaved, Task, Op
  <2> QED
    BY <1>5, <2>1, <2>2 DEF ReconnectSaved, TypeOK
<1>6. CASE ReconnectFailed(s)
  <2>1. reply' \in [Session -> Reply] /\ task' \in [Session -> Task]
    BY <1>6, ReceivesType, LeaveType DEF ReconnectFailed, Pc
  <2> QED
    BY <1>6, <2>1 DEF ReconnectFailed, TypeOK
<1>7. CASE EnterRestored(s)
  <2>1. task' \in [Session -> Task] /\ requests' \subseteq Request
    <3>1. CASE task' = [task EXCEPT ![s].pc = "entered"] /\ UNCHANGED requests
      BY <3>1, TaskMoves DEF TypeOK, Pc
    <3>2. CASE ReleaseUnused(s, task[s].generation)
      BY <1>s, <3>2, ReleaseUnusedType DEF Task
    <3> QED
      BY <1>7, <3>1, <3>2 DEF EnterRestored
  <2>2. binding' \in [Session -> Binding]
    <3> DEFINE new == [status |-> "live", durable |-> "idle",
                       character |-> task[s].character,
                       generation |-> task[s].generation,
                       deadline |-> task[s].deadline, seen |-> task[s].seen]
    <3>1. new \in Binding
      BY <1>s DEF Binding, Task
    <3>2. binding' = binding \/ binding' = [binding EXCEPT ![s] = new]
      BY <1>7 DEF EnterRestored
    <3> HIDE DEF new
    <3> QED
      BY <3>1, <3>2 DEF TypeOK
  <2> QED
    BY <1>7, <2>1, <2>2 DEF EnterRestored, TypeOK
<1>8. CASE Entered(s)
  <2>1. task' \in [Session -> Task]
    <3>1. \/ task' = [task EXCEPT ![s].pc = "playing"]
          \/ task' = [task EXCEPT ![s].pc = "abandoning"]
      BY <1>8 DEF Entered
    <3>2. \A pc \in {"playing", "abandoning"} :
            [task EXCEPT ![s].pc = pc] \in [Session -> Task]
      BY TaskMoves DEF Pc
    <3> QED
      BY <3>1, <3>2
  <2>2. renewal' \in [Session -> Renewal]
    <3> DEFINE new == [state |-> "waiting", sent |-> task[s].sent,
                       deadline |-> task[s].deadline]
    <3>1. new \in Renewal
      BY <1>s DEF Renewal, Task
    <3>2. renewal' = renewal \/ renewal' = [renewal EXCEPT ![s] = new]
      BY <1>8 DEF Entered
    <3> HIDE DEF new
    <3> QED
      BY <3>1, <3>2 DEF TypeOK
  <2> QED
    BY <1>8, <2>1, <2>2 DEF Entered, TypeOK
<1>9. CASE AbandonAdmission(s)
  <2>1. task' \in [Session -> Task] /\ requests' \subseteq Request
    BY <1>9, <1>s, ReleaseUnusedType DEF AbandonAdmission, Task
  <2>2. binding' \in [Session -> Binding]
    BY <1>9, ConstantRecords DEF AbandonAdmission, TypeOK
  <2> QED
    BY <1>9, <2>1, <2>2 DEF AbandonAdmission, TypeOK
<1>10. CASE Released(s)
  <2>1. reply' \in [Session -> Reply] /\ task' \in [Session -> Task]
    BY <1>10, ReceivesType, LeaveType DEF Released, Pc
  <2> QED
    BY <1>10, <2>1 DEF Released, TypeOK
<1> QED
  BY <1>1, <1>2, <1>3, <1>4, <1>5, <1>6, <1>7, <1>8, <1>9, <1>10
  DEF Activation

(* An entered session: its supervisor and its work in World.               *)
LEMMA TypeSession ==
  ASSUME TypeOK, NEW s \in Session, Supervisor(s) \/ Play(s)
  PROVE  TypeOK'
<1>s. /\ task[s] \in Task
      /\ binding[s] \in Binding
      /\ renewal[s] \in Renewal
      /\ mail[s] \in Seq(Message)
  BY DEF TypeOK
<1>1. CASE SendRenew(s)
  <2>1. requests' \subseteq Request
    BY <1>1, <1>s, SendType DEF SendRenew, Task, Op
  <2>2. renewal' \in [Session -> Renewal]
    <3> DEFINE sending == [renewal EXCEPT ![s].state = "sent"]
    <3>1. sending \in [Session -> Renewal]
      BY DEF TypeOK, Renewal
    <3>2. [sending EXCEPT ![s].sent = clock] \in [Session -> Renewal]
      <4> HIDE DEF sending
      <4> QED BY <3>1 DEF TypeOK, Renewal
    <3> QED
      BY <1>1, <3>2 DEF SendRenew
  <2> QED
    BY <1>1, <2>1, <2>2 DEF SendRenew, TypeOK
<1>2. CASE RenewalExtends(s)
  <2> DEFINE next == FromRequest(renewal[s].sent)
             note == [kind |-> "deadline", at |-> next]
  <2>1. next \in Nat
    BY <1>s, LeaseAssumption DEF FromRequest, Renewal, LeaseAssumption
  <2>2. note \in Message
    BY <2>1 DEF Message
  <2> HIDE DEF next
  <2>3. renewal' \in [Session -> Renewal]
    <3> DEFINE waiting == [renewal EXCEPT ![s].state = "waiting"]
    <3>1. waiting \in [Session -> Renewal]
      BY DEF TypeOK, Renewal
    <3>2. [waiting EXCEPT ![s].deadline = next] \in [Session -> Renewal]
      <4> HIDE DEF waiting
      <4> QED BY <2>1, <3>1 DEF Renewal
    <3> QED
      BY <1>2, <3>2 DEF RenewalExtends, next
  <2>4. /\ mail' \in [Session -> Seq(Message)]
        /\ \A t \in Session : Len(mail'[t]) <= MailCap
    <3>1. NoteDeadline(s, next)
      BY <1>2 DEF RenewalExtends, next
    <3>2. CASE Len(mail[s]) < MailCap
      <4> HIDE DEF note
      <4>1. mail' = [mail EXCEPT ![s] = Append(@, note)]
        BY <3>1, <3>2 DEF NoteDeadline, note
      <4> QED
        BY <2>2, <3>2, <4>1, MailType
    <3>3. CASE ~(Len(mail[s]) < MailCap)
      BY <3>1, <3>3 DEF NoteDeadline, TypeOK
    <3> QED
      BY <3>2, <3>3
  <2> QED
    BY <1>2, <2>3, <2>4 DEF RenewalExtends, TypeOK
<1>3. CASE RenewalEnds(s)
  <2>1. renewal' \in [Session -> Renewal]
    BY <1>3, ConstantRecords DEF RenewalEnds, TypeOK
  <2>2. /\ mail' \in [Session -> Seq(Message)]
        /\ \A t \in Session : Len(mail'[t]) <= MailCap
    <3> DEFINE note == [kind |-> "lose", at |-> 0]
    <3>1. note \in Message
      BY DEF Message
    <3> HIDE DEF note
    <3>2. Len(mail[s]) < MailCap /\ mail' = [mail EXCEPT ![s] = Append(@, note)]
      BY <1>3 DEF RenewalEnds, note
    <3> QED
      BY <3>1, <3>2, MailType
  <2> QED
    BY <1>3, <2>1, <2>2 DEF RenewalEnds, TypeOK
<1>4. CASE DrainMail(s)
  <2>1. mail[s] # <<>> /\ mail' = [mail EXCEPT ![s] = Tail(@)]
    BY <1>4 DEF DrainMail
  <2>2. /\ Tail(mail[s]) \in Seq(Message)
        /\ Len(Tail(mail[s])) = Len(mail[s]) - 1
        /\ Head(mail[s]) \in Message
        /\ Len(mail[s]) \in Nat
    BY <1>s, <2>1
  <2>3. /\ mail' \in [Session -> Seq(Message)]
        /\ \A t \in Session : Len(mail'[t]) <= MailCap
    <3>1. \A t \in Session : t # s => mail'[t] = mail[t]
      BY <2>1 DEF TypeOK
    <3>2. Len(mail'[s]) <= MailCap
      BY <2>1, <2>2, LeaseAssumption DEF TypeOK, LeaseAssumption
    <3> QED
      BY <2>1, <2>2, <3>1, <3>2 DEF TypeOK
  <2>4. binding' \in [Session -> Binding]
    <3>1. CASE binding' = binding
      BY <3>1 DEF TypeOK
    <3>2. CASE binding' = [binding EXCEPT ![s].status = "lost"]
      BY <3>2, BindingField
    <3>3. CASE binding' = [binding EXCEPT ![s].deadline = Head(mail[s]).at]
      <4>1. Head(mail[s]).at \in Nat
        BY <2>2 DEF Message
      <4> QED
        BY <3>3, <4>1, BindingField
    <3> QED
      BY <1>4, <3>1, <3>2, <3>3 DEF DrainMail
  <2> QED
    BY <1>4, <2>3, <2>4 DEF DrainMail, TypeOK
<1>5. CASE BeginDurable(s)
  BY <1>5 DEF BeginDurable, TypeOK, Binding
<1>6. CASE FinishDurable(s)
  <2>1. binding' \in [Session -> Binding] /\ requests' \subseteq Request
    <3>1. CASE /\ binding' = [binding EXCEPT ![s].durable = "idle"]
               /\ UNCHANGED requests
      BY <3>1, BindingField DEF TypeOK
    <3> QED
      BY <1>6, <3>1, LeaveWorldType DEF FinishDurable
  <2> QED
    BY <1>6, <2>1 DEF FinishDurable, TypeOK
<1>7. CASE RequestSave(s)
  <2>1. requests' \subseteq Request
    BY <1>7, <1>s, SendType DEF RequestSave, Binding, Op
  <2> QED
    BY <1>7, <2>1 DEF RequestSave, TypeOK
<1> QED
  BY <1>1, <1>2, <1>3, <1>4, <1>5, <1>6, <1>7 DEF Supervisor, Play

(* The end of a connection.                                                *)
LEMMA TypeLogout ==
  ASSUME TypeOK, NEW s \in Session, Logout(s) \/ Disconnect(s)
  PROVE  TypeOK'
<1>s. task[s] \in Task /\ binding[s] \in Binding
  BY DEF TypeOK
<1>m. /\ \A pc \in {"leaving", "detaching", "logout_save", "logout_release"} :
           [task EXCEPT ![s].pc = pc] \in [Session -> Task]
      /\ Leave(s, "gone") => task' \in [Session -> Task]
  BY TaskMoves, LeaveType DEF Pc
<1>1. CASE Disconnect(s)
  <2>1. task' \in [Session -> Task] /\ renewal' \in [Session -> Renewal]
    <3>1. task' \in [Session -> Task]
      BY <1>1, <1>m DEF Disconnect
    <3>2. renewal' \in [Session -> Renewal]
      BY <1>1, ConstantRecords DEF Disconnect, TypeOK
    <3> QED
      BY <3>1, <3>2
  <2> QED
    BY <1>1, <2>1 DEF Disconnect, TypeOK
<1>2. CASE PrepareLogout(s)
  <2>1. task' \in [Session -> Task]
    BY <1>2, <1>m DEF PrepareLogout
  <2>2. requests' \subseteq Request
    <3>1. CASE UNCHANGED requests
      BY <3>1 DEF TypeOK
    <3>2. CASE Send(NewRequest("save", s, binding[s].character,
                               binding[s].generation))
      BY <1>s, <3>2, SendType DEF Binding, Op
    <3> QED
      BY <1>2, <3>1, <3>2 DEF PrepareLogout
  <2>3. binding' \in [Session -> Binding]
    <3>1. \/ UNCHANGED binding
          \/ binding' = [binding EXCEPT ![s].durable = "detach"]
          \/ binding' = [binding EXCEPT ![s] = NoBinding]
      BY <1>2 DEF PrepareLogout
    <3>2. binding \in [Session -> Binding]
      BY DEF TypeOK
    <3> QED
      BY <3>1, <3>2, BindingField
  <2> QED
    BY <1>2, <2>1, <2>2, <2>3 DEF PrepareLogout, TypeOK
<1>3. CASE LogoutSaved(s)
  <2>1. reply' \in [Session -> Reply] /\ task' \in [Session -> Task]
    BY <1>3, <1>m, ReceivesType DEF LogoutSaved
  <2>2. requests' \subseteq Request
    BY <1>3, <1>s, SendType DEF LogoutSaved, Task, Op
  <2> QED
    BY <1>3, <2>1, <2>2 DEF LogoutSaved, TypeOK
<1>4. CASE LogoutUnsaved(s)
  <2>1. reply' \in [Session -> Reply] /\ task' \in [Session -> Task]
    BY <1>4, <1>m, ReceivesType DEF LogoutUnsaved
  <2> QED
    BY <1>4, <2>1 DEF LogoutUnsaved, TypeOK
<1>5. CASE Detach(s)
  <2>1. task' \in [Session -> Task]
    BY <1>5, <1>m DEF Detach
  <2>2. requests' \subseteq Request /\ binding' \in [Session -> Binding]
    <3>1. CASE UNCHANGED <<requests, binding>>
      BY <3>1 DEF TypeOK
    <3>2. CASE /\ binding' = [binding EXCEPT ![s].durable = "detach"]
               /\ UNCHANGED requests
      BY <3>2, BindingField DEF TypeOK
    <3>3. CASE LeaveWorld(s)
      BY <3>3, LeaveWorldType
    <3> QED
      BY <1>5, <3>1, <3>2, <3>3 DEF Detach
  <2> QED
    BY <1>5, <2>1, <2>2 DEF Detach, TypeOK
<1>6. CASE LogoutReleased(s)
  <2>1. reply' \in [Session -> Reply] /\ task' \in [Session -> Task]
    BY <1>6, <1>m, ReceivesType DEF LogoutReleased
  <2> QED
    BY <1>6, <2>1 DEF LogoutReleased, TypeOK
<1> QED
  BY <1>1, <1>2, <1>3, <1>4, <1>5, <1>6 DEF Logout

(* The channel supervisor and crashes.                                     *)
LEMMA TypeProcess ==
  ASSUME TypeOK, NEW p \in Process,
         ChannelStops(p) \/ LoseAllAuthority(p) \/ Crash(p)
  PROVE  TypeOK'
<1>1. CASE ChannelStops(p)
  BY <1>1 DEF ChannelStops, TypeOK
<1>2. CASE LoseAllAuthority(p)
  <2>1. binding' \in [Session -> Binding]
    <3>1. \A s \in Session :
            /\ binding[s] \in Binding
            /\ [binding[s] EXCEPT !.status = "lost"] \in Binding
      BY DEF TypeOK, Binding
    <3> QED
      BY <1>2, <3>1 DEF LoseAllAuthority
  <2> QED
    BY <1>2, <2>1 DEF LoseAllAuthority, TypeOK
<1>3. CASE Crash(p)
  <2>1. task' \in [Session -> Task]
    <3>1. [NoTask EXCEPT !.pc = "gone"] \in Task
      BY ConstantRecords DEF Task, Pc
    <3> QED
      BY <1>3, <3>1 DEF Crash, TypeOK
  <2>2. reply' \in [Session -> Reply]
    BY <1>3, ConstantRecords DEF Crash, TypeOK
  <2>3. binding' \in [Session -> Binding]
    BY <1>3, ConstantRecords DEF Crash, TypeOK
  <2>4. renewal' \in [Session -> Renewal]
    BY <1>3, ConstantRecords DEF Crash, TypeOK
  <2>5. /\ mail' \in [Session -> Seq(Message)]
        /\ \A s \in Session : Len(mail'[s]) <= MailCap
    BY <1>3, LeaseAssumption DEF Crash, TypeOK, LeaseAssumption
  <2> QED
    BY <1>3, <2>1, <2>2, <2>3, <2>4, <2>5 DEF Crash, TypeOK
<1> QED
  BY <1>1, <1>2, <1>3

LEMMA TypeStep == TypeOK /\ [Next]_vars => TypeOK'
<1> SUFFICES ASSUME TypeOK, [Next]_vars PROVE TypeOK'
  OBVIOUS
<1>1. CASE Tick
  BY <1>1 DEF Tick, TypeOK
<1>2. ASSUME NEW s \in Session, NEW c \in Character, SendAdmit(s, c)
      PROVE  TypeOK'
  <2>1. task' \in [Session -> Task]
    BY <1>2, TaskAdmits DEF SendAdmit
  <2>2. requests' \subseteq Request
    BY <1>2, SendType DEF SendAdmit, Op
  <2> QED
    BY <1>2, <2>1, <2>2 DEF SendAdmit, TypeOK
<1>3. CASE UNCHANGED vars
  BY <1>3 DEF vars, TypeOK
<1> QED
  BY <1>1, <1>2, <1>3, TypeWorker, TypeActivation, TypeSession, TypeLogout,
     TypeProcess
  DEF Next

(* Every variable keeps its type and the lifecycle queue its capacity.     *)
THEOREM TypeCorrect == Spec => []TypeOK
  BY TypeInit, TypeStep, PTL DEF Spec
-----------------------------------------------------------------------------
(***************************************************************************)
(* LeaseInv is inductive.                                                  *)
(***************************************************************************)

(* What the steps below need of the types.                                 *)
LEMMA Functions ==
  ASSUME TypeOK
  PROVE  /\ task \in [Session -> Task]
         /\ reply \in [Session -> Reply]
         /\ binding \in [Session -> Binding]
         /\ renewal \in [Session -> Renewal]
         /\ mail \in [Session -> Seq(Message)]
  BY DEF TypeOK

LEMMA Numbers ==
  ASSUME TypeOK
  PROVE  /\ clock \in Nat
         /\ Expiry \in Nat
         /\ lease.generation \in Nat
         /\ lease.expires_at \in Int
         /\ \A r \in requests : r.generation \in Nat /\ r.session \in Session
         /\ \A s \in Session :
              /\ task[s].generation \in Nat
              /\ task[s].sent \in Nat
              /\ task[s].deadline \in Nat
              /\ reply[s].generation \in Nat
              /\ binding[s].generation \in Nat
              /\ binding[s].deadline \in Nat
              /\ renewal[s].sent \in Nat
              /\ renewal[s].deadline \in Nat
<1>1. /\ clock \in Nat
      /\ lease.generation \in Nat
      /\ lease.expires_at \in Int
  BY DEF TypeOK
<1>2. \A r \in requests : r.generation \in Nat /\ r.session \in Session
  BY DEF TypeOK, Request
<1>3. Expiry \in Nat
  BY LeaseAssumption DEF LeaseAssumption
<1>4. ASSUME NEW s \in Session
      PROVE  /\ task[s].generation \in Nat
             /\ task[s].sent \in Nat
             /\ task[s].deadline \in Nat
             /\ reply[s].generation \in Nat
             /\ binding[s].generation \in Nat
             /\ binding[s].deadline \in Nat
             /\ renewal[s].sent \in Nat
             /\ renewal[s].deadline \in Nat
  BY Functions DEF Task, Reply, Binding, Renewal
<1> QED
  BY <1>1, <1>2, <1>3, <1>4

LEMMA Notes ==
  ASSUME TypeOK, NEW s \in Session
  PROVE  \A i \in DOMAIN mail[s] : mail[s][i].at \in Nat
<1>1. mail[s] \in Seq(Message)
  BY Functions
<1>2. \A i \in DOMAIN mail[s] : mail[s][i] \in Message
  BY <1>1
<1> QED
  BY <1>2 DEF Message

(* An answer changes the reply of one session, which waits for it.         *)
LEMMA AnswerEffect ==
  ASSUME TypeOK, NEW r \in requests, NEW rep, Answer(r, rep)
  PROVE  \A t \in Session :
           \/ reply'[t] = reply[t]
           \/ t = r.session /\ Awaited(r) /\ reply'[t] = rep
  BY Functions DEF Answer

(* A transaction that grants nothing and leaves the row alone.             *)
LEMMA NoGrantStep ==
  ASSUME LeaseInv, requests' \subseteq requests,
         UNCHANGED <<clock, lease, task, binding, renewal, mail>>,
         \A t \in Session : reply'[t] = reply[t] \/ reply'[t].kind # "granted"
  PROVE  /\ Clocks' /\ Issued' /\ Phases' /\ Deadlines'
         /\ OneUser' /\ EndedUnused'
<1>1. Clocks'
  BY DEF LeaseInv, Clocks
<1>2. Issued'
  BY DEF LeaseInv, Issued
<1>3. Phases'
  BY DEF LeaseInv, Phases, PhaseOf
<1>4. Deadlines'
  BY DEF LeaseInv, Deadlines, DeadlinesOf, Backed
<1>5. \A s \in Session, g \in Nat :
        /\ Uses(s, g)' => Uses(s, g)
        /\ Names(s, g)' => Names(s, g)
  BY DEF Uses, Names, GrantedTo, BoundTo
<1>6. OneUser'
  BY <1>5 DEF LeaseInv, OneUser
<1>7. \A g \in Nat : Ending(g)' => Ending(g)
  BY DEF Ending
<1>8. EndedUnused'
  BY <1>5, <1>7 DEF LeaseInv, EndedUnused
<1> QED
  BY <1>1, <1>2, <1>3, <1>4, <1>6, <1>8

(* When no deadline of a used generation is ahead of the clock, the row    *)
(* may change in any way.                                                  *)
LEMMA DeadlinesOver ==
  ASSUME LeaseInv, UNCHANGED <<clock, task, binding, renewal, mail>>,
         \A s \in Session, g \in Nat, d \in Nat :
           Uses(s, g) /\ Backed(g, d) => d <= clock,
         \A s \in Session :
           \/ reply'[s] = reply[s]
           \/ reply'[s].kind # "granted"
           \/ Backed(reply[s].generation, FromRequest(task[s].sent))'
  PROVE  Deadlines'
<1> USE Numbers DEF LeaseInv
<1> SUFFICES ASSUME NEW s \in Session
             PROVE  DeadlinesOf(s)'
  BY DEF Deadlines
<1>1. ASSUME reply'[s].kind = "granted"
      PROVE  Backed(reply[s].generation, FromRequest(task[s].sent))'
  <2>1. CASE reply'[s] = reply[s]
    <3>1. Uses(s, reply[s].generation)
      BY <1>1, <2>1 DEF Uses, GrantedTo
    <3>2. FromRequest(task[s].sent) <= clock
      BY <1>1, <2>1, <3>1 DEF Deadlines, DeadlinesOf, FromRequest
    <3> QED
      BY <3>2 DEF Backed, FromRequest
  <2> QED
    BY <1>1, <2>1
<1>2. ASSUME task[s].pc = "entering"
      PROVE  Backed(task[s].generation, task[s].deadline)'
  <2>1. Uses(s, task[s].generation)
    BY <1>2 DEF Uses
  <2> QED
    BY <1>2, <2>1 DEF Deadlines, DeadlinesOf, Backed
<1>3. ASSUME binding[s].status # "none", NEW d \in Nat,
             Backed(binding[s].generation, d)
      PROVE  Backed(binding[s].generation, d)'
  <2>1. Uses(s, binding[s].generation)
    BY <1>3 DEF Uses, BoundTo
  <2> QED
    BY <1>3, <2>1 DEF Backed
<1>4. ASSUME binding[s].status # "none"
      PROVE  /\ Backed(binding[s].generation, binding[s].deadline)'
             /\ renewal[s].state = "ok" =>
                  Backed(binding[s].generation, FromRequest(renewal[s].sent))'
             /\ \A i \in DOMAIN mail[s] :
                  mail[s][i].kind = "deadline" =>
                    Backed(binding[s].generation, mail[s][i].at)'
  BY <1>3, <1>4, Notes DEF Deadlines, DeadlinesOf, FromRequest
<1> QED
  BY <1>1, <1>2, <1>4 DEF DeadlinesOf

(* A grant, at a moment when no deadline of a used generation is ahead.    *)
LEMMA GrantStep ==
  ASSUME LeaseInv, NEW r \in requests, requests' \subseteq requests,
         UNCHANGED <<clock, task, binding, renewal, mail>>,
         lease'.generation = lease.generation + 1,
         lease'.expires_at = clock + Expiry,
         \A s \in Session, g \in Nat, d \in Nat :
           Uses(s, g) /\ Backed(g, d) => d <= clock,
         \A t \in Session :
           \/ reply'[t] = reply[t]
           \/ reply'[t].kind # "granted"
           \/ /\ t = r.session
              /\ task[t].pc \in {"admit", "superseding"}
              /\ reply'[t].generation = lease.generation + 1
  PROVE  /\ Clocks' /\ Issued' /\ Phases' /\ Deadlines'
         /\ OneUser' /\ EndedUnused'
<1> USE Numbers DEF LeaseInv
<1>1. Clocks'
  BY DEF Clocks
<1>2. Issued'
  BY DEF Issued
<1>3. Phases'
  BY DEF Phases, PhaseOf
<1>4. Deadlines'
  <2>1. \A s \in Session :
          reply'[s].generation = lease.generation + 1 =>
            Backed(reply[s].generation, FromRequest(task[s].sent))'
    BY DEF Backed, FromRequest, Clocks
  <2> QED
    BY <2>1, DeadlinesOver
<1>5. \A s \in Session, g \in Nat :
        LET new == s = r.session /\ g = lease.generation + 1
        IN  (Uses(s, g)' => Uses(s, g) \/ new) /\ (Names(s, g)' => Names(s, g) \/ new)
  <2> SUFFICES ASSUME NEW s \in Session, NEW g \in Nat,
                      ~(s = r.session /\ g = lease.generation + 1)
               PROVE  /\ Uses(s, g)' => Uses(s, g)
                      /\ Names(s, g)' => Names(s, g)
    OBVIOUS
  <2>1. reply'[s].kind = "granted" /\ reply'[s].generation = g
          => reply[s].kind = "granted" /\ reply[s].generation = g
    OBVIOUS
  <2> QED
    BY <2>1 DEF Uses, Names, GrantedTo, BoundTo
<1>6. \A s \in Session :
        ~Uses(s, lease.generation + 1) /\ ~Names(s, lease.generation + 1)
  BY DEF Uses, Names, GrantedTo, BoundTo, Issued
<1>7. OneUser'
  BY <1>5, <1>6 DEF OneUser
<1>8. \A g \in Nat : Ending(g)' => Ending(g) /\ g <= lease.generation
  BY DEF Ending, Issued
<1>9. EndedUnused'
  BY <1>5, <1>8 DEF EndedUnused
<1> QED
  BY <1>1, <1>2, <1>3, <1>4, <1>7, <1>9

(* A live row that someone is ending has no deadline ahead of the clock.   *)
LEMMA EndingIsOver ==
  ASSUME LeaseInv, NEW r \in requests, r.op \in {"supersede", "release"},
         r.generation = lease.generation
  PROVE  \A s \in Session, g \in Nat, d \in Nat :
           Uses(s, g) /\ Backed(g, d) => d <= clock
<1>1. Ending(lease.generation) /\ lease.generation \in Nat
  BY Numbers DEF Ending, LeaseInv
<1>2. \A s \in Session : ~Uses(s, lease.generation)
  BY <1>1 DEF LeaseInv, EndedUnused
<1> QED
  BY <1>2 DEF Backed

LEMMA AdmitStep ==
  ASSUME LeaseInv, NEW r \in requests, Admit(r)
  PROVE  /\ Clocks' /\ Issued' /\ Phases' /\ Deadlines'
         /\ OneUser' /\ EndedUnused'
<1> USE DEF LeaseInv
<1>1. /\ requests' \subseteq requests
      /\ UNCHANGED <<clock, task, binding, renewal, mail>>
      /\ r.op = "admit"
  BY DEF Admit, TakeRequest
<1>2. ASSUME NEW kind \in {"refused", "held", "error"}, Answer(r, Simple(kind))
      PROVE  \A t \in Session :
               reply'[t] = reply[t] \/ reply'[t].kind # "granted"
  BY <1>2, AnswerEffect DEF Simple
<1>3. CASE UNCHANGED lease
  <2>1. \E kind \in {"refused", "held", "error"} : Answer(r, Simple(kind))
    BY <1>3, Numbers DEF Admit
  <2> QED
    BY <1>1, <1>2, <1>3, <2>1, NoGrantStep
<1>4. CASE /\ lease.expires_at <= clock
           /\ lease' = [generation |-> lease.generation + 1,
                        character |-> r.character,
                        expires_at |-> FromRequest(clock)]
           /\ \E rep \in {Granted(lease.generation + 1, r.character),
                          Simple("error")} : Answer(r, rep)
  <2>1. \A s \in Session, g \in Nat, d \in Nat :
          Uses(s, g) /\ Backed(g, d) => d <= clock
    BY <1>4, Numbers DEF Backed
  <2>2. \A t \in Session :
          \/ reply'[t] = reply[t]
          \/ reply'[t].kind # "granted"
          \/ /\ t = r.session
             /\ task[t].pc \in {"admit", "superseding"}
             /\ reply'[t].generation = lease.generation + 1
    <3>1. ASSUME Answer(r, Granted(lease.generation + 1, r.character))
          PROVE  <2>2
      BY <1>1, <3>1, AnswerEffect DEF Granted, Awaited
    <3> QED
      BY <1>2, <1>4, <3>1
  <2> QED
    BY <1>1, <1>4, <2>1, <2>2, GrantStep DEF FromRequest
<1> QED
  BY <1>3, <1>4 DEF Admit

LEMMA SupersedeStep ==
  ASSUME LeaseInv, NEW r \in requests, Supersede(r)
  PROVE  /\ Clocks' /\ Issued' /\ Phases' /\ Deadlines'
         /\ OneUser' /\ EndedUnused'
<1> USE DEF LeaseInv
<1>1. /\ requests' \subseteq requests
      /\ UNCHANGED <<clock, task, binding, renewal, mail>>
      /\ r.op = "supersede"
  BY DEF Supersede, TakeRequest
<1>2. ASSUME Answer(r, Simple("error"))
      PROVE  \A t \in Session :
               reply'[t] = reply[t] \/ reply'[t].kind # "granted"
  BY <1>2, AnswerEffect DEF Simple
<1>3. CASE Answer(r, Simple("error")) /\ UNCHANGED lease
  BY <1>1, <1>2, <1>3, NoGrantStep
<1>4. CASE /\ LiveLease(r)
           /\ lease' = [generation |-> lease.generation + 1,
                        character |-> r.character,
                        expires_at |-> FromRequest(clock)]
           /\ \E rep \in {Granted(lease.generation + 1, r.character),
                          Simple("error")} : Answer(r, rep)
  <2>1. \A s \in Session, g \in Nat, d \in Nat :
          Uses(s, g) /\ Backed(g, d) => d <= clock
    BY <1>1, <1>4, EndingIsOver DEF LiveLease
  <2>2. \A t \in Session :
          \/ reply'[t] = reply[t]
          \/ reply'[t].kind # "granted"
          \/ /\ t = r.session
             /\ task[t].pc \in {"admit", "superseding"}
             /\ reply'[t].generation = lease.generation + 1
    <3>1. ASSUME Answer(r, Granted(lease.generation + 1, r.character))
          PROVE  <2>2
      BY <1>1, <3>1, AnswerEffect DEF Granted, Awaited
    <3> QED
      BY <1>2, <1>4, <3>1
  <2> QED
    BY <1>1, <1>4, <2>1, <2>2, GrantStep DEF FromRequest
<1> QED
  BY <1>3, <1>4 DEF Supersede

(* A renewal moves the expiry forward, past the deadline its sender will   *)
(* count from its own send.                                                *)
LEMMA RenewStep ==
  ASSUME LeaseInv, NEW r \in requests, Renew(r)
  PROVE  /\ Clocks' /\ Issued' /\ Phases' /\ Deadlines'
         /\ OneUser' /\ EndedUnused'
<1> USE Numbers DEF LeaseInv
<1>1. /\ requests' \subseteq requests
      /\ UNCHANGED <<clock, task, reply, binding, mail>>
      /\ r.op = "renew"
      /\ r.session \in Session
  BY DEF Renew, TakeRequest
<1>2. /\ lease'.generation = lease.generation
      /\ \/ lease'.expires_at = lease.expires_at
         \/ LiveLease(r) /\ lease'.expires_at = clock + Expiry
  BY DEF Renew, FromRequest, TypeOK
<1>3. lease.expires_at <= lease'.expires_at /\ lease'.expires_at <= clock + Expiry
  BY <1>2 DEF Clocks
<1>4. \A s \in Session :
        /\ renewal'[s].sent = renewal[s].sent
        /\ renewal'[s].state # "off" => renewal[s].state # "off"
        /\ renewal'[s].state = "ok" =>
             \/ renewal[s].state = "ok"
             \/ /\ s = r.session
                /\ renewal[s].state = "sent"
                /\ LiveLease(r)
                /\ lease'.expires_at = clock + Expiry
  <2>1. ASSUME NEW out \in {"ok", "err"}, AnswerRenewal(r, out)
        PROVE  \A s \in Session :
                 \/ renewal'[s] = renewal[s]
                 \/ /\ s = r.session
                    /\ renewal[s].state = "sent"
                    /\ renewal'[s].state = out
                    /\ renewal'[s].sent = renewal[s].sent
    BY <1>1, <2>1, Functions DEF AnswerRenewal, Renewal
  <2>2. CASE LiveLease(r)
    <3>1. lease'.expires_at = clock + Expiry
      BY <2>2 DEF Renew, FromRequest, TypeOK
    <3> QED
      BY <2>1, <2>2, <3>1 DEF Renew
  <2>3. CASE ~LiveLease(r)
    BY <2>1, <2>3 DEF Renew
  <2> QED
    BY <2>2, <2>3
<1>5. Clocks'
  BY <1>1, <1>3, <1>4 DEF Clocks
<1>6. Issued'
  BY <1>1, <1>2 DEF Issued
<1>7. Phases'
  BY <1>1, <1>4 DEF Phases, PhaseOf
<1>8. Deadlines'
  <2>1. \A g \in Nat, d \in Nat : Backed(g, d) => Backed(g, d)'
    BY <1>1, <1>2, <1>3 DEF Backed
  <2> SUFFICES ASSUME NEW s \in Session
               PROVE  DeadlinesOf(s)'
    BY DEF Deadlines
  <2>2. reply[s].kind = "granted" =>
          Backed(reply[s].generation, FromRequest(task[s].sent))'
    BY <2>1, <1>1 DEF Deadlines, DeadlinesOf, FromRequest
  <2>3. task[s].pc = "entering" => Backed(task[s].generation, task[s].deadline)'
    BY <2>1, <1>1 DEF Deadlines, DeadlinesOf
  <2>4. binding[s].status # "none" =>
          /\ Backed(binding[s].generation, binding[s].deadline)'
          /\ \A i \in DOMAIN mail[s] :
               mail[s][i].kind = "deadline" =>
                 Backed(binding[s].generation, mail[s][i].at)'
    BY <2>1, <1>1, Notes DEF Deadlines, DeadlinesOf
  <2>5. ASSUME binding[s].status # "none", renewal'[s].state = "ok"
        PROVE  Backed(binding[s].generation, FromRequest(renewal[s].sent))'
    <3>1. CASE renewal[s].state = "ok"
      BY <2>1, <2>5, <3>1, <1>1, <1>4 DEF Deadlines, DeadlinesOf, FromRequest
    <3>2. CASE /\ s = r.session
               /\ renewal[s].state = "sent"
               /\ LiveLease(r)
               /\ lease'.expires_at = clock + Expiry
      <4>1. task[s].pc = "playing"
        BY <3>2 DEF Phases, PhaseOf
      <4>2. binding[s].generation = lease.generation
        BY <1>1, <2>5, <3>2, <4>1 DEF Phases, PhaseOf, LiveLease
      <4> QED
        BY <3>2, <4>2, <1>1, <1>2, <1>4 DEF Backed, FromRequest, Clocks
    <3> QED
      BY <2>5, <3>1, <3>2, <1>4
  <2> QED
    BY <2>2, <2>3, <2>4, <2>5, <1>1 DEF DeadlinesOf
<1>9. \A s \in Session, g \in Nat :
        /\ Uses(s, g)' => Uses(s, g)
        /\ Names(s, g)' => Names(s, g)
        /\ Ending(g)' => Ending(g)
  BY <1>1 DEF Uses, Names, GrantedTo, BoundTo, Ending
<1>10. OneUser' /\ EndedUnused'
  BY <1>9 DEF OneUser, EndedUnused
<1> QED
  BY <1>5, <1>6, <1>7, <1>8, <1>10

LEMMA ReleaseStep ==
  ASSUME LeaseInv, NEW r \in requests, Release(r)
  PROVE  /\ Clocks' /\ Issued' /\ Phases' /\ Deadlines'
         /\ OneUser' /\ EndedUnused'
<1> USE DEF LeaseInv
<1>1. /\ requests' \subseteq requests
      /\ UNCHANGED <<clock, task, binding, renewal, mail>>
      /\ r.op = "release"
  BY DEF Release, TakeRequest
<1>2. \A t \in Session : reply'[t] = reply[t] \/ reply'[t].kind # "granted"
  <2>1. ASSUME NEW kind \in {"ok", "error"}, Answer(r, Simple(kind))
        PROVE  <1>2
    BY <2>1, AnswerEffect DEF Simple
  <2> QED
    BY <2>1 DEF Release
<1>3. CASE ~LiveLease(r)
  BY <1>1, <1>2, <1>3, NoGrantStep DEF Release
<1>4. CASE LiveLease(r)
  <2>1. /\ lease'.generation = lease.generation
        /\ lease'.expires_at = clock - 1
    BY <1>4, Functions DEF Release, TypeOK
  <2>2. \A s \in Session, g \in Nat, d \in Nat :
          Uses(s, g) /\ Backed(g, d) => d <= clock
    BY <1>1, <1>4, EndingIsOver DEF LiveLease
  <2>3. Clocks'
    BY <1>1, <2>1, Numbers DEF Clocks
  <2>4. Issued'
    BY <1>1, <1>2, <2>1 DEF Issued
  <2>5. Phases'
    BY <1>1, <1>2 DEF Phases, PhaseOf
  <2>6. Deadlines'
    BY <1>1, <1>2, <2>2, DeadlinesOver
  <2>7. \A s \in Session, g \in Nat :
          /\ Uses(s, g)' => Uses(s, g)
          /\ Names(s, g)' => Names(s, g)
    BY <1>1, <1>2 DEF Uses, Names, GrantedTo, BoundTo
  <2>8. \A g \in Nat : Ending(g)' => Ending(g)
    BY <1>1 DEF Ending
  <2>9. OneUser' /\ EndedUnused'
    BY <2>7, <2>8 DEF OneUser, EndedUnused
  <2> QED
    BY <2>3, <2>4, <2>5, <2>6, <2>9
<1> QED
  BY <1>3, <1>4

LEMMA SaveStep ==
  ASSUME LeaseInv, NEW r \in requests, SaveLeased(r)
  PROVE  /\ Clocks' /\ Issued' /\ Phases' /\ Deadlines'
         /\ OneUser' /\ EndedUnused'
<1>1. \A t \in Session : reply'[t] = reply[t] \/ reply'[t].kind # "granted"
  <2>1. ASSUME NEW kind \in {"ok", "error"}, Answer(r, Simple(kind))
        PROVE  <1>1
    BY <2>1, AnswerEffect DEF Simple, LeaseInv
  <2> QED
    BY <2>1 DEF SaveLeased
<1> QED
  BY <1>1, NoGrantStep DEF SaveLeased, TakeRequest

(* A step of one session that leaves the clock and the row alone: it may   *)
(* take bindings away from others and may add requests of its own.         *)
LEMMA LocalStep ==
  ASSUME LeaseInv, NEW s \in Session, UNCHANGED <<clock, lease>>,
         \A t \in Session \ {s} :
           /\ UNCHANGED <<task[t], reply[t], renewal[t], mail[t]>>
           /\ binding'[t] = binding[t] \/ binding'[t] = NoBinding,
         \A r \in requests' :
           r \notin requests =>
             /\ r.session = s
             /\ r.generation <= lease.generation,
         /\ task'[s].sent <= clock
         /\ renewal'[s].sent <= clock
         /\ task'[s].generation <= lease.generation
         /\ binding'[s].generation <= lease.generation
         /\ reply'[s] = reply[s] \/ reply'[s].kind # "granted",
         PhaseOf(s)',
         DeadlinesOf(s)',
         \A g \in Nat :
           /\ Uses(s, g)' => Uses(s, g)
           /\ Names(s, g)' => Names(s, g)
           /\ Ending(g)' => Ending(g) \/ \A t \in Session : ~Uses(t, g)'
  PROVE  /\ Clocks' /\ Issued' /\ Phases' /\ Deadlines'
         /\ OneUser' /\ EndedUnused'
<1> USE DEF LeaseInv
<1>1. Clocks'
  BY DEF Clocks
<1>2. Issued'
  BY Numbers DEF Issued, NoBinding
<1>3. Phases'
  <2>1. ASSUME NEW t \in Session, t # s
        PROVE  PhaseOf(t)'
    BY <2>1 DEF Phases, PhaseOf, NoBinding
  <2> QED
    BY <2>1 DEF Phases
<1>4. Deadlines'
  <2>1. ASSUME NEW t \in Session, t # s
        PROVE  DeadlinesOf(t)'
    BY <2>1 DEF Deadlines, DeadlinesOf, Backed, NoBinding
  <2> QED
    BY <2>1 DEF Deadlines
<1>5. ASSUME NEW t \in Session, NEW g \in Nat
      PROVE  /\ Uses(t, g)' => Uses(t, g)
             /\ Names(t, g)' => Names(t, g)
  BY DEF Uses, Names, GrantedTo, BoundTo, NoBinding
<1>6. OneUser'
  BY <1>5 DEF OneUser
<1>7. EndedUnused'
  BY <1>5 DEF EndedUnused
<1> QED
  BY <1>1, <1>2, <1>3, <1>4, <1>6, <1>7

LEMMA FailStep ==
  ASSUME LeaseInv, NEW r \in requests, StorageFails(r)
  PROVE  /\ Clocks' /\ Issued' /\ Phases' /\ Deadlines'
         /\ OneUser' /\ EndedUnused'
<1> USE DEF LeaseInv
<1>1. CASE r.op # "renew"
  <2>1. \A t \in Session : reply'[t] = reply[t] \/ reply'[t].kind # "granted"
    BY <1>1, AnswerEffect DEF StorageFails, Simple
  <2> QED
    BY <1>1, <2>1, NoGrantStep DEF StorageFails
<1>2. CASE r.op = "renew"
  <2> DEFINE s == r.session
  <2>1. s \in Session
    BY Numbers
  <2>2. /\ UNCHANGED <<clock, lease, task, binding, mail, reply>>
        /\ requests' \subseteq requests
        /\ \A t \in Session \ {s} : renewal'[t] = renewal[t]
        /\ renewal'[s].sent = renewal[s].sent
        /\ \/ renewal'[s] = renewal[s]
           \/ renewal[s].state = "sent" /\ renewal'[s].state = "err"
    <3>1. /\ UNCHANGED <<clock, lease, task, binding, mail, reply>>
          /\ requests' \subseteq requests
          /\ AnswerRenewal(r, "err")
      BY <1>2 DEF StorageFails
    <3>2. CASE renewal[s].state = "sent"
      <4>1. renewal' = [renewal EXCEPT ![s].state = "err"]
        BY <3>1, <3>2 DEF AnswerRenewal
      <4> QED
        BY <2>1, <3>1, <3>2, <4>1, Functions DEF Renewal
    <3>3. CASE renewal[s].state # "sent"
      BY <3>1, <3>3 DEF AnswerRenewal
    <3> QED
      BY <3>2, <3>3
  <2> HIDE DEF s
  <2>3. PhaseOf(s)'
    BY <2>1, <2>2 DEF Phases, PhaseOf
  <2>4. DeadlinesOf(s)'
    BY <2>1, <2>2 DEF Deadlines, DeadlinesOf, Backed
  <2>5. \A g \in Nat :
          /\ Uses(s, g)' => Uses(s, g)
          /\ Names(s, g)' => Names(s, g)
          /\ Ending(g)' => Ending(g)
    BY <2>2 DEF Uses, Names, GrantedTo, BoundTo, Ending
  <2>6. /\ task'[s].sent <= clock
        /\ renewal'[s].sent <= clock
        /\ task'[s].generation <= lease.generation
        /\ binding'[s].generation <= lease.generation
    BY <2>1, <2>2 DEF Clocks, Issued
  <2>7. /\ reply'[s] = reply[s]
        /\ \A t \in Session \ {s} :
             /\ UNCHANGED <<task[t], reply[t], renewal[t], mail[t]>>
             /\ binding'[t] = binding[t]
    BY <2>2
  <2> QED
    BY <2>1, <2>2, <2>3, <2>4, <2>5, <2>6, <2>7, LocalStep
<1> QED
  BY <1>1, <1>2

LEMMA WorkerStep ==
  ASSUME LeaseInv, NEW r \in requests, Worker(r)
  PROVE  /\ Clocks' /\ Issued' /\ Phases' /\ Deadlines'
         /\ OneUser' /\ EndedUnused'
  BY AdmitStep, SupersedeStep, RenewStep, ReleaseStep, SaveStep, FailStep
  DEF Worker

(* The task awaits no grant any more, and waits elsewhere or rests.        *)
LEMMA ReceivesEffect ==
  ASSUME TypeOK, NEW s \in Session, NEW pc, NEW kinds, Receives(s, pc, kinds)
  PROVE  /\ task[s].pc = pc
         /\ reply'[s].kind # "granted"
         /\ \A t \in Session \ {s} : reply'[t] = reply[t]
  BY Functions DEF Receives, NoReply, Simple

LEMMA ReleaseUnusedEffect ==
  ASSUME TypeOK, NEW s \in Session, NEW g \in Nat, ReleaseUnused(s, g)
  PROVE  /\ task'[s].pc = "releasing"
         /\ task'[s].generation = g
         /\ task'[s].sent = task[s].sent
         /\ \A t \in Session \ {s} : task'[t] = task[t]
         /\ \A r \in requests' :
              r \notin requests =>
                r.op = "release" /\ r.session = s /\ r.generation = g
         /\ requests \subseteq requests'
<1>1. /\ task'[s].pc = "releasing"
      /\ task'[s].generation = g
      /\ task'[s].sent = task[s].sent
      /\ \A t \in Session \ {s} : task'[t] = task[t]
  BY Functions DEF ReleaseUnused, Task
<1>2. /\ requests \subseteq requests'
      /\ \A r \in requests' :
           r \notin requests =>
             r.op = "release" /\ r.session = s /\ r.generation = g
  BY DEF ReleaseUnused, Send, NewRequest
<1> QED
  BY <1>1, <1>2

(* The task of s moves to pc, where it holds nothing; the rest stays.      *)
LEMMA RestStep ==
  ASSUME LeaseInv, NEW s \in Session, NEW pc \in Pc, Leave(s, pc),
         pc \in {"out", "gone"},
         binding[s].status # "none" => pc = "gone",
         mail[s] # <<>> => pc = "gone",
         renewal[s].state = "off",
         \A r \in requests : r.op = "renew" /\ r.session = s => pc = "gone",
         UNCHANGED <<clock, lease, renewal, mail>>,
         \A t \in Session : binding'[t] = binding[t] \/ binding'[t] = NoBinding,
         \A t \in Session \ {s} : reply'[t] = reply[t] /\ binding'[t] = binding[t],
         reply'[s].kind # "granted",
         \A r \in requests' :
           r \notin requests =>
             /\ r.session = s
             /\ r.op # "renew"
             /\ r.generation <= lease.generation
             /\ r.op \in {"supersede", "release"} =>
                  \A t \in Session : ~Uses(t, r.generation)'
  PROVE  /\ Clocks' /\ Issued' /\ Phases' /\ Deadlines'
         /\ OneUser' /\ EndedUnused'
<1> USE DEF LeaseInv
<1>1. /\ task'[s].pc = pc
      /\ task'[s].generation = 0
      /\ task'[s].sent = 0
      /\ \A t \in Session \ {s} : task'[t] = task[t]
  BY Functions DEF Leave, NoTask
<1>2. PhaseOf(s)'
  BY <1>1 DEF Phases, PhaseOf, NoBinding
<1>3. DeadlinesOf(s)'
  BY <1>1 DEF Deadlines, DeadlinesOf, Backed, NoBinding
<1>4. \A g \in Nat :
        /\ Uses(s, g)' => Uses(s, g)
        /\ Names(s, g)' => Names(s, g)
  BY <1>1 DEF Uses, Names, GrantedTo, BoundTo, NoBinding
<1>5. \A g \in Nat : Ending(g)' => Ending(g) \/ \A t \in Session : ~Uses(t, g)'
  BY <1>1 DEF Ending
<1>6. /\ task'[s].sent <= clock
      /\ renewal'[s].sent <= clock
      /\ task'[s].generation <= lease.generation
      /\ binding'[s].generation <= lease.generation
  BY <1>1, Numbers DEF Clocks, Issued, NoBinding
<1> QED
  BY <1>1, <1>2, <1>3, <1>4, <1>5, <1>6, LocalStep

LEMMA SendAdmitStep ==
  ASSUME LeaseInv, NEW s \in Session, NEW c \in Character, SendAdmit(s, c)
  PROVE  /\ Clocks' /\ Issued' /\ Phases' /\ Deadlines'
         /\ OneUser' /\ EndedUnused'
<1> USE DEF LeaseInv
<1>1. /\ task[s].pc = "out"
      /\ UNCHANGED <<clock, lease, reply, binding, renewal, mail>>
  BY DEF SendAdmit
<1>2. /\ task'[s].pc = "admit"
      /\ task'[s].sent = clock
      /\ task'[s].generation = task[s].generation
      /\ \A t \in Session \ {s} : task'[t] = task[t]
  BY Functions DEF SendAdmit, Task
<1>3. \A r \in requests' :
        r \notin requests => r.op = "admit" /\ r.session = s /\ r.generation = 0
  BY DEF SendAdmit, Send, NewRequest
<1>4. PhaseOf(s)'
  BY <1>1, <1>2, <1>3 DEF Phases, PhaseOf
<1>5. DeadlinesOf(s)'
  BY <1>1, <1>2 DEF Phases, PhaseOf, DeadlinesOf
<1>6. \A g \in Nat :
        /\ Uses(s, g)' => Uses(s, g)
        /\ Names(s, g)' => Names(s, g)
        /\ Ending(g)' => Ending(g)
  BY <1>1, <1>2, <1>3 DEF Uses, Names, GrantedTo, BoundTo, Ending
<1>7. /\ task'[s].sent <= clock
      /\ renewal'[s].sent <= clock
      /\ task'[s].generation <= lease.generation
      /\ binding'[s].generation <= lease.generation
      /\ 0 <= lease.generation
  BY <1>1, <1>2, Numbers DEF Clocks, Issued
<1> QED
  BY <1>1, <1>2, <1>3, <1>4, <1>5, <1>6, <1>7, LocalStep

LEMMA BackToRoster ==
  ASSUME LeaseInv, NEW s \in Session,
         AdmitRejected(s) \/ ReconnectFailed(s) \/ Released(s)
  PROVE  /\ Clocks' /\ Issued' /\ Phases' /\ Deadlines'
         /\ OneUser' /\ EndedUnused'
<1> USE DEF LeaseInv
<1>1. /\ task[s].pc \in {"admit", "saving", "superseding", "releasing"}
      /\ reply'[s].kind # "granted"
      /\ \A t \in Session \ {s} : reply'[t] = reply[t]
  BY ReceivesEffect DEF AdmitRejected, ReconnectFailed, Released
<1>2. /\ Leave(s, "out")
      /\ UNCHANGED <<clock, lease, requests, binding, renewal, mail>>
  BY DEF AdmitRejected, ReconnectFailed, Released
<1>3. /\ binding[s].status = "none"
      /\ mail[s] = <<>>
      /\ renewal[s].state = "off"
      /\ \A r \in requests : ~(r.op = "renew" /\ r.session = s)
  BY <1>1 DEF Phases, PhaseOf
<1> QED
  BY <1>1, <1>2, <1>3, RestStep DEF Pc

LEMMA AdmitHeldStep ==
  ASSUME LeaseInv, NEW s \in Session, AdmitHeld(s)
  PROVE  /\ Clocks' /\ Issued' /\ Phases' /\ Deadlines'
         /\ OneUser' /\ EndedUnused'
<1> USE DEF LeaseInv
<1>1. /\ task[s].pc = "admit"
      /\ reply'[s].kind # "granted"
      /\ \A t \in Session \ {s} : reply'[t] = reply[t]
      /\ UNCHANGED <<clock, lease, requests, binding, renewal, mail>>
  BY ReceivesEffect DEF AdmitHeld
<1>2. /\ task'[s].pc = "held"
      /\ task'[s].sent = task[s].sent
      /\ task'[s].generation = task[s].generation
      /\ \A t \in Session \ {s} : task'[t] = task[t]
  BY Functions DEF AdmitHeld, Task
<1>4. PhaseOf(s)'
  BY <1>1, <1>2 DEF Phases, PhaseOf
<1>5. DeadlinesOf(s)'
  BY <1>1, <1>2 DEF Phases, PhaseOf, DeadlinesOf
<1>6. \A g \in Nat :
        /\ Uses(s, g)' => Uses(s, g)
        /\ Names(s, g)' => Names(s, g)
        /\ Ending(g)' => Ending(g)
  BY <1>1, <1>2 DEF Uses, Names, GrantedTo, BoundTo, Ending
<1>7. /\ task'[s].sent <= clock
      /\ renewal'[s].sent <= clock
      /\ task'[s].generation <= lease.generation
      /\ binding'[s].generation <= lease.generation
  BY <1>1, <1>2, Numbers DEF Clocks, Issued
<1> QED
  BY <1>1, <1>2, <1>4, <1>5, <1>6, <1>7, LocalStep

(* The deadline of an entry is the one the granted reply was backed for.   *)
LEMMA LeaseGrantedStep ==
  ASSUME LeaseInv, NEW s \in Session, LeaseGranted(s)
  PROVE  /\ Clocks' /\ Issued' /\ Phases' /\ Deadlines'
         /\ OneUser' /\ EndedUnused'
<1> USE DEF LeaseInv
<1>0. PICK g \in Nat : g = reply[s].generation
  BY Numbers
<1>1. /\ task[s].pc \in {"admit", "superseding"}
      /\ reply[s].kind = "granted"
      /\ reply'[s].kind # "granted"
      /\ \A t \in Session \ {s} : reply'[t] = reply[t]
      /\ UNCHANGED <<clock, lease, binding, renewal, mail>>
  BY ReceivesEffect DEF LeaseGranted, Receives
<1>2. /\ binding[s].status = "none"
      /\ mail[s] = <<>>
      /\ renewal[s].state = "off"
      /\ \A r \in requests : ~(r.op = "renew" /\ r.session = s)
      /\ g <= lease.generation
      /\ GrantedTo(s, g)
  BY <1>0, <1>1, Numbers DEF Phases, PhaseOf, Issued, GrantedTo
<1>3. /\ renewal'[s].sent <= clock
      /\ binding'[s].generation <= lease.generation
  BY <1>1 DEF Clocks, Issued
<1>4. CASE /\ task' = [task EXCEPT ![s].pc = "entering",
                                   ![s].generation = reply[s].generation,
                                   ![s].deadline = FromRequest(task[s].sent),
                                   ![s].seen = reply[s].seen]
           /\ UNCHANGED requests
  <2>1. /\ task'[s].pc = "entering"
        /\ task'[s].generation = g
        /\ task'[s].deadline = FromRequest(task[s].sent)
        /\ task'[s].sent = task[s].sent
        /\ \A t \in Session \ {s} : task'[t] = task[t]
    BY <1>0, <1>4, Functions DEF Task
  <2>2. PhaseOf(s)'
    BY <1>1, <1>2, <1>4, <2>1 DEF PhaseOf
  <2>3. DeadlinesOf(s)'
    <3>1. Backed(g, FromRequest(task[s].sent))
      BY <1>0, <1>1 DEF Deadlines, DeadlinesOf
    <3> QED
      BY <1>1, <1>2, <2>1, <3>1 DEF DeadlinesOf, Backed
  <2>4. \A h \in Nat :
          /\ Uses(s, h)' => Uses(s, h)
          /\ Names(s, h)' => Names(s, h)
          /\ Ending(h)' => Ending(h)
    <3>1. \A h \in Nat : Uses(s, h)' \/ Names(s, h)' => h = g
      BY <1>1, <1>2, <2>1 DEF Uses, Names, GrantedTo, BoundTo
    <3>2. Uses(s, g) /\ Names(s, g)
      BY <1>2 DEF Uses, Names
    <3>3. \A h \in Nat : Ending(h)' => Ending(h)
      BY <1>4, <2>1 DEF Ending
    <3> QED
      BY <3>1, <3>2, <3>3
  <2>5. task'[s].sent <= clock /\ task'[s].generation <= lease.generation
    BY <1>2, <2>1 DEF Clocks
  <2> QED
    BY <1>1, <1>3, <1>4, <2>1, <2>2, <2>3, <2>4, <2>5, LocalStep
<1>5. CASE ReleaseUnused(s, g)
  <2>1. /\ task'[s].pc = "releasing"
        /\ task'[s].generation = g
        /\ task'[s].sent = task[s].sent
        /\ \A t \in Session \ {s} : task'[t] = task[t]
        /\ \A r \in requests' :
             r \notin requests =>
               r.op = "release" /\ r.session = s /\ r.generation = g
        /\ requests \subseteq requests'
    BY <1>2, <1>5, ReleaseUnusedEffect
  <2>2. PhaseOf(s)'
    BY <1>1, <1>2, <2>1 DEF PhaseOf
  <2>3. DeadlinesOf(s)'
    BY <1>1, <1>2, <2>1 DEF DeadlinesOf
  <2>4. \A h \in Nat : ~Uses(s, h)' /\ ~Names(s, h)'
    BY <1>1, <1>2, <2>1 DEF Uses, Names, GrantedTo, BoundTo
  <2>5. \A t \in Session : ~Uses(t, g)'
    <3>1. \A t \in Session \ {s} : Uses(t, g)' => Uses(t, g)
      BY <1>1, <2>1 DEF Uses, GrantedTo, BoundTo
    <3>2. \A t \in Session : Uses(t, g) => t = s
      BY <1>2 DEF OneUser, Uses, Names
    <3> QED
      BY <1>2, <2>4, <3>1, <3>2
  <2>6. \A h \in Nat : Ending(h)' => Ending(h) \/ h = g
    BY <1>1, <2>1 DEF Ending
  <2>7. task'[s].sent <= clock /\ task'[s].generation <= lease.generation
    BY <1>2, <2>1 DEF Clocks
  <2> QED
    BY <1>1, <1>2, <1>3, <2>1, <2>2, <2>3, <2>4, <2>5, <2>6, <2>7, LocalStep
<1> QED
  BY <1>0, <1>4, <1>5 DEF LeaseGranted

(* The generation saved for a reconnect loses its only user.               *)
LEMMA StopForReconnectStep ==
  ASSUME LeaseInv, NEW s \in Session, StopForReconnect(s)
  PROVE  /\ Clocks' /\ Issued' /\ Phases' /\ Deadlines'
         /\ OneUser' /\ EndedUnused'
<1> USE DEF LeaseInv
<1>1. /\ task[s].pc = "held"
      /\ UNCHANGED <<clock, lease, reply, renewal, mail>>
  BY DEF StopForReconnect
<1>2. /\ binding[s].status = "none"
      /\ reply[s].kind # "granted"
      /\ mail[s] = <<>>
      /\ renewal[s].state = "off"
      /\ \A r \in requests : ~(r.op = "renew" /\ r.session = s)
  BY <1>1 DEF Phases, PhaseOf
<1>3. CASE Leave(s, "out") /\ UNCHANGED <<requests, binding>>
  BY <1>1, <1>2, <1>3, RestStep DEF Pc
<1>4. ASSUME NEW o \in Session, binding[o].status = "live",
             binding' = [binding EXCEPT ![o] = NoBinding],
             Send(NewRequest("save", s, task[s].character,
                             binding[o].generation)),
             task' = [task EXCEPT ![s].pc = "saving",
                            ![s].generation = binding[o].generation]
      PROVE  /\ Clocks' /\ Issued' /\ Phases' /\ Deadlines'
             /\ OneUser' /\ EndedUnused'
  <2>0. PICK g \in Nat : g = binding[o].generation
    BY Numbers
  <2>1. /\ task'[s].pc = "saving"
        /\ task'[s].generation = g
        /\ task'[s].sent = task[s].sent
        /\ \A t \in Session \ {s} : task'[t] = task[t]
    BY <1>4, <2>0, Functions DEF Task
  <2>2. /\ o # s
        /\ binding'[o] = NoBinding
        /\ \A t \in Session \ {o} : binding'[t] = binding[t]
    BY <1>2, <1>4, Functions
  <2>3. \A r \in requests' :
          r \notin requests =>
            r.op = "save" /\ r.session = s /\ r.generation = g
    BY <1>4, <2>0 DEF Send, NewRequest
  <2>4. PhaseOf(s)'
    BY <1>1, <1>2, <2>1, <2>2, <2>3 DEF PhaseOf
  <2>5. DeadlinesOf(s)'
    BY <1>1, <1>2, <2>1, <2>2 DEF DeadlinesOf
  <2>6. \A h \in Nat : ~Uses(s, h)' /\ ~Names(s, h)'
    BY <1>1, <1>2, <2>1, <2>2 DEF Uses, Names, GrantedTo, BoundTo
  <2>7. \A t \in Session : ~Uses(t, g)'
    <3>1. \A t \in Session \ {s} : Uses(t, g)' => Uses(t, g)
      BY <1>1, <2>1, <2>2 DEF Uses, GrantedTo, BoundTo, NoBinding
    <3>2. Uses(o, g) /\ Names(o, g)
      BY <1>4, <2>0 DEF Uses, Names, BoundTo
    <3>3. \A t \in Session : Uses(t, g) => t = o
      BY <3>2 DEF OneUser
    <3>4. ~Uses(o, g)'
      <4>1. task[o].pc \in {"entered", "abandoning", "playing", "leaving",
                            "detaching", "gone"}
        BY <1>4 DEF Phases, PhaseOf
      <4>2. reply[o].kind # "granted"
        BY <4>1 DEF Phases, PhaseOf
      <4> QED
        BY <1>1, <2>1, <2>2, <4>1, <4>2
        DEF Uses, GrantedTo, BoundTo, NoBinding
    <3> QED
      BY <2>6, <3>1, <3>3, <3>4
  <2>8. \A h \in Nat : Ending(h)' => Ending(h) \/ h = g
    BY <2>1, <2>3 DEF Ending
  <2>9. /\ task'[s].sent <= clock
        /\ renewal'[s].sent <= clock
        /\ g <= lease.generation
        /\ binding'[s].generation <= lease.generation
    BY <1>1, <2>0, <2>1, <2>2 DEF Clocks, Issued
  <2> QED
    BY <1>1, <1>2, <2>1, <2>2, <2>3, <2>4, <2>5, <2>6, <2>7, <2>8, <2>9,
       LocalStep
<1> QED
  BY <1>3, <1>4 DEF StopForReconnect, Occupants

LEMMA ReconnectSavedStep ==
  ASSUME LeaseInv, NEW s \in Session, ReconnectSaved(s)
  PROVE  /\ Clocks' /\ Issued' /\ Phases' /\ Deadlines'
         /\ OneUser' /\ EndedUnused'
<1> USE DEF LeaseInv
<1>0. PICK g \in Nat : g = task[s].generation
  BY Numbers
<1>1. /\ task[s].pc = "saving"
      /\ reply'[s].kind # "granted"
      /\ \A t \in Session \ {s} : reply'[t] = reply[t]
      /\ UNCHANGED <<clock, lease, binding, renewal, mail>>
  BY ReceivesEffect DEF ReconnectSaved
<1>2. /\ task'[s].pc = "superseding"
      /\ task'[s].sent = clock
      /\ task'[s].generation = g
      /\ \A t \in Session \ {s} : task'[t] = task[t]
  BY <1>0, Functions DEF ReconnectSaved, Task
<1>3. \A r \in requests' :
        r \notin requests =>
          r.op = "supersede" /\ r.session = s /\ r.generation = g
  BY <1>0 DEF ReconnectSaved, Send, NewRequest
<1>4. PhaseOf(s)'
  BY <1>1, <1>2, <1>3 DEF Phases, PhaseOf
<1>5. DeadlinesOf(s)'
  BY <1>1, <1>2 DEF Phases, PhaseOf, DeadlinesOf
<1>6. \A h \in Nat :
        /\ Uses(s, h)' => Uses(s, h)
        /\ Names(s, h)' => Names(s, h)
  BY <1>1, <1>2 DEF Uses, Names, GrantedTo, BoundTo
<1>7. \A h \in Nat : Ending(h)' => Ending(h)
  <2>1. Ending(g)
    BY <1>0, <1>1 DEF Ending
  <2> QED
    BY <1>2, <1>3, <2>1 DEF Ending
<1>8. /\ task'[s].sent <= clock
      /\ renewal'[s].sent <= clock
      /\ g <= lease.generation
      /\ binding'[s].generation <= lease.generation
  BY <1>0, <1>1, <1>2, Numbers DEF Clocks, Issued
<1> QED
  BY <1>1, <1>2, <1>3, <1>4, <1>5, <1>6, <1>7, <1>8, LocalStep

(* A session gives generation g back: nobody else uses it.                 *)
LEMMA GiveBackStep ==
  ASSUME LeaseInv, NEW s \in Session, NEW g \in Nat, ReleaseUnused(s, g),
         g <= lease.generation, Names(s, g),
         UNCHANGED <<clock, lease, reply, renewal, mail>>,
         reply[s].kind # "granted",
         mail[s] = <<>>,
         renewal[s].state = "off",
         \A r \in requests : ~(r.op = "renew" /\ r.session = s),
         binding'[s].status = "none",
         binding'[s].generation <= lease.generation,
         \A t \in Session \ {s} : binding'[t] = binding[t]
  PROVE  /\ Clocks' /\ Issued' /\ Phases' /\ Deadlines'
         /\ OneUser' /\ EndedUnused'
<1> USE DEF LeaseInv
<1>1. /\ task'[s].pc = "releasing"
      /\ task'[s].generation = g
      /\ task'[s].sent = task[s].sent
      /\ \A t \in Session \ {s} : task'[t] = task[t]
      /\ \A r \in requests' :
           r \notin requests =>
             r.op = "release" /\ r.session = s /\ r.generation = g
      /\ requests \subseteq requests'
  BY ReleaseUnusedEffect
<1>2. PhaseOf(s)'
  BY <1>1 DEF PhaseOf
<1>3. DeadlinesOf(s)'
  BY <1>1 DEF DeadlinesOf
<1>4. \A h \in Nat : ~Uses(s, h)' /\ ~Names(s, h)'
  BY <1>1 DEF Uses, Names, GrantedTo, BoundTo
<1>5. \A t \in Session : ~Uses(t, g)'
  <2>1. \A t \in Session \ {s} : Uses(t, g)' => Uses(t, g)
    BY <1>1 DEF Uses, GrantedTo, BoundTo
  <2>2. \A t \in Session : Uses(t, g) => t = s
    BY DEF OneUser
  <2> QED
    BY <1>4, <2>1, <2>2
<1>6. \A h \in Nat : Ending(h)' => Ending(h) \/ h = g
  BY <1>1 DEF Ending
<1>7. task'[s].sent <= clock /\ renewal'[s].sent <= clock
  BY <1>1 DEF Clocks
<1> QED
  BY <1>1, <1>2, <1>3, <1>4, <1>5, <1>6, <1>7, LocalStep

(* Entry moves the use of the generation from the task to the binding.     *)
LEMMA EnterRestoredStep ==
  ASSUME LeaseInv, NEW s \in Session, EnterRestored(s)
  PROVE  /\ Clocks' /\ Issued' /\ Phases' /\ Deadlines'
         /\ OneUser' /\ EndedUnused'
<1> USE DEF LeaseInv
<1>0. PICK g \in Nat : g = task[s].generation
  BY Numbers
<1>1. /\ task[s].pc = "entering"
      /\ UNCHANGED <<clock, lease, reply, renewal, mail>>
  BY DEF EnterRestored
<1>2. /\ binding[s].status = "none"
      /\ reply[s].kind # "granted"
      /\ mail[s] = <<>>
      /\ renewal[s].state = "off"
      /\ \A r \in requests : ~(r.op = "renew" /\ r.session = s)
      /\ g <= lease.generation
      /\ Uses(s, g) /\ Names(s, g)
  BY <1>0, <1>1 DEF Phases, PhaseOf, Issued, Uses, Names
<1>3. CASE /\ binding' = [binding EXCEPT ![s] =
                [status |-> "live", durable |-> "idle",
                 character |-> task[s].character,
                 generation |-> task[s].generation,
                 deadline |-> task[s].deadline, seen |-> task[s].seen]]
           /\ task' = [task EXCEPT ![s].pc = "entered"]
           /\ UNCHANGED requests
  <2>1. /\ task'[s].pc = "entered"
        /\ task'[s].generation = g
        /\ task'[s].sent = task[s].sent
        /\ \A t \in Session \ {s} : task'[t] = task[t]
    BY <1>0, <1>3, Functions DEF Task
  <2>2. /\ binding'[s].generation = g
        /\ binding'[s].deadline = task[s].deadline
        /\ \A t \in Session \ {s} : binding'[t] = binding[t]
    BY <1>0, <1>3, Functions
  <2>3. PhaseOf(s)'
    BY <1>1, <1>2, <1>3, <2>1, <2>2 DEF PhaseOf
  <2>4. DeadlinesOf(s)'
    <3>1. Backed(g, task[s].deadline)
      BY <1>0, <1>1 DEF Deadlines, DeadlinesOf
    <3> QED
      BY <1>1, <1>2, <2>1, <2>2, <3>1 DEF DeadlinesOf, Backed
  <2>5. \A h \in Nat : Uses(s, h)' \/ Names(s, h)' => h = g
    BY <1>1, <1>2, <2>1, <2>2 DEF Uses, Names, GrantedTo, BoundTo
  <2>6. \A h \in Nat : Ending(h)' => Ending(h)
    BY <1>3, <2>1 DEF Ending
  <2>7. /\ task'[s].sent <= clock
        /\ renewal'[s].sent <= clock
    BY <1>1, <2>1 DEF Clocks
  <2> QED
    BY <1>1, <1>2, <1>3, <2>1, <2>2, <2>3, <2>4, <2>5, <2>6, <2>7, LocalStep
<1>4. CASE ReleaseUnused(s, task[s].generation) /\ UNCHANGED binding
  <2>1. binding'[s].generation <= lease.generation
    BY <1>4 DEF Issued
  <2> QED
    BY <1>0, <1>1, <1>2, <1>4, <2>1, GiveBackStep
<1> QED
  BY <1>3, <1>4 DEF EnterRestored

LEMMA AbandonAdmissionStep ==
  ASSUME LeaseInv, NEW s \in Session, AbandonAdmission(s)
  PROVE  /\ Clocks' /\ Issued' /\ Phases' /\ Deadlines'
         /\ OneUser' /\ EndedUnused'
<1> USE DEF LeaseInv
<1>0. PICK g \in Nat : g = task[s].generation
  BY Numbers
<1>1. /\ task[s].pc = "abandoning"
      /\ UNCHANGED <<clock, lease, reply, renewal, mail>>
      /\ ReleaseUnused(s, g)
  BY <1>0 DEF AbandonAdmission
<1>2. /\ reply[s].kind # "granted"
      /\ mail[s] = <<>>
      /\ renewal[s].state = "off"
      /\ \A r \in requests : ~(r.op = "renew" /\ r.session = s)
      /\ g <= lease.generation
      /\ Names(s, g)
  BY <1>0, <1>1 DEF Phases, PhaseOf, Issued, Names
<1>3. /\ binding'[s].status = "none"
      /\ binding'[s].generation <= lease.generation
      /\ \A t \in Session \ {s} : binding'[t] = binding[t]
  BY Functions, Numbers DEF AbandonAdmission, NoBinding
<1> QED
  BY <1>1, <1>2, <1>3, GiveBackStep

LEMMA EnteredStep ==
  ASSUME LeaseInv, NEW s \in Session, Entered(s)
  PROVE  /\ Clocks' /\ Issued' /\ Phases' /\ Deadlines'
         /\ OneUser' /\ EndedUnused'
<1> USE DEF LeaseInv
<1>1. /\ task[s].pc = "entered"
      /\ UNCHANGED <<clock, lease, requests, reply, binding, mail>>
  BY DEF Entered
<1>2. /\ task'[s].pc \in {"playing", "abandoning"}
      /\ task'[s].sent = task[s].sent
      /\ task'[s].generation = task[s].generation
      /\ \A t \in Session \ {s} : task'[t] = task[t]
  <2>1. \E pc \in {"playing", "abandoning"} : task' = [task EXCEPT ![s].pc = pc]
    BY DEF Entered
  <2> QED
    BY <2>1, Functions DEF Task
<1>3. /\ renewal'[s].state \in {"off", "waiting"}
      /\ renewal'[s].state # "off" => task'[s].pc = "playing"
      /\ renewal'[s].sent \in {renewal[s].sent, task[s].sent}
      /\ \A t \in Session \ {s} : renewal'[t] = renewal[t]
  <2>1. renewal[s].state = "off"
    BY <1>1 DEF Phases, PhaseOf
  <2>2. CASE renewal' = renewal
    BY <2>1, <2>2
  <2>3. CASE /\ renewal' = [renewal EXCEPT ![s] =
                  [state |-> "waiting", sent |-> task[s].sent,
                   deadline |-> task[s].deadline]]
             /\ task' = [task EXCEPT ![s].pc = "playing"]
    BY <2>3, Functions DEF Task
  <2> QED
    BY <2>2, <2>3 DEF Entered
<1>4. PhaseOf(s)'
  BY <1>1, <1>2, <1>3 DEF Phases, PhaseOf
<1>5. DeadlinesOf(s)'
  BY <1>1, <1>2, <1>3 DEF Deadlines, DeadlinesOf, Phases, PhaseOf, Backed
<1>6. \A g \in Nat :
        /\ Uses(s, g)' => Uses(s, g)
        /\ Names(s, g)' => Names(s, g)
        /\ Ending(g)' => Ending(g)
  BY <1>1, <1>2 DEF Uses, Names, GrantedTo, BoundTo, Ending
<1>7. /\ task'[s].sent <= clock
      /\ renewal'[s].sent <= clock
      /\ task'[s].generation <= lease.generation
      /\ binding'[s].generation <= lease.generation
  BY <1>1, <1>2, <1>3 DEF Clocks, Issued
<1> QED
  BY <1>1, <1>2, <1>3, <1>4, <1>5, <1>6, <1>7, LocalStep

LEMMA ActivationStep ==
  ASSUME LeaseInv, NEW s \in Session, Activation(s)
  PROVE  /\ Clocks' /\ Issued' /\ Phases' /\ Deadlines'
         /\ OneUser' /\ EndedUnused'
  BY BackToRoster, AdmitHeldStep, LeaseGrantedStep, StopForReconnectStep,
     ReconnectSavedStep, EnterRestoredStep, EnteredStep, AbandonAdmissionStep
  DEF Activation

(* The supervisor sends, extends and ends; a note it queues is backed.     *)
LEMMA SupervisorStep ==
  ASSUME LeaseInv, NEW s \in Session, Supervisor(s)
  PROVE  /\ Clocks' /\ Issued' /\ Phases' /\ Deadlines'
         /\ OneUser' /\ EndedUnused'
<1> USE DEF LeaseInv
<1>1. /\ UNCHANGED <<clock, lease, task, reply, binding>>
      /\ renewal[s].state # "off"
  BY DEF Supervisor, SendRenew, RenewalExtends, RenewalEnds
<1>2. /\ task[s].pc = "playing"
      /\ \A r \in requests' :
           r \notin requests =>
             /\ r.op = "renew"
             /\ r.session = s
             /\ r.generation = task[s].generation
             /\ r.generation <= lease.generation
      /\ \A r \in requests' : r.op \in {"supersede", "release"} => r \in requests
  <2>1. task[s].pc = "playing"
    BY <1>1 DEF Phases, PhaseOf
  <2> QED
    BY <2>1 DEF Supervisor, SendRenew, RenewalExtends, RenewalEnds, Send,
                NewRequest, Issued
<1>3. /\ renewal'[s].sent \in {renewal[s].sent, clock, 0}
      /\ renewal'[s].state # "ok"
      /\ \A t \in Session \ {s} : renewal'[t] = renewal[t]
  <2>1. CASE SendRenew(s)
    BY <2>1, Functions DEF SendRenew, Renewal
  <2>2. CASE RenewalExtends(s)
    BY <2>2, Functions DEF RenewalExtends, Renewal
  <2>3. CASE RenewalEnds(s)
    BY <2>3, Functions DEF RenewalEnds, NoRenewal
  <2> QED
    BY <2>1, <2>2, <2>3 DEF Supervisor
<1>4. /\ \A t \in Session \ {s} : mail'[t] = mail[t]
      /\ binding[s].status # "none" =>
           \A i \in DOMAIN mail'[s] :
             mail'[s][i].kind = "deadline" =>
               Backed(binding[s].generation, mail'[s][i].at)
  <2>1. CASE mail' = mail
    BY <2>1 DEF Deadlines, DeadlinesOf
  <2>2. ASSUME NEW m \in Message, mail' = [mail EXCEPT ![s] = Append(@, m)],
               binding[s].status # "none" /\ m.kind = "deadline" =>
                 Backed(binding[s].generation, m.at)
        PROVE  <1>4
    <3>1. mail[s] \in Seq(Message) /\ mail'[s] = Append(mail[s], m)
      BY <2>2, Functions
    <3>2. \A i \in DOMAIN mail'[s] :
            \/ i \in DOMAIN mail[s] /\ mail'[s][i] = mail[s][i]
            \/ mail'[s][i] = m
      BY <3>1
    <3> QED
      BY <2>2, <3>2, Functions DEF Deadlines, DeadlinesOf
  <2>3. CASE SendRenew(s)
    BY <2>1, <2>3 DEF SendRenew
  <2>4. CASE RenewalEnds(s)
    <3> DEFINE m == [kind |-> "lose", at |-> 0]
    <3>1. m \in Message /\ m.kind # "deadline"
      BY DEF Message
    <3>2. mail' = [mail EXCEPT ![s] = Append(@, m)]
      BY <2>4 DEF RenewalEnds
    <3> HIDE DEF m
    <3> QED
      BY <2>2, <3>1, <3>2
  <2>5. CASE RenewalExtends(s)
    <3> DEFINE m == [kind |-> "deadline", at |-> FromRequest(renewal[s].sent)]
    <3>1. m \in Message
      BY Numbers DEF Message, FromRequest
    <3>2. binding[s].status # "none" => Backed(binding[s].generation, m.at)
      BY <2>5 DEF Deadlines, DeadlinesOf, RenewalExtends
    <3>3. mail' = mail \/ mail' = [mail EXCEPT ![s] = Append(@, m)]
      BY <2>5 DEF RenewalExtends, NoteDeadline
    <3> HIDE DEF m
    <3> QED
      BY <2>1, <2>2, <3>1, <3>2, <3>3
  <2> QED
    BY <2>3, <2>4, <2>5 DEF Supervisor
<1>5. PhaseOf(s)'
  BY <1>1, <1>2 DEF Phases, PhaseOf
<1>6. DeadlinesOf(s)'
  BY <1>1, <1>3, <1>4 DEF Deadlines, DeadlinesOf, Backed
<1>7. \A g \in Nat :
        /\ Uses(s, g)' => Uses(s, g)
        /\ Names(s, g)' => Names(s, g)
        /\ Ending(g)' => Ending(g)
  BY <1>1, <1>2 DEF Uses, Names, GrantedTo, BoundTo, Ending
<1>8. /\ task'[s].sent <= clock
      /\ renewal'[s].sent <= clock
      /\ task'[s].generation <= lease.generation
      /\ binding'[s].generation <= lease.generation
  BY <1>1, <1>3, Numbers DEF Clocks, Issued
<1> QED
  BY <1>1, <1>2, <1>3, <1>4, <1>5, <1>6, <1>7, <1>8, LocalStep

LEMMA DrainMailStep ==
  ASSUME LeaseInv, NEW s \in Session, DrainMail(s)
  PROVE  /\ Clocks' /\ Issued' /\ Phases' /\ Deadlines'
         /\ OneUser' /\ EndedUnused'
<1> USE DEF LeaseInv
<1>1. /\ UNCHANGED <<clock, lease, requests, task, reply, renewal>>
      /\ mail[s] # <<>>
      /\ mail[s] \in Seq(Message)
      /\ mail'[s] = Tail(mail[s])
      /\ \A t \in Session \ {s} : mail'[t] = mail[t]
  BY Functions DEF DrainMail
<1>2. /\ 1 \in DOMAIN mail[s]
      /\ Head(mail[s]) = mail[s][1]
      /\ mail[s][1] \in Message
      /\ \A i \in DOMAIN mail'[s] :
           i + 1 \in DOMAIN mail[s] /\ mail'[s][i] = mail[s][i + 1]
  BY <1>1
<1>3. /\ \A t \in Session \ {s} : binding'[t] = binding[t]
      /\ binding'[s].generation = binding[s].generation
      /\ binding'[s].status # "none" => binding[s].status # "none"
      /\ \/ binding'[s].deadline = binding[s].deadline
         \/ /\ mail[s][1].kind = "deadline"
            /\ binding'[s].deadline = mail[s][1].at
  <2>1. CASE binding' = binding
    BY <2>1
  <2>2. CASE /\ binding[s].status # "none"
             /\ binding' = [binding EXCEPT ![s].status = "lost"]
    BY <2>2, Functions DEF Binding
  <2>3. CASE /\ binding[s].status # "none"
             /\ mail[s][1].kind # "lose"
             /\ binding' = [binding EXCEPT ![s].deadline = mail[s][1].at]
    <3>1. mail[s][1].kind = "deadline"
      BY <1>2, <2>3 DEF Message
    <3> QED
      BY <2>3, <3>1, Functions DEF Binding
  <2> QED
    BY <1>2, <2>1, <2>2, <2>3 DEF DrainMail
<1>4. PhaseOf(s)'
  BY <1>1, <1>3 DEF Phases, PhaseOf
<1>5. DeadlinesOf(s)'
  <2>1. DeadlinesOf(s)
    BY DEF Deadlines
  <2> QED
    BY <1>1, <1>2, <1>3, <2>1 DEF DeadlinesOf, Backed
<1>6. \A g \in Nat :
        /\ Uses(s, g)' => Uses(s, g)
        /\ Names(s, g)' => Names(s, g)
        /\ Ending(g)' => Ending(g)
  BY <1>1, <1>3 DEF Uses, Names, GrantedTo, BoundTo, Ending
<1>7. /\ task'[s].sent <= clock
      /\ renewal'[s].sent <= clock
      /\ task'[s].generation <= lease.generation
      /\ binding'[s].generation <= lease.generation
  BY <1>1, <1>3 DEF Clocks, Issued
<1> QED
  BY <1>1, <1>3, <1>4, <1>5, <1>6, <1>7, LocalStep

(* Work in World: the binding keeps its generation and its deadline or     *)
(* goes, nothing is ended, and the task rests, disconnects or is gone.     *)
LEMMA WorldStep ==
  ASSUME LeaseInv, NEW s \in Session,
         UNCHANGED <<clock, lease, reply, mail>>,
         \A t \in Session \ {s} :
           UNCHANGED <<task[t], binding[t], renewal[t]>>,
         \/ binding'[s] = NoBinding
         \/ binding'[s] = binding[s]
         \/ /\ binding[s].status # "none"
            /\ binding'[s].generation = binding[s].generation
            /\ binding'[s].deadline = binding[s].deadline,
         \A r \in requests' :
           r \notin requests =>
             /\ r.op \in {"save", "snapshot"}
             /\ r.session = s
             /\ r.generation = binding[s].generation,
         \/ UNCHANGED <<task[s], renewal[s]>>
         \/ /\ task[s].pc \in {"leaving", "detaching"}
            /\ task'[s] = [NoTask EXCEPT !.pc = "gone"]
            /\ UNCHANGED renewal[s]
         \/ /\ task[s].pc = "playing"
            /\ task'[s].pc \in {"leaving", "detaching"}
            /\ UNCHANGED <<task[s].generation, task[s].sent>>
            /\ renewal'[s] = NoRenewal
  PROVE  /\ Clocks' /\ Issued' /\ Phases' /\ Deadlines'
         /\ OneUser' /\ EndedUnused'
<1> USE DEF LeaseInv
<1>1. \/ UNCHANGED <<task[s], renewal[s]>>
      \/ /\ task[s].pc \in {"leaving", "detaching"}
         /\ task'[s].pc = "gone"
         /\ task'[s].generation = 0
         /\ task'[s].sent = 0
         /\ UNCHANGED renewal[s]
      \/ /\ task[s].pc = "playing"
         /\ task'[s].pc \in {"leaving", "detaching"}
         /\ UNCHANGED <<task[s].generation, task[s].sent>>
         /\ renewal'[s].state = "off"
         /\ renewal'[s].sent = 0
  BY DEF NoTask, NoRenewal
<1>2. PhaseOf(s)'
  BY <1>1 DEF Phases, PhaseOf, NoBinding
<1>3. DeadlinesOf(s)'
  <2>1. DeadlinesOf(s) /\ PhaseOf(s)
    BY DEF Deadlines, Phases
  <2> QED
    BY <1>1, <2>1 DEF DeadlinesOf, PhaseOf, Backed, NoBinding
<1>4. \A g \in Nat :
        /\ Uses(s, g)' => Uses(s, g)
        /\ Names(s, g)' => Names(s, g)
  BY <1>1 DEF Uses, Names, GrantedTo, BoundTo, NoBinding
<1>5. \A g \in Nat : Ending(g)' => Ending(g)
  BY <1>1 DEF Ending
<1>6. /\ task'[s].sent <= clock
      /\ renewal'[s].sent <= clock
      /\ task'[s].generation <= lease.generation
      /\ binding'[s].generation <= lease.generation
      /\ binding[s].generation <= lease.generation
  BY <1>1, Numbers DEF Clocks, Issued, NoBinding
<1> QED
  BY <1>2, <1>3, <1>4, <1>5, <1>6, LocalStep

LEMMA PlayStep ==
  ASSUME LeaseInv, NEW s \in Session, Play(s)
  PROVE  /\ Clocks' /\ Issued' /\ Phases' /\ Deadlines'
         /\ OneUser' /\ EndedUnused'
<1> USE DEF LeaseInv
<1>1. CASE DrainMail(s)
  BY <1>1, DrainMailStep
<1>2. CASE BeginDurable(s) \/ FinishDurable(s) \/ RequestSave(s)
  <2>1. UNCHANGED <<clock, lease, task, reply, renewal, mail>>
    BY <1>2 DEF BeginDurable, FinishDurable, RequestSave
  <2>2. /\ \A t \in Session \ {s} : binding'[t] = binding[t]
        /\ \/ binding'[s] = NoBinding
           \/ binding'[s] = binding[s]
           \/ /\ binding[s].status # "none"
              /\ binding'[s].generation = binding[s].generation
              /\ binding'[s].deadline = binding[s].deadline
    <3>1. CASE BeginDurable(s)
      BY <3>1, Functions DEF BeginDurable, AcceptsInput, Binding
    <3>2. CASE FinishDurable(s)
      BY <3>2, Functions DEF FinishDurable, LeaveWorld, Binding
    <3>3. CASE RequestSave(s)
      BY <3>3 DEF RequestSave
    <3> QED
      BY <1>2, <3>1, <3>2, <3>3
  <2>3. \A r \in requests' :
          r \notin requests =>
            /\ r.op \in {"save", "snapshot"}
            /\ r.session = s
            /\ r.generation = binding[s].generation
    BY <1>2 DEF BeginDurable, FinishDurable, RequestSave, LeaveWorld, Send,
                NewRequest
  <2> QED
    BY <2>1, <2>2, <2>3, WorldStep
<1> QED
  BY <1>1, <1>2 DEF Play

(* A logout that saves ends the generation its binding had alone.          *)
LEMMA LogoutSavesStep ==
  ASSUME LeaseInv, NEW s \in Session,
         task[s].pc = "leaving",
         binding[s].status = "live",
         binding' = [binding EXCEPT ![s] = NoBinding],
         Send(NewRequest("save", s, binding[s].character,
                         binding[s].generation)),
         task' = [task EXCEPT ![s].pc = "logout_save"],
         UNCHANGED <<clock, lease, reply, renewal, mail>>
  PROVE  /\ Clocks' /\ Issued' /\ Phases' /\ Deadlines'
         /\ OneUser' /\ EndedUnused'
<1> USE DEF LeaseInv
<1>0. PICK g \in Nat : g = binding[s].generation
  BY Numbers
<1>1. /\ task[s].generation = g
      /\ reply[s].kind # "granted"
      /\ renewal[s].state = "off"
  BY <1>0 DEF Phases, PhaseOf
<1>2. /\ task'[s].pc = "logout_save"
      /\ task'[s].generation = g
      /\ task'[s].sent = task[s].sent
      /\ \A t \in Session \ {s} : task'[t] = task[t]
      /\ binding'[s] = NoBinding
      /\ \A t \in Session \ {s} : binding'[t] = binding[t]
  BY <1>1, Functions DEF Task
<1>3. \A r \in requests' :
        r \notin requests =>
          r.op = "save" /\ r.session = s /\ r.generation = g
  BY <1>0 DEF Send, NewRequest
<1>4. PhaseOf(s)'
  BY <1>1, <1>2, <1>3 DEF Phases, PhaseOf, NoBinding
<1>5. DeadlinesOf(s)'
  BY <1>1, <1>2 DEF DeadlinesOf, NoBinding
<1>6. \A h \in Nat : ~Uses(s, h)' /\ ~Names(s, h)'
  BY <1>1, <1>2 DEF Uses, Names, GrantedTo, BoundTo, NoBinding
<1>7. \A t \in Session : ~Uses(t, g)'
  <2>1. \A t \in Session \ {s} : Uses(t, g)' => Uses(t, g)
    BY <1>2 DEF Uses, GrantedTo, BoundTo
  <2>2. Names(s, g)
    BY <1>0 DEF Names, BoundTo
  <2>3. \A t \in Session : Uses(t, g) => t = s
    BY <2>2 DEF OneUser
  <2> QED
    BY <1>6, <2>1, <2>3
<1>8. \A h \in Nat : Ending(h)' => Ending(h) \/ h = g
  BY <1>2, <1>3 DEF Ending
<1>9. /\ task'[s].sent <= clock
      /\ renewal'[s].sent <= clock
      /\ g <= lease.generation
      /\ binding'[s].generation <= lease.generation
  BY <1>0, <1>2, Numbers DEF Clocks, Issued, NoBinding
<1> QED
  BY <1>2, <1>3, <1>4, <1>5, <1>6, <1>7, <1>8, <1>9, LocalStep

LEMMA LogoutStep ==
  ASSUME LeaseInv, NEW s \in Session, Logout(s) \/ Disconnect(s)
  PROVE  /\ Clocks' /\ Issued' /\ Phases' /\ Deadlines'
         /\ OneUser' /\ EndedUnused'
<1> USE DEF LeaseInv
<1>g. Leave(s, "gone") =>
        /\ task'[s] = [NoTask EXCEPT !.pc = "gone"]
        /\ \A t \in Session \ {s} : task'[t] = task[t]
  BY Functions DEF Leave
<1>1. CASE Disconnect(s)
  <2>1. \E pc \in {"leaving", "detaching"} : task' = [task EXCEPT ![s].pc = pc]
    BY <1>1 DEF Disconnect
  <2>2. /\ task[s].pc = "playing"
        /\ task'[s].pc \in {"leaving", "detaching"}
        /\ task'[s].generation = task[s].generation
        /\ task'[s].sent = task[s].sent
        /\ \A t \in Session \ {s} : task'[t] = task[t]
    BY <1>1, <2>1, Functions DEF Disconnect, Task
  <2>3. /\ renewal'[s] = NoRenewal
        /\ \A t \in Session \ {s} : renewal'[t] = renewal[t]
    BY <1>1, Functions DEF Disconnect
  <2>4. UNCHANGED <<clock, lease, requests, reply, binding, mail>>
    BY <1>1 DEF Disconnect
  <2> QED
    BY <2>2, <2>3, <2>4, WorldStep
<1>2. CASE PrepareLogout(s)
  <2>1. task[s].pc = "leaving" /\ UNCHANGED <<clock, lease, reply, renewal, mail>>
    BY <1>2 DEF PrepareLogout
  <2>2. CASE /\ binding[s].status = "live"
             /\ binding' = [binding EXCEPT ![s] = NoBinding]
             /\ Send(NewRequest("save", s, binding[s].character,
                                binding[s].generation))
             /\ task' = [task EXCEPT ![s].pc = "logout_save"]
    BY <2>1, <2>2, LogoutSavesStep
  <2>3. CASE /\ Leave(s, "gone")
             /\ UNCHANGED requests
             /\ \/ UNCHANGED binding
                \/ /\ binding[s].status # "none"
                   /\ binding' = [binding EXCEPT ![s].durable = "detach"]
                \/ binding' = [binding EXCEPT ![s] = NoBinding]
    <3>1. /\ \A t \in Session \ {s} : binding'[t] = binding[t]
          /\ \/ binding'[s] = NoBinding
             \/ binding'[s] = binding[s]
             \/ /\ binding[s].status # "none"
                /\ binding'[s].generation = binding[s].generation
                /\ binding'[s].deadline = binding[s].deadline
      BY <2>3, Functions DEF Binding
    <3> QED
      BY <1>g, <2>1, <2>3, <3>1, WorldStep
  <2> QED
    BY <1>2, <2>2, <2>3 DEF PrepareLogout
<1>3. CASE LogoutSaved(s)
  <2>0. PICK g \in Nat : g = task[s].generation
    BY Numbers
  <2>1. /\ task[s].pc = "logout_save"
        /\ reply'[s].kind # "granted"
        /\ \A t \in Session \ {s} : reply'[t] = reply[t]
        /\ UNCHANGED <<clock, lease, binding, renewal, mail>>
    BY <1>3, ReceivesEffect DEF LogoutSaved
  <2>2. /\ task'[s].pc = "logout_release"
        /\ task'[s].generation = g /\ task'[s].sent = task[s].sent
        /\ \A t \in Session \ {s} : task'[t] = task[t]
    BY <1>3, <2>0, Functions DEF LogoutSaved, Task
  <2>3. \A r \in requests' :
          r \notin requests =>
            r.op = "release" /\ r.session = s /\ r.generation = g
    BY <1>3, <2>0 DEF LogoutSaved, Send, NewRequest
  <2>4. renewal[s].state = "off" /\ binding[s].status = "none"
    BY <2>1 DEF Phases, PhaseOf
  <2>5. PhaseOf(s)'
    BY <2>1, <2>2, <2>3, <2>4 DEF Phases, PhaseOf
  <2>6. DeadlinesOf(s)'
    BY <2>1, <2>2, <2>4 DEF DeadlinesOf
  <2>7. \A h \in Nat : ~Uses(s, h)' /\ ~Names(s, h)'
    BY <2>1, <2>2, <2>4 DEF Uses, Names, GrantedTo, BoundTo
  <2>8. \A h \in Nat : Ending(h)' => Ending(h) \/ h = g
    BY <2>2, <2>3 DEF Ending
  <2>9. \A t \in Session : ~Uses(t, g)'
    <3>1. \A t \in Session : ~Uses(t, g)
      BY <2>0, <2>1 DEF EndedUnused, Ending
    <3> QED
      BY <2>1, <2>2, <2>7, <3>1 DEF Uses, GrantedTo, BoundTo
  <2>10. /\ task'[s].sent <= clock
         /\ renewal'[s].sent <= clock
         /\ g <= lease.generation
         /\ binding'[s].generation <= lease.generation
    BY <2>0, <2>1, <2>2 DEF Clocks, Issued
  <2> QED
    BY <2>1, <2>2, <2>3, <2>5, <2>6, <2>7, <2>8, <2>9, <2>10, LocalStep
<1>4. CASE LogoutUnsaved(s) \/ LogoutReleased(s)
  <2>1. /\ task[s].pc \in {"logout_save", "logout_release"}
        /\ reply'[s].kind # "granted"
        /\ \A t \in Session \ {s} : reply'[t] = reply[t]
        /\ UNCHANGED <<clock, lease, requests, binding, renewal, mail>>
        /\ Leave(s, "gone")
    BY <1>4, ReceivesEffect DEF LogoutUnsaved, LogoutReleased
  <2>2. renewal[s].state = "off"
    BY <2>1 DEF Phases, PhaseOf
  <2> QED
    BY <2>1, <2>2, RestStep DEF Pc
<1>5. CASE Detach(s)
  <2>1. /\ task[s].pc = "detaching"
        /\ Leave(s, "gone")
        /\ UNCHANGED <<clock, lease, reply, renewal, mail>>
    BY <1>5 DEF Detach
  <2>2. /\ \A t \in Session \ {s} : binding'[t] = binding[t]
        /\ \/ binding'[s] = NoBinding
           \/ binding'[s] = binding[s]
           \/ /\ binding[s].status # "none"
              /\ binding'[s].generation = binding[s].generation
              /\ binding'[s].deadline = binding[s].deadline
    BY <1>5, Functions DEF Detach, LeaveWorld, Binding
  <2>3. \A r \in requests' :
          r \notin requests =>
            /\ r.op \in {"save", "snapshot"}
            /\ r.session = s
            /\ r.generation = binding[s].generation
    BY <1>5 DEF Detach, LeaveWorld, Send, NewRequest
  <2> QED
    BY <1>g, <2>1, <2>2, <2>3, WorldStep
<1> QED
  BY <1>1, <1>2, <1>3, <1>4, <1>5 DEF Logout

LEMMA ProcessStep ==
  ASSUME LeaseInv, NEW p \in Process,
         ChannelStops(p) \/ LoseAllAuthority(p) \/ Crash(p)
  PROVE  /\ Clocks' /\ Issued' /\ Phases' /\ Deadlines'
         /\ OneUser' /\ EndedUnused'
<1> USE DEF LeaseInv
<1>1. /\ UNCHANGED <<clock, lease, requests>>
      /\ \A s \in Session :
           \/ /\ UNCHANGED <<task[s], reply[s], renewal[s], mail[s]>>
              /\ binding'[s].generation = binding[s].generation
              /\ binding'[s].deadline = binding[s].deadline
              /\ binding'[s].status # "none" => binding[s].status # "none"
           \/ /\ task'[s].pc = "gone"
              /\ task'[s].generation = 0
              /\ task'[s].sent = 0
              /\ reply'[s].kind # "granted"
              /\ renewal'[s].state = "off"
              /\ renewal'[s].sent = 0
              /\ binding'[s].status = "none"
              /\ binding'[s].generation = 0
  <2>1. CASE ChannelStops(p)
    BY <2>1 DEF ChannelStops
  <2>2. CASE LoseAllAuthority(p)
    <3>1. ASSUME NEW s \in Session
          PROVE  /\ UNCHANGED <<task[s], reply[s], renewal[s], mail[s]>>
                 /\ binding'[s].generation = binding[s].generation
                 /\ binding'[s].deadline = binding[s].deadline
                 /\ binding'[s].status # "none" => binding[s].status # "none"
      BY <2>2, Functions DEF LoseAllAuthority, Binding
    <3> QED
      BY <2>2, <3>1 DEF LoseAllAuthority
  <2>3. CASE Crash(p)
    BY <2>3 DEF Crash, NoTask, NoReply, Simple, NoBinding, NoRenewal
  <2> QED
    BY <2>1, <2>2, <2>3
<1>2. Clocks'
  BY <1>1, Numbers DEF Clocks
<1>3. Issued'
  BY <1>1, Numbers DEF Issued
<1>4. Phases'
  BY <1>1 DEF Phases, PhaseOf
<1>5. Deadlines'
  BY <1>1 DEF Deadlines, DeadlinesOf, Backed
<1>6. \A s \in Session, g \in Nat :
        /\ Uses(s, g)' => Uses(s, g)
        /\ Names(s, g)' => Names(s, g)
  BY <1>1 DEF Uses, Names, GrantedTo, BoundTo
<1>7. \A g \in Nat : Ending(g)' => Ending(g)
  BY <1>1 DEF Ending
<1>8. OneUser' /\ EndedUnused'
  BY <1>6, <1>7 DEF OneUser, EndedUnused
<1> QED
  BY <1>2, <1>3, <1>4, <1>5, <1>8

LEMMA TickStep ==
  ASSUME LeaseInv, Tick
  PROVE  /\ Clocks' /\ Issued' /\ Phases' /\ Deadlines'
         /\ OneUser' /\ EndedUnused'
<1> USE Numbers DEF LeaseInv
<1>1. /\ clock' = clock + 1
      /\ UNCHANGED <<lease, requests, task, reply, binding, renewal, mail>>
  BY DEF Tick
<1>2. Clocks'
  BY <1>1 DEF Clocks
<1>3. Issued' /\ Phases' /\ EndedUnused' /\ OneUser'
  BY <1>1 DEF Issued, Phases, PhaseOf, EndedUnused, OneUser, Ending, Uses,
              Names, GrantedTo, BoundTo
<1>4. Deadlines'
  <2>1. \A g \in Nat, d \in Nat : Backed(g, d) => Backed(g, d)'
    BY <1>1 DEF Backed
  <2> QED
    BY <1>1, <2>1, Notes DEF Deadlines, DeadlinesOf, FromRequest
<1> QED
  BY <1>2, <1>3, <1>4

LEMMA InvInit == Init => LeaseInv
<1> SUFFICES ASSUME Init PROVE LeaseInv
  OBVIOUS
<1>1. TypeOK
  BY TypeInit
<1>2. Clocks
  BY LeaseAssumption DEF Init, Clocks, NoTask, NoRenewal, LeaseAssumption
<1>3. Issued /\ Phases
  BY DEF Init, Issued, Phases, PhaseOf, NoTask, NoBinding, NoReply, Simple,
         NoRenewal
<1>4. Deadlines
  BY DEF Init, Deadlines, DeadlinesOf, NoTask, NoBinding, NoReply, Simple
<1>5. OneUser /\ EndedUnused
  BY DEF Init, OneUser, EndedUnused, Ending, Uses, Names, GrantedTo, BoundTo,
         NoTask, NoBinding, NoReply, Simple
<1> QED
  BY <1>1, <1>2, <1>3, <1>4, <1>5 DEF LeaseInv

LEMMA InvStep == LeaseInv /\ [Next]_vars => LeaseInv'
<1> SUFFICES ASSUME LeaseInv, [Next]_vars PROVE LeaseInv'
  OBVIOUS
<1>1. TypeOK'
  BY TypeStep DEF LeaseInv
<1>2. CASE UNCHANGED vars
  <2>1. Clocks' /\ Issued'
    BY <1>2 DEF vars, LeaseInv, Clocks, Issued
  <2>2. Phases' /\ Deadlines'
    BY <1>2 DEF vars, LeaseInv, Phases, PhaseOf, Deadlines, DeadlinesOf, Backed
  <2>3. OneUser' /\ EndedUnused'
    BY <1>2 DEF vars, LeaseInv, OneUser, EndedUnused, Ending, Uses, Names,
                GrantedTo, BoundTo
  <2> QED
    BY <1>1, <2>1, <2>2, <2>3 DEF LeaseInv
<1>3. CASE Next
  <2>1. /\ Clocks' /\ Issued' /\ Phases' /\ Deadlines'
        /\ OneUser' /\ EndedUnused'
    BY <1>3, TickStep, WorkerStep, SendAdmitStep, ActivationStep,
       SupervisorStep, PlayStep, LogoutStep, ProcessStep
    DEF Next
  <2> QED
    BY <1>1, <2>1 DEF LeaseInv
<1> QED
  BY <1>2, <1>3

LEMMA Invariance == Spec => []LeaseInv
  BY InvInit, InvStep, PTL DEF Spec

(* Whoever accepts input does so under the generation of the row.          *)
LEMMA InputUnderTheRow ==
  ASSUME LeaseInv, NEW s \in Session, AcceptsInput(s)
  PROVE  binding[s].generation = lease.generation /\ BoundTo(s, lease.generation)
  BY Numbers
  DEF LeaseInv, AcceptsInput, StillAuthorizes, Deadlines, DeadlinesOf, Backed,
      BoundTo

(* Two sessions never both accept input, for any number of sessions and    *)
(* processes and any expiry.                                               *)
THEOREM AuthorityIsSingle == Spec => []SingleAuthority
<1>1. LeaseInv => SingleAuthority
  <2> SUFFICES ASSUME LeaseInv, NEW s \in Session, NEW t \in Session,
                      AcceptsInput(s), AcceptsInput(t)
               PROVE  s = t
    BY DEF SingleAuthority
  <2>1. BoundTo(s, lease.generation) /\ BoundTo(t, lease.generation)
    BY InputUnderTheRow
  <2> QED
    BY <2>1, Numbers DEF LeaseInv, OneUser, Uses, Names
<1> QED
  BY <1>1, Invariance, PTL
-----------------------------------------------------------------------------
(***************************************************************************)
(* The leases implement FencedLease.                                       *)
(***************************************************************************)
SomeoneAccepts == \E s \in Session : AcceptsInput(s)

(* The holder is nobody or the generation of the row.                      *)
HolderIsRow == Holder = IF SomeoneAccepts THEN lease.generation ELSE 0

LEMMA HolderIs == LeaseInv => HolderIsRow
<1> USE DEF HolderIsRow
<1> SUFFICES ASSUME LeaseInv
             PROVE  Holder = IF SomeoneAccepts THEN lease.generation ELSE 0
  OBVIOUS
<1>1. CASE SomeoneAccepts
  <2> DEFINE h == CHOOSE s \in Session : AcceptsInput(s)
  <2>1. h \in Session /\ AcceptsInput(h)
    BY <1>1 DEF SomeoneAccepts
  <2>2. binding[h].generation = lease.generation
    <3> HIDE DEF h
    <3> QED
      BY <2>1, InputUnderTheRow
  <2> QED
    BY <1>1, <2>2 DEF Holder, SomeoneAccepts
<1>2. CASE ~SomeoneAccepts
  BY <1>2 DEF Holder, SomeoneAccepts
<1> QED
  BY <1>1, <1>2

LEMMA HolderIsNext ==
  LeaseInv' => Holder' = IF SomeoneAccepts' THEN lease'.generation ELSE 0
<1>1. LeaseInv' => HolderIsRow'
  BY HolderIs, PTL
<1> QED
  BY <1>1 DEF HolderIsRow

(* While the generation and the stored rows stay, the holder can only come *)
(* or go.                                                                  *)
LEMMA HolderMoves ==
  ASSUME LeaseInv, LeaseInv', lease'.generation = lease.generation,
         UNCHANGED stored
  PROVE  [Fenced!Next]_(Fenced!vars)
<1>1. /\ Holder \in {0, lease.generation}
      /\ Holder' \in {0, lease.generation}
  BY HolderIs, HolderIsNext DEF HolderIsRow
<1>2. CASE Holder' = Holder
  BY <1>2 DEF Fenced!vars
<1>3. CASE Holder = 0 /\ Holder' = lease.generation
  BY <1>3 DEF Fenced!Next, Fenced!Take
<1>4. CASE Holder' = 0
  BY <1>4 DEF Fenced!Next, Fenced!Drop
<1> QED
  BY <1>1, <1>2, <1>3, <1>4

(* A generation is issued at a moment when no session accepts input.       *)
LEMMA IssueWhenNobody ==
  ASSUME LeaseInv, LeaseInv',
         \A s \in Session, g \in Nat, d \in Nat :
           Uses(s, g) /\ Backed(g, d) => d <= clock,
         lease'.generation = lease.generation + 1,
         UNCHANGED <<clock, binding, stored>>
  PROVE  Fenced!Issue
<1>1. ~SomeoneAccepts
  <2> SUFFICES ASSUME NEW s \in Session, AcceptsInput(s) PROVE FALSE
    BY DEF SomeoneAccepts
  <2>1. /\ binding[s].generation \in Nat
        /\ binding[s].deadline \in Nat
        /\ clock \in Nat
    BY Numbers DEF LeaseInv
  <2>2. /\ Uses(s, binding[s].generation)
        /\ Backed(binding[s].generation, binding[s].deadline)
    BY DEF AcceptsInput, Uses, BoundTo, LeaseInv, Deadlines, DeadlinesOf
  <2>3. binding[s].deadline <= clock
    BY <2>1, <2>2
  <2> QED
    BY <2>1, <2>3 DEF AcceptsInput, StillAuthorizes
<1>2. ~SomeoneAccepts'
  BY <1>1 DEF SomeoneAccepts, AcceptsInput, StillAuthorizes
<1>3. Holder = 0 /\ Holder' = 0
  BY <1>1, <1>2, HolderIs, HolderIsNext DEF HolderIsRow
<1> QED
  BY <1>3 DEF Fenced!Issue

LEMMA WorkerImplements ==
  ASSUME LeaseInv, LeaseInv', NEW r \in requests, Worker(r)
  PROVE  [Fenced!Next]_(Fenced!vars)
<1> USE DEF LeaseInv
<1>1. CASE Admit(r) \/ Supersede(r)
  <2>1. UNCHANGED <<clock, binding, stored>>
    BY <1>1 DEF Admit, Supersede
  <2>2. CASE UNCHANGED lease
    BY <2>1, <2>2, HolderMoves
  <2>3. CASE /\ Admit(r)
             /\ lease.expires_at <= clock
             /\ lease' = [generation |-> lease.generation + 1,
                          character |-> r.character,
                          expires_at |-> FromRequest(clock)]
    <3>1. \A s \in Session, g \in Nat, d \in Nat :
            Uses(s, g) /\ Backed(g, d) => d <= clock
      BY <2>3, Numbers DEF Backed
    <3>2. Fenced!Issue
      BY <2>1, <2>3, <3>1, IssueWhenNobody
    <3> QED
      BY <3>2 DEF Fenced!Next
  <2>4. CASE /\ Supersede(r)
             /\ LiveLease(r)
             /\ lease' = [generation |-> lease.generation + 1,
                          character |-> r.character,
                          expires_at |-> FromRequest(clock)]
    <3>1. r.op = "supersede" /\ r.generation = lease.generation
      BY <2>4 DEF Supersede, TakeRequest, LiveLease
    <3>2. \A s \in Session, g \in Nat, d \in Nat :
            Uses(s, g) /\ Backed(g, d) => d <= clock
      BY <3>1, EndingIsOver
    <3>3. Fenced!Issue
      BY <2>1, <2>4, <3>2, IssueWhenNobody
    <3> QED
      BY <3>3 DEF Fenced!Next
  <2>5. CASE Admit(r)
    BY <2>2, <2>3, <2>5 DEF Admit
  <2>6. CASE Supersede(r)
    BY <2>2, <2>4, <2>6 DEF Supersede
  <2> QED
    BY <1>1, <2>5, <2>6
<1>2. CASE Renew(r) \/ Release(r) \/ StorageFails(r)
  <2>1. UNCHANGED stored
    BY <1>2 DEF Renew, Release, StorageFails
  <2>2. lease'.generation = lease.generation
    BY <1>2 DEF Renew, Release, StorageFails, TypeOK
  <2> QED
    BY <2>1, <2>2, HolderMoves
<1>3. CASE SaveLeased(r)
  <2>1. UNCHANGED <<clock, lease, binding>>
    BY <1>3 DEF SaveLeased
  <2>2. UNCHANGED Holder
    <3>1. SomeoneAccepts' <=> SomeoneAccepts
      BY <2>1 DEF SomeoneAccepts, AcceptsInput, StillAuthorizes
    <3> QED
      BY <2>1, <3>1, HolderIs, HolderIsNext DEF HolderIsRow
  <2>3. CASE UNCHANGED stored
    BY <2>1, <2>3, HolderMoves
  <2>4. CASE LiveLease(r) /\ stored' = Saved(r.character, r.generation)
    <3>1. r.character \in Character
      BY DEF TypeOK, Request
    <3>2. CASE stored' = [stored EXCEPT ![r.character] =
                            Append(@, lease.generation)]
      <4>1. Fenced!Write(r.character)
        BY <2>1, <2>2, <3>2 DEF Fenced!Write
      <4> QED
        BY <3>1, <4>1 DEF Fenced!Next
    <3> QED
      BY <2>3, <2>4, <3>2 DEF Saved, LiveLease
  <2> QED
    BY <1>3, <2>3, <2>4 DEF SaveLeased
<1> QED
  BY <1>1, <1>2, <1>3 DEF Worker

LEMMA FencedInit == Init => Fenced!Init
<1> SUFFICES ASSUME Init PROVE Fenced!Init
  OBVIOUS
<1>1. Holder = 0
  BY DEF Init, Holder, AcceptsInput, NoBinding
<1> QED
  BY <1>1 DEF Init, Fenced!Init

LEMMA FencedStep ==
  LeaseInv /\ LeaseInv' /\ [Next]_vars => [Fenced!Next]_(Fenced!vars)
<1> SUFFICES ASSUME LeaseInv, LeaseInv', [Next]_vars
             PROVE  [Fenced!Next]_(Fenced!vars)
  OBVIOUS
<1>1. ASSUME NEW r \in requests, Worker(r)
      PROVE  [Fenced!Next]_(Fenced!vars)
  BY <1>1, WorkerImplements
<1>2. CASE UNCHANGED <<lease, stored>>
  BY <1>2, HolderMoves
<1>3. CASE UNCHANGED vars
  BY <1>2, <1>3 DEF vars
<1>4. CASE Tick \/ \E p \in Process : \/ ChannelStops(p) \/ LoseAllAuthority(p)
                                      \/ Crash(p)
  BY <1>2, <1>4 DEF Tick, ChannelStops, LoseAllAuthority, Crash
<1>5. ASSUME NEW s \in Session, NEW c \in Character, SendAdmit(s, c)
      PROVE  UNCHANGED <<lease, stored>>
  BY <1>5 DEF SendAdmit
<1>6. ASSUME NEW s \in Session, Activation(s)
      PROVE  UNCHANGED <<lease, stored>>
  BY <1>6 DEF Activation, AdmitRejected, AdmitHeld, LeaseGranted,
              StopForReconnect, ReconnectSaved, ReconnectFailed,
              EnterRestored, Entered, AbandonAdmission, Released
<1>7. ASSUME NEW s \in Session, Supervisor(s) \/ Play(s)
      PROVE  UNCHANGED <<lease, stored>>
  BY <1>7 DEF Supervisor, SendRenew, RenewalExtends, RenewalEnds, Play,
              DrainMail, BeginDurable, FinishDurable, RequestSave
<1>8. ASSUME NEW s \in Session, Logout(s) \/ Disconnect(s)
      PROVE  UNCHANGED <<lease, stored>>
  BY <1>8 DEF Logout, PrepareLogout, LogoutSaved, LogoutUnsaved,
              LogoutReleased, Detach,
              Disconnect
<1> QED
  BY <1>1, <1>2, <1>3, <1>4, <1>5, <1>6, <1>7, <1>8 DEF Next

(* The lease protocol implements its abstract specification: authority     *)
(* passes only through a moment when nobody has it, a generation is issued *)
(* only in such a moment, and only the last one issued writes.             *)
THEOREM ImplementsFencedLease == Spec => FencedSpec
<1>1. Spec => Fenced!Init
  BY FencedInit DEF Spec
<1>2. Spec => [][Fenced!Next]_(Fenced!vars)
  BY Invariance, FencedStep, PTL DEF Spec
<1> QED
  BY <1>1, <1>2, PTL DEF FencedSpec, Fenced!Spec
-----------------------------------------------------------------------------
(***************************************************************************)
(* A stopped channel, and the character a session was restored from.       *)
(***************************************************************************)

(* After LoseAllAuthority nothing of the process is live.                  *)
Silenced ==
  \A s \in Session :
    channel[ProcessOf[s]] = "stopped" => binding[s].status # "live"

(* A task waits for at most one answer, and what it asked for is what it   *)
(* waits for.                                                              *)
AskedOf(s) ==
  LET asked == {r \in requests :
                  r.session = s /\ r.op \in {"admit", "supersede", "release", "save"}}
  IN  task[s].pc # "gone" =>
        /\ \A r \in asked :
             /\ Awaited(r) /\ reply[s].kind = "none"
             /\ r.op \in {"admit", "supersede"} => r.character = task[s].character
        /\ \A q, r \in asked : q = r
        /\ reply[s].kind # "none" =>
             task[s].pc \in {"admit", "superseding", "releasing", "saving",
                             "logout_save", "logout_release"}

Asked == \A s \in Session : AskedOf(s)

(* Generation g loaded c with n entries.  As long as the row names g, only *)
(* g has written c since.                                                  *)
Follows(c, g, n) ==
  g = lease.generation =>
    \A i \in DOMAIN stored[c] : i > n => stored[c][i] = g

(* Session s holds character c, loaded for generation g with n entries.    *)
Loaded(s, c, g, n) ==
  \/ /\ reply[s].kind = "granted"
     /\ c = task[s].character /\ g = reply[s].generation /\ n = reply[s].seen
  \/ /\ task[s].pc = "entering"
     /\ c = task[s].character /\ g = task[s].generation /\ n = task[s].seen
  \/ /\ binding[s].status # "none"
     /\ c = binding[s].character /\ g = binding[s].generation
     /\ n = binding[s].seen

Followed ==
  \A s \in Session, c \in Character, g, n \in Nat :
    Loaded(s, c, g, n) => Follows(c, g, n)

(* Only an admission makes a binding live, and none does once the channel  *)
(* has stopped.                                                            *)
LEMMA SilencedStep ==
  ASSUME TypeOK, Silenced, [Next]_vars
  PROVE  Silenced'
<1> DEFINE Kept(s) == binding'[s].status = "live" => binding[s].status = "live"
<1>f. binding \in [Session -> Binding] /\ channel \in [Process -> {"live", "stopping", "stopped"}]
  BY DEF TypeOK
<1>k. ASSUME UNCHANGED channel, \A s \in Session : Kept(s)
      PROVE  Silenced'
  BY <1>k DEF Silenced
<1>n. NoBinding.status = "none"
  BY DEF NoBinding
<1>1. CASE UNCHANGED <<binding, channel>>
  BY <1>1 DEF Silenced
<1>2. ASSUME NEW p \in Process, ChannelStops(p)
      PROVE  Silenced'
  BY <1>2, <1>f, LeaseAssumption DEF ChannelStops, Silenced, LeaseAssumption
<1>3. ASSUME NEW p \in Process, LoseAllAuthority(p)
      PROVE  Silenced'
  BY <1>3, <1>f, LeaseAssumption
  DEF LoseAllAuthority, Silenced, LeaseAssumption, Binding
<1>4. ASSUME NEW p \in Process, Crash(p)
      PROVE  Silenced'
  BY <1>4, <1>f, <1>n, LeaseAssumption DEF Crash, Silenced, LeaseAssumption
<1>5. ASSUME NEW s \in Session, EnterRestored(s)
      PROVE  Silenced'
  <2>1. \A t \in Session : t # s => binding'[t] = binding[t]
    BY <1>5, <1>f DEF EnterRestored
  <2>2. UNCHANGED channel
    BY <1>5 DEF EnterRestored
  <2>3. channel[ProcessOf[s]] = "stopped" => binding'[s] = binding[s]
    BY <1>5, <1>f DEF EnterRestored
  <2> QED
    BY <2>1, <2>2, <2>3 DEF Silenced
<1>6. ASSUME NEW s \in Session, StopForReconnect(s) \/ AbandonAdmission(s)
      PROVE  Silenced'
  <2>1. UNCHANGED channel
    BY <1>6 DEF StopForReconnect, AbandonAdmission
  <2>2. \/ UNCHANGED binding
        \/ \E o \in Session : binding' = [binding EXCEPT ![o] = NoBinding]
    BY <1>6 DEF StopForReconnect, AbandonAdmission, Occupants
  <2> QED
    BY <2>1, <2>2, <1>f, <1>n, <1>k
<1>7. ASSUME NEW s \in Session,
             DrainMail(s) \/ BeginDurable(s) \/ FinishDurable(s)
      PROVE  Silenced'
  <2>1. UNCHANGED channel
    BY <1>7 DEF DrainMail, BeginDurable, FinishDurable
  <2>2. \A t \in Session : Kept(t)
    BY <1>7, <1>f, <1>n
    DEF DrainMail, BeginDurable, FinishDurable, LeaveWorld, Binding
  <2> QED
    BY <2>1, <2>2, <1>k
<1>8. ASSUME NEW s \in Session, PrepareLogout(s) \/ Detach(s)
      PROVE  Silenced'
  <2>1. UNCHANGED channel
    BY <1>8 DEF PrepareLogout, Detach
  <2>2. \A t \in Session : Kept(t)
    BY <1>8, <1>f, <1>n DEF PrepareLogout, Detach, LeaveWorld, Binding
  <2> QED
    BY <2>1, <2>2, <1>k
<1>9. ASSUME NEW r \in requests, Worker(r)
      PROVE  UNCHANGED <<binding, channel>>
  BY <1>9 DEF Worker, Admit, Supersede, Renew, Release, SaveLeased, StorageFails
<1>10. ASSUME NEW s \in Session, NEW c \in Character,
              SendAdmit(s, c) \/ Supervisor(s) \/ Disconnect(s)
       PROVE  UNCHANGED <<binding, channel>>
  BY <1>10 DEF SendAdmit, Supervisor, SendRenew, RenewalExtends, RenewalEnds,
               Disconnect
<1>11. ASSUME NEW s \in Session,
              \/ AdmitRejected(s) \/ AdmitHeld(s) \/ LeaseGranted(s)
              \/ ReconnectSaved(s) \/ ReconnectFailed(s) \/ Entered(s)
              \/ Released(s) \/ RequestSave(s) \/ LogoutSaved(s) \/ LogoutUnsaved(s)
              \/ LogoutReleased(s)
       PROVE  UNCHANGED <<binding, channel>>
  BY <1>11 DEF AdmitRejected, AdmitHeld, LeaseGranted, ReconnectSaved,
               ReconnectFailed, Entered, Released, RequestSave, LogoutSaved,
               LogoutUnsaved, LogoutReleased
<1>12. SomeCharacter \in Character
  BY SomeCharacterType
<1> QED
  BY <1>1, <1>2, <1>3, <1>4, <1>5, <1>6, <1>7, <1>8, <1>9, <1>10, <1>11, <1>12
  DEF Next, vars, Tick, Activation, Play, Logout

(* A process that has lost its channel never applies input again, whatever *)
(* admissions were under way when it stopped.                              *)
THEOREM StoppedMeansSilent == Spec => []StoppedChannelAcceptsNothing
<1>1. Init => Silenced
  BY DEF Init, Silenced, NoBinding
<1>2. TypeOK /\ Silenced /\ [Next]_vars => Silenced'
  BY SilencedStep
<1>3. Silenced => StoppedChannelAcceptsNothing
  BY DEF Silenced, StoppedChannelAcceptsNothing, AcceptsInput
<1> QED
  BY <1>1, <1>2, <1>3, TypeCorrect, PTL DEF Spec

(* A step about one session leaves what the others wait for.               *)
LEMMA AskedRest ==
  ASSUME TypeOK, Asked, NEW s \in Session,
         \A t \in Session \ {s} : task'[t] = task[t] /\ reply'[t] = reply[t],
         \A r \in requests' : r \notin requests => r.session = s,
         AskedOf(s)'
  PROVE  Asked'
<1> SUFFICES ASSUME NEW t \in Session, t # s PROVE AskedOf(t)'
  BY DEF Asked
<1>1. AskedOf(t)
  BY DEF Asked
<1>2. \A r \in requests' : r.session = t => r \in requests
  OBVIOUS
<1> QED
  BY <1>1, <1>2 DEF AskedOf, Awaited

(* What AskedOf says of one request.                                       *)
LEMMA AskedIs ==
  ASSUME TypeOK, Asked, NEW r \in requests, NEW s \in Session, r.session = s,
         r.op \in {"admit", "supersede", "release", "save"},
         task[s].pc # "gone"
  PROVE  /\ Awaited(r) /\ reply[s].kind = "none"
         /\ r.op \in {"admit", "supersede"} => r.character = task[s].character
         /\ \A q \in requests :
              q.session = s /\ q.op \in {"admit", "supersede", "release", "save"} => q = r
  BY DEF Asked, AskedOf

(* The transactions: a request is taken away and its answer delivered.     *)
LEMMA AskedWorker ==
  ASSUME TypeOK, Asked, NEW r \in requests, Worker(r)
  PROVE  Asked'
<1> DEFINE s == r.session
<1>1. s \in Session
  BY Numbers
<1>2. UNCHANGED task /\ requests' = requests \ {r}
  BY DEF Worker, Admit, Supersede, Renew, Release, SaveLeased, StorageFails,
         TakeRequest
<1>3. \/ UNCHANGED reply
      \/ \E rep : Answer(r, rep)
  BY DEF Worker, Admit, Supersede, Renew, Release, SaveLeased, StorageFails
<1>4. \A t \in Session :
        reply'[t] = reply[t] \/ (t = s /\ Awaited(r))
  BY <1>1, <1>3, AnswerEffect
<1>5. AskedOf(s)'
  <2> SUFFICES ASSUME task[s].pc # "gone" PROVE AskedOf(s)'
    BY <1>2 DEF AskedOf
  <2>1. AskedOf(s)
    BY <1>1 DEF Asked
  <2>2. CASE reply'[s] = reply[s]
    BY <1>2, <2>1, <2>2 DEF AskedOf, Awaited
  <2>3. CASE Awaited(r)
    <3>1. r.op \in {"admit", "supersede", "release", "save"}
      BY <2>3 DEF Awaited
    <3>2. \A q \in requests' :
            q.session = s => q.op \notin {"admit", "supersede", "release", "save"}
      BY <1>1, <1>2, <3>1, AskedIs
    <3>3. task[s].pc \in {"admit", "superseding", "releasing", "saving",
                          "logout_save", "logout_release"}
      BY <2>3 DEF Awaited
    <3> QED
      BY <1>2, <3>2, <3>3 DEF AskedOf
  <2> QED
    BY <1>1, <1>4, <2>2, <2>3
<1> QED
  BY <1>1, <1>2, <1>4, <1>5, AskedRest

(* A task that waits for nothing asks for something, or asks for nothing.  *)
LEMMA AskedAsks ==
  ASSUME TypeOK, Asked, NEW s \in Session,
         \A r \in requests :
           r.session = s => r.op \notin {"admit", "supersede", "release", "save"},
         reply'[s].kind = "none",
         \A t \in Session \ {s} : task'[t] = task[t] /\ reply'[t] = reply[t],
         \A q, r \in requests' : q \notin requests /\ r \notin requests => q = r,
         \A r \in requests' : r \notin requests =>
           /\ r.session = s
           /\ r.op \in {"admit", "supersede", "release", "save"} =>
                /\ Awaited(r)' \/ task'[s].pc = "gone"
                /\ r.op \in {"admit", "supersede"} =>
                     r.character = task'[s].character
  PROVE  Asked'
<1>1. AskedOf(s)'
  BY DEF AskedOf
<1> QED
  BY <1>1, AskedRest

(* A task whose reply has come waits for nothing else.                     *)
LEMMA AskedAnswered ==
  ASSUME TypeOK, Asked, NEW s \in Session,
         \/ reply[s].kind # "none"
         \/ task[s].pc \notin {"admit", "superseding", "releasing", "saving",
                               "logout_save", "logout_release"},
         task[s].pc # "gone"
  PROVE  \A r \in requests :
           r.session = s => r.op \notin {"admit", "supersede", "release", "save"}
  BY AskedIs DEF Awaited

(* A reply that waits is for a task that awaits it.                        *)
LEMMA AskedRests ==
  ASSUME TypeOK, Asked, NEW s \in Session,
         task[s].pc \notin {"admit", "superseding", "releasing", "saving",
                            "logout_save", "logout_release", "gone"}
  PROVE  reply[s].kind = "none"
  BY DEF Asked, AskedOf

(* The steps of a connection's task, and of what follows it.               *)
LEMMA AskedActivation ==
  ASSUME LeaseInv, Asked, NEW s \in Session,
         Activation(s) \/ \E c \in Character : SendAdmit(s, c)
  PROVE  Asked'
<1> USE DEF LeaseInv
<1>f. task \in [Session -> Task] /\ reply \in [Session -> Reply]
  BY DEF TypeOK
<1>n. NoReply.kind = "none" /\ NoTask.pc = "out"
  BY DEF NoReply, Simple, NoTask
<1>1. ASSUME NEW c \in Character, SendAdmit(s, c)
      PROVE  Asked'
  <2> DEFINE q == NewRequest("admit", s, c, 0)
  <2>0. task[s].pc = "out" /\ UNCHANGED reply /\ requests' = requests \cup {q}
    BY <1>1 DEF SendAdmit, Send
  <2>5. /\ \A t \in Session \ {s} : task'[t] = task[t]
        /\ task'[s].pc = "admit" /\ task'[s].character = c
    <3> DEFINE t1 == [task EXCEPT ![s].pc = "admit"]
               t2 == [t1 EXCEPT ![s].character = c]
    <3>1. /\ t1 \in [Session -> Task] /\ t1[s].pc = "admit"
          /\ \A t \in Session \ {s} : t1[t] = task[t]
      BY <1>f DEF Task, Pc
    <3> HIDE DEF t1
    <3>2. /\ t2 \in [Session -> Task] /\ t2[s].pc = "admit" /\ t2[s].character = c
          /\ \A t \in Session \ {s} : t2[t] = task[t]
      BY <3>1 DEF Task
    <3>3. task' = [t2 EXCEPT ![s].sent = clock]
      BY <1>1 DEF SendAdmit, t1
    <3> HIDE DEF t2
    <3> QED
      BY <3>2, <3>3 DEF Task
  <2>1. /\ task[s].pc = "out" /\ UNCHANGED reply
        /\ \A t \in Session \ {s} : task'[t] = task[t]
        /\ task'[s].pc = "admit" /\ task'[s].character = c
        /\ requests' = requests \cup {q}
    BY <2>0, <2>5
  <2>2. q.op = "admit" /\ q.session = s /\ q.character = c
    BY DEF NewRequest
  <2> HIDE DEF q
  <2>3. reply[s].kind = "none"
    BY <2>1, AskedRests
  <2>4. Awaited(q)'
    BY <2>1, <2>2 DEF Awaited
  <2> QED
    BY <2>1, <2>2, <2>3, <2>4, AskedAnswered, AskedAsks
<1>2. ASSUME AdmitRejected(s) \/ ReconnectFailed(s) \/ Released(s)
      PROVE  Asked'
  <2>1. /\ reply[s].kind # "none" /\ task[s].pc # "gone"
        /\ \A t \in Session \ {s} : task'[t] = task[t] /\ reply'[t] = reply[t]
        /\ reply'[s].kind = "none" /\ UNCHANGED requests
    BY <1>2, <1>f, <1>n
    DEF AdmitRejected, ReconnectFailed, Released, Receives, Leave
  <2> QED
    BY <2>1, AskedAnswered, AskedAsks
<1>3. ASSUME AdmitHeld(s)
      PROVE  Asked'
  <2>1. /\ reply[s].kind # "none" /\ task[s].pc # "gone"
        /\ \A t \in Session \ {s} : task'[t] = task[t] /\ reply'[t] = reply[t]
        /\ reply'[s].kind = "none" /\ UNCHANGED requests
    BY <1>3, <1>f, <1>n DEF AdmitHeld, Receives
  <2> QED
    BY <2>1, AskedAnswered, AskedAsks
<1>4. ASSUME NEW g, ReleaseUnused(s, g), task[s].pc # "gone",
             \/ reply[s].kind # "none"
             \/ task[s].pc \notin {"admit", "superseding", "releasing", "saving",
                                   "logout_save", "logout_release"},
             reply'[s].kind = "none",
             \A t \in Session \ {s} : reply'[t] = reply[t]
      PROVE  Asked'
  <2>0. PICK q : q = NewRequest("release", s, task[s].character, g)
    OBVIOUS
  <2>1. /\ \A t \in Session \ {s} : task'[t] = task[t]
        /\ task'[s].pc = "releasing"
        /\ requests' = requests \cup {q}
    BY <1>4, <1>f, <2>0 DEF ReleaseUnused, Send, Task
  <2>2. q.op = "release" /\ q.session = s
    BY <2>0 DEF NewRequest
  <2>3. Awaited(q)'
    BY <2>1, <2>2 DEF Awaited
  <2> QED
    BY <1>4, <2>1, <2>2, <2>3, AskedAnswered, AskedAsks
<1>5. ASSUME LeaseGranted(s)
      PROVE  Asked'
  <2>1. /\ reply[s].kind # "none" /\ task[s].pc # "gone"
        /\ \A t \in Session \ {s} : reply'[t] = reply[t]
        /\ reply'[s].kind = "none"
    BY <1>5, <1>f, <1>n DEF LeaseGranted, Receives
  <2>2. CASE ReleaseUnused(s, reply[s].generation)
    BY <1>4, <2>1, <2>2
  <2>3. CASE UNCHANGED requests /\ \A t \in Session \ {s} : task'[t] = task[t]
    BY <2>1, <2>3, AskedAnswered, AskedAsks
  <2>4. \/ ReleaseUnused(s, reply[s].generation)
        \/ UNCHANGED requests /\ \A t \in Session \ {s} : task'[t] = task[t]
    BY <1>5, <1>f DEF LeaseGranted
  <2> QED
    BY <2>2, <2>3, <2>4
<1>6. ASSUME StopForReconnect(s)
      PROVE  Asked'
  <2>1. task[s].pc = "held" /\ UNCHANGED reply /\ reply[s].kind = "none"
    BY <1>6, AskedRests DEF StopForReconnect
  <2>2. CASE Leave(s, "out") /\ UNCHANGED requests
    <3>1. \A t \in Session \ {s} : task'[t] = task[t]
      BY <2>2, <1>f DEF Leave
    <3> QED
      BY <2>1, <2>2, <3>1, AskedAnswered, AskedAsks
  <2>3. ASSUME NEW g, Send(NewRequest("save", s, task[s].character, g)),
               task' = [task EXCEPT ![s].pc = "saving", ![s].generation = g]
        PROVE  Asked'
    <3>0. PICK q : q = NewRequest("save", s, task[s].character, g)
      OBVIOUS
    <3>1. /\ \A t \in Session \ {s} : task'[t] = task[t]
          /\ task'[s].pc = "saving"
          /\ requests' = requests \cup {q}
      BY <2>3, <1>f, <3>0 DEF Send, Task
    <3>2. q.op = "save" /\ q.session = s
      BY <3>0 DEF NewRequest
    <3>3. Awaited(q)'
      BY <3>1, <3>2 DEF Awaited
    <3> QED
      BY <2>1, <3>1, <3>2, <3>3, AskedAnswered, AskedAsks
  <2> QED
    BY <1>6, <2>2, <2>3 DEF StopForReconnect
<1>7. ASSUME ReconnectSaved(s)
      PROVE  Asked'
  <2>0. PICK q : q = NewRequest("supersede", s, task[s].character,
                                 task[s].generation)
    OBVIOUS
  <2>1. /\ reply[s].kind # "none" /\ task[s].pc # "gone"
        /\ \A t \in Session \ {s} : task'[t] = task[t] /\ reply'[t] = reply[t]
        /\ reply'[s].kind = "none"
        /\ task'[s].pc = "superseding" /\ task'[s].character = task[s].character
        /\ requests' = requests \cup {q}
    BY <1>7, <1>f, <1>n, <2>0 DEF ReconnectSaved, Receives, Send, Task
  <2>2. q.op = "supersede" /\ q.session = s /\ q.character = task'[s].character
    BY <2>0, <2>1 DEF NewRequest
  <2>3. Awaited(q)'
    BY <2>1, <2>2 DEF Awaited
  <2> QED
    BY <2>1, <2>2, <2>3, AskedAnswered, AskedAsks
<1>8. ASSUME EnterRestored(s)
      PROVE  Asked'
  <2>1. task[s].pc = "entering" /\ UNCHANGED reply /\ reply[s].kind = "none"
    BY <1>8, AskedRests DEF EnterRestored
  <2>2. CASE ReleaseUnused(s, task[s].generation)
    BY <1>4, <2>1, <2>2
  <2>3. CASE UNCHANGED requests /\ \A t \in Session \ {s} : task'[t] = task[t]
    BY <2>1, <2>3, AskedAnswered, AskedAsks
  <2>4. \/ ReleaseUnused(s, task[s].generation)
        \/ UNCHANGED requests /\ \A t \in Session \ {s} : task'[t] = task[t]
    BY <1>8, <1>f DEF EnterRestored
  <2> QED
    BY <2>2, <2>3, <2>4
<1>9. ASSUME Entered(s)
      PROVE  Asked'
  <2>1. task[s].pc = "entered" /\ UNCHANGED <<reply, requests>>
        /\ reply[s].kind = "none"
    BY <1>9, AskedRests DEF Entered
  <2>2. \A t \in Session \ {s} : task'[t] = task[t]
    BY <1>9, <1>f DEF Entered
  <2> QED
    BY <2>1, <2>2, AskedAnswered, AskedAsks
<1>10. ASSUME AbandonAdmission(s)
       PROVE  Asked'
  <2>1. task[s].pc = "abandoning" /\ UNCHANGED reply /\ reply[s].kind = "none"
    BY <1>10, AskedRests DEF AbandonAdmission
  <2> QED
    BY <1>4, <1>10, <2>1 DEF AbandonAdmission
<1> QED
  BY <1>1, <1>2, <1>3, <1>5, <1>6, <1>7, <1>8, <1>9, <1>10 DEF Activation

(* A connection that has played asks for nothing but its last save.        *)
LEMMA AskedEnds ==
  ASSUME LeaseInv, Asked, NEW s \in Session, Disconnect(s) \/ Logout(s)
  PROVE  Asked'
<1> USE DEF LeaseInv
<1>f. task \in [Session -> Task] /\ reply \in [Session -> Reply]
  BY DEF TypeOK
<1>n. NoReply.kind = "none"
  BY DEF NoReply, Simple
<1>1. ASSUME task'[s].pc = "gone",
             \A t \in Session \ {s} : task'[t] = task[t] /\ reply'[t] = reply[t],
             \A r \in requests' : r \notin requests => r.session = s
      PROVE  Asked'
  BY <1>1, AskedRest DEF AskedOf
<1>2. ASSUME Disconnect(s)
      PROVE  Asked'
  <2>1. task[s].pc = "playing" /\ UNCHANGED <<reply, requests>>
        /\ reply[s].kind = "none"
    BY <1>2, AskedRests DEF Disconnect
  <2>2. \A t \in Session \ {s} : task'[t] = task[t]
    BY <1>2, <1>f DEF Disconnect
  <2> QED
    BY <2>1, <2>2, AskedAnswered, AskedAsks
<1>3. ASSUME Leave(s, "gone")
      PROVE  task'[s].pc = "gone" /\ \A t \in Session \ {s} : task'[t] = task[t]
  BY <1>3, <1>f DEF Leave, NoTask
<1>4. ASSUME LogoutUnsaved(s) \/ LogoutReleased(s)
      PROVE  Asked'
  <2>1. /\ Leave(s, "gone") /\ UNCHANGED requests
        /\ \A t \in Session \ {s} : reply'[t] = reply[t]
    BY <1>4, <1>f DEF LogoutUnsaved, LogoutReleased, Receives
  <2> QED
    BY <1>1, <1>3, <2>1
<1>7. ASSUME LogoutSaved(s)
      PROVE  Asked'
  <2>0. PICK q : q = NewRequest("release", s, task[s].character,
                                 task[s].generation)
    OBVIOUS
  <2>1. /\ reply[s].kind # "none" /\ task[s].pc # "gone"
        /\ \A t \in Session \ {s} : task'[t] = task[t] /\ reply'[t] = reply[t]
        /\ reply'[s].kind = "none"
        /\ task'[s].pc = "logout_release"
        /\ requests' = requests \cup {q}
    BY <1>7, <1>f, <1>n, <2>0 DEF LogoutSaved, Receives, Send, Task
  <2>2. q.op = "release" /\ q.session = s
    BY <2>0 DEF NewRequest
  <2>3. Awaited(q)'
    BY <2>1, <2>2 DEF Awaited
  <2> QED
    BY <2>1, <2>2, <2>3, AskedAnswered, AskedAsks
<1>5. ASSUME Detach(s)
      PROVE  Asked'
  <2>1. /\ Leave(s, "gone") /\ UNCHANGED reply
        /\ \A r \in requests' : r \notin requests => r.session = s
    BY <1>5 DEF Detach, LeaveWorld, Send, NewRequest
  <2> QED
    BY <1>1, <1>3, <2>1
<1>6. ASSUME PrepareLogout(s)
      PROVE  Asked'
  <2>1. task[s].pc = "leaving" /\ UNCHANGED reply /\ reply[s].kind = "none"
    BY <1>6, AskedRests DEF PrepareLogout
  <2>2. CASE Leave(s, "gone") /\ UNCHANGED requests
    BY <1>1, <1>3, <2>1, <2>2
  <2>0. PICK q : q = NewRequest("save", s, binding[s].character,
                                 binding[s].generation)
    OBVIOUS
  <2>3. CASE Send(q) /\ task' = [task EXCEPT ![s].pc = "logout_save"]
    <3>1. /\ \A t \in Session \ {s} : task'[t] = task[t]
          /\ task'[s].pc = "logout_save"
          /\ requests' = requests \cup {q}
      BY <2>3, <1>f DEF Send, Task
    <3>2. q.op = "save" /\ q.session = s
      BY <2>0 DEF NewRequest
    <3>3. Awaited(q)'
      BY <3>1, <3>2 DEF Awaited
    <3> QED
      BY <2>1, <3>1, <3>2, <3>3, AskedAnswered, AskedAsks
  <2> QED
    BY <1>6, <2>0, <2>2, <2>3 DEF PrepareLogout
<1> QED
  BY <1>2, <1>4, <1>5, <1>6, <1>7 DEF Logout

(* What happens in a World, to a renewal and to a process asks for         *)
(* snapshots and renewals, for which no task waits.                        *)
LEMMA AskedOthers ==
  ASSUME TypeOK, Asked,
         \/ Tick \/ UNCHANGED vars
         \/ \E s \in Session : Supervisor(s) \/ Play(s)
         \/ \E p \in Process : ChannelStops(p) \/ LoseAllAuthority(p) \/ Crash(p)
  PROVE  Asked'
<1>1. ASSUME UNCHANGED <<task, reply>>,
             \A r \in requests' : r \notin requests => r.op \in {"renew", "snapshot"}
      PROVE  Asked'
  <2> SUFFICES ASSUME NEW s \in Session PROVE AskedOf(s)'
    BY DEF Asked
  <2>1. AskedOf(s)
    BY DEF Asked
  <2>2. \A r \in requests' :
          r.op \in {"admit", "supersede", "release", "save"} => r \in requests
    BY <1>1
  <2> QED
    BY <1>1, <2>1, <2>2 DEF AskedOf, Awaited
<1>2. ASSUME NEW s \in Session, Supervisor(s) \/ Play(s)
      PROVE  Asked'
  <2>1. UNCHANGED <<task, reply>>
    BY <1>2 DEF Supervisor, SendRenew, RenewalExtends, RenewalEnds, Play,
                DrainMail, BeginDurable, FinishDurable, RequestSave
  <2>2. \A r \in requests' : r \notin requests => r.op \in {"renew", "snapshot"}
    BY <1>2 DEF Supervisor, SendRenew, RenewalExtends, RenewalEnds, Play,
                DrainMail, BeginDurable, FinishDurable, RequestSave, LeaveWorld,
                Send, NewRequest
  <2> QED
    BY <1>1, <2>1, <2>2
<1>3. ASSUME NEW p \in Process, Crash(p)
      PROVE  Asked'
  <2> SUFFICES ASSUME NEW s \in Session PROVE AskedOf(s)'
    BY DEF Asked
  <2>1. CASE ProcessOf[s] = p
    BY <1>3, <2>1 DEF Crash, AskedOf
  <2>2. CASE ProcessOf[s] # p
    <3>1. task'[s] = task[s] /\ reply'[s] = reply[s] /\ UNCHANGED requests
      BY <1>3, <2>2 DEF Crash
    <3> QED
      BY <3>1 DEF Asked, AskedOf, Awaited
  <2> QED
    BY <2>1, <2>2
<1>4. CASE \/ Tick \/ UNCHANGED vars
           \/ \E p \in Process : ChannelStops(p) \/ LoseAllAuthority(p)
  <2>1. UNCHANGED <<task, reply, requests>>
    BY <1>4 DEF Tick, vars, ChannelStops, LoseAllAuthority
  <2> QED
    BY <1>1, <2>1
<1> QED
  BY <1>2, <1>3, <1>4

LEMMA AskedStep == LeaseInv /\ Asked /\ [Next]_vars => Asked'
<1> SUFFICES ASSUME LeaseInv, Asked, [Next]_vars PROVE Asked'
  OBVIOUS
<1> QED
  BY AskedWorker, AskedActivation, AskedEnds, AskedOthers DEF Next, LeaseInv

(* What the row and the stored entries do in a step.                       *)
LEMMA FollowsStep ==
  ASSUME LeaseInv, [Next]_vars, NEW c \in Character, NEW g \in Nat, NEW n \in Nat,
         g <= lease.generation, Follows(c, g, n)
  PROVE  Follows(c, g, n)'
<1> USE DEF LeaseInv
<1>1. CASE UNCHANGED stored /\ lease'.generation = lease.generation
  BY <1>1 DEF Follows
<1>2. CASE lease'.generation = lease.generation + 1
  BY <1>2, Numbers DEF Follows
<1>3. ASSUME NEW r \in requests, Admit(r) \/ Supersede(r)
      PROVE  UNCHANGED stored /\ \/ UNCHANGED lease
                                 \/ lease'.generation = lease.generation + 1
  BY <1>3 DEF Admit, Supersede
<1>4. ASSUME NEW r \in requests, Renew(r) \/ Release(r) \/ StorageFails(r)
      PROVE  UNCHANGED stored /\ lease'.generation = lease.generation
  BY <1>4 DEF Renew, Release, StorageFails, TypeOK
<1>5. ASSUME NEW r \in requests, SaveLeased(r)
      PROVE  Follows(c, g, n)'
  <2>1. UNCHANGED lease
    BY <1>5 DEF SaveLeased
  <2>2. CASE UNCHANGED stored
    BY <1>1, <2>1, <2>2
  <2>3. CASE stored' = [stored EXCEPT ![r.character] = Append(@, r.generation)]
             /\ LiveLease(r)
    <3>1. /\ stored[c] \in Seq(Nat) /\ stored \in [Character -> Seq(Nat)]
          /\ r.generation \in Nat
      BY Numbers DEF TypeOK
    <3>2. CASE c # r.character
      BY <2>1, <2>3, <3>1, <3>2 DEF Follows
    <3>3. CASE c = r.character
      <4>1. stored'[c] = Append(stored[c], r.generation)
        BY <2>3, <3>1, <3>3
      <4>2. \A i \in DOMAIN stored'[c] :
              \/ i \in DOMAIN stored[c] /\ stored'[c][i] = stored[c][i]
              \/ stored'[c][i] = r.generation
        BY <3>1, <4>1
      <4> QED
        BY <2>1, <2>3, <4>2 DEF Follows, LiveLease
    <3> QED
      BY <3>2, <3>3
  <2> QED
    BY <1>5, <2>2, <2>3 DEF SaveLeased, Saved
<1>6. CASE UNCHANGED <<lease, stored>>
  BY <1>1, <1>6
<1>7. CASE Tick \/ UNCHANGED vars \/ \E p \in Process : \/ ChannelStops(p)
                                      \/ LoseAllAuthority(p) \/ Crash(p)
  BY <1>6, <1>7 DEF Tick, vars, ChannelStops, LoseAllAuthority, Crash
<1>8. ASSUME NEW s \in Session, NEW d \in Character, SendAdmit(s, d)
      PROVE  UNCHANGED <<lease, stored>>
  BY <1>8 DEF SendAdmit
<1>9. ASSUME NEW s \in Session, Activation(s)
      PROVE  UNCHANGED <<lease, stored>>
  BY <1>9 DEF Activation, AdmitRejected, AdmitHeld, LeaseGranted,
              StopForReconnect, ReconnectSaved, ReconnectFailed,
              EnterRestored, Entered, AbandonAdmission, Released
<1>10. ASSUME NEW s \in Session, Supervisor(s) \/ Play(s)
       PROVE  UNCHANGED <<lease, stored>>
  BY <1>10 DEF Supervisor, SendRenew, RenewalExtends, RenewalEnds, Play,
               DrainMail, BeginDurable, FinishDurable, RequestSave
<1>11. ASSUME NEW s \in Session, Logout(s) \/ Disconnect(s)
       PROVE  UNCHANGED <<lease, stored>>
  BY <1>11 DEF Logout, PrepareLogout, LogoutSaved, LogoutUnsaved,
              LogoutReleased, Detach,
               Disconnect
<1>12. ASSUME NEW r \in requests, Worker(r)
       PROVE  Follows(c, g, n)'
  BY <1>1, <1>2, <1>3, <1>4, <1>5, <1>12 DEF Worker
<1> QED
  BY <1>6, <1>7, <1>8, <1>9, <1>10, <1>11, <1>12 DEF Next

(* A character is loaded in the transaction that takes its lease.          *)
LEMMA LoadedByGrant ==
  ASSUME LeaseInv, Asked, NEW r \in requests, Worker(r),
         NEW s \in Session, NEW c \in Character, NEW g \in Nat, NEW n \in Nat,
         Loaded(s, c, g, n)'
  PROVE  \/ Loaded(s, c, g, n)
         \/ (UNCHANGED stored /\ g = lease'.generation /\ n = Len(stored[c]))
<1> USE DEF LeaseInv
<1>1. UNCHANGED <<task, binding>>
  BY DEF Worker, Admit, Supersede, Renew, Release, SaveLeased, StorageFails
<1>2. CASE reply'[s] = reply[s] \/ reply'[s].kind # "granted"
  BY <1>1, <1>2 DEF Loaded
<1>3. ASSUME NEW rep, Answer(r, rep), rep.kind # "granted"
      PROVE  reply'[s] = reply[s] \/ reply'[s].kind # "granted"
  BY <1>3, AnswerEffect
<1>4. \A k \in {"refused", "held", "ok", "error"} : Simple(k).kind # "granted"
  BY DEF Simple
<1>5. CASE Renew(r) \/ Release(r) \/ SaveLeased(r) \/ StorageFails(r)
  <2>1. UNCHANGED reply \/ \E k \in {"ok", "error"} : Answer(r, Simple(k))
    BY <1>5 DEF Renew, Release, SaveLeased, StorageFails
  <2> QED
    BY <1>2, <1>3, <1>4, <2>1
<1>6. CASE Admit(r) \/ Supersede(r)
  <2>1. r.op \in {"admit", "supersede"} /\ UNCHANGED stored
    BY <1>6 DEF Admit, Supersede, TakeRequest
  <2>2. CASE \E k \in {"refused", "held", "error"} : Answer(r, Simple(k))
    BY <1>2, <1>3, <1>4, <2>2
  <2>3. CASE /\ Answer(r, Granted(lease.generation + 1, r.character))
             /\ lease'.generation = lease.generation + 1
    <3>1. SUFFICES ASSUME reply'[s] # reply[s]
                   PROVE  \/ Loaded(s, c, g, n)
                          \/ /\ UNCHANGED stored
                             /\ g = lease'.generation /\ n = Len(stored[c])
      BY <1>2
    <3>2. /\ s = r.session /\ Awaited(r)
          /\ reply'[s] = Granted(lease.generation + 1, r.character)
      BY <2>3, <3>1, AnswerEffect
    <3>3. task[s].pc # "gone" /\ task[s].pc # "entering"
      BY <3>2 DEF Awaited
    <3>4. r.character = task[s].character
      BY <2>1, <3>2, <3>3, AskedIs
    <3>5. binding[s].status = "none"
      BY <2>1, <3>2 DEF Awaited, Phases, PhaseOf
    <3>6. c = task[s].character /\ g = reply'[s].generation /\ n = reply'[s].seen
      BY <1>1, <3>3, <3>5 DEF Loaded
    <3> QED
      BY <2>1, <2>3, <3>2, <3>4, <3>6 DEF Granted
  <2>4. \/ \E k \in {"refused", "held", "error"} : Answer(r, Simple(k))
        \/ /\ Answer(r, Granted(lease.generation + 1, r.character))
           /\ lease'.generation = lease.generation + 1
    BY <1>6 DEF Admit, Supersede
  <2> QED
    BY <2>2, <2>3, <2>4
<1> QED
  BY <1>5, <1>6 DEF Worker

(* Elsewhere a loaded character only goes from hand to hand.               *)
LEMMA LoadedIsKept ==
  ASSUME LeaseInv, NEW s \in Session, NEW c \in Character, NEW g \in Nat,
         NEW n \in Nat, Loaded(s, c, g, n)',
         [Next]_vars, ~\E r \in requests : Worker(r)
  PROVE  Loaded(s, c, g, n)
<1> USE DEF LeaseInv
<1>f. /\ task \in [Session -> Task] /\ reply \in [Session -> Reply]
      /\ binding \in [Session -> Binding]
  BY DEF TypeOK
<1>n. /\ NoReply.kind = "none" /\ NoTask.pc = "out" /\ NoBinding.status = "none"
      /\ \A pc \in Pc : [NoTask EXCEPT !.pc = pc].pc = pc
  BY DEF NoReply, Simple, NoTask, NoBinding
<1>g. reply[s].kind = "granted" => task[s].pc \in {"admit", "superseding"}
  BY DEF Phases, PhaseOf
<1> DEFINE
      TaskKept == \/ task'[s] = task[s]
                  \/ /\ task'[s].character = task[s].character
                     /\ task'[s].pc # "entering"
                  \/ task'[s].pc # "entering" /\ reply'[s].kind # "granted"
      ReplyKept == reply'[s] = reply[s] \/ reply'[s].kind # "granted"
      BindingKept == \/ binding'[s].status = "none"
                     \/ /\ binding[s].status # "none"
                        /\ binding'[s].character = binding[s].character
                        /\ binding'[s].generation = binding[s].generation
                        /\ binding'[s].seen = binding[s].seen
<1>k. TaskKept /\ ReplyKept /\ BindingKept => Loaded(s, c, g, n)
  BY DEF Loaded
<1>1. CASE UNCHANGED <<task, reply, binding>>
  BY <1>1 DEF Loaded
<1>2. ASSUME NEW t \in Session,
             \/ DrainMail(t) \/ BeginDurable(t) \/ FinishDurable(t)
      PROVE  Loaded(s, c, g, n)
  <2>1. TaskKept /\ ReplyKept
    BY <1>2 DEF DrainMail, BeginDurable, FinishDurable
  <2>6. ASSUME NEW v, \/ binding' = [binding EXCEPT ![t].durable = v]
                      \/ binding' = [binding EXCEPT ![t].deadline = v]
                      \/ /\ binding[t].status # "none"
                         /\ binding' = [binding EXCEPT ![t].status = v]
        PROVE  BindingKept
    BY <2>6, <1>f DEF Binding
  <2>7. ASSUME binding' = [binding EXCEPT ![t] = NoBinding] \/ UNCHANGED binding
        PROVE  BindingKept
    BY <2>7, <1>f, <1>n
  <2>3. ASSUME DrainMail(t)
        PROVE  BindingKept
    BY <2>3, <2>6, <2>7 DEF DrainMail
  <2>4. ASSUME BeginDurable(t)
        PROVE  BindingKept
    BY <2>4, <2>6 DEF BeginDurable
  <2>5. ASSUME FinishDurable(t)
        PROVE  BindingKept
    BY <2>5, <2>6, <2>7 DEF FinishDurable, LeaveWorld
  <2>2. BindingKept
    BY <1>2, <2>3, <2>4, <2>5
  <2> QED
    BY <1>k, <2>1, <2>2
<1>3. ASSUME NEW p \in Process, LoseAllAuthority(p) \/ Crash(p)
      PROVE  Loaded(s, c, g, n)
  <2>1. TaskKept /\ ReplyKept
    BY <1>3, <1>f, <1>n DEF LoseAllAuthority, Crash, NoTask
  <2>2. BindingKept
    BY <1>3, <1>f, <1>n DEF LoseAllAuthority, Crash, Binding
  <2> QED
    BY <1>k, <2>1, <2>2
<1>4. ASSUME NEW t \in Session, PrepareLogout(t) \/ Detach(t)
      PROVE  Loaded(s, c, g, n)
  <2>1. UNCHANGED reply
    BY <1>4 DEF PrepareLogout, Detach
  <2>2. task[t].pc \in {"leaving", "detaching"}
    BY <1>4 DEF PrepareLogout, Detach
  <2>3. TaskKept
    BY <1>4, <1>f, <1>g, <1>n, <2>1, <2>2
    DEF PrepareLogout, Detach, Leave, NoTask, Pc, Task
  <2>4. BindingKept
    BY <1>4, <1>f, <1>n DEF PrepareLogout, Detach, LeaveWorld, Binding
  <2> QED
    BY <1>k, <2>1, <2>3, <2>4
<1>5. ASSUME NEW t \in Session,
             \/ LogoutSaved(t) \/ LogoutUnsaved(t) \/ LogoutReleased(t)
             \/ Disconnect(t)
      PROVE  Loaded(s, c, g, n)
  <2>1. ReplyKept /\ UNCHANGED binding
    BY <1>5, <1>f, <1>n DEF LogoutSaved, LogoutUnsaved, LogoutReleased, Disconnect, Receives
  <2>2. task[t].pc \in {"logout_save", "logout_release", "playing"}
    BY <1>5 DEF LogoutSaved, LogoutUnsaved, LogoutReleased, Disconnect, Receives
  <2>4. reply[t].kind # "granted"
    BY <2>2 DEF Phases, PhaseOf
  <2>5. t # s => task'[s] = task[s]
    BY <1>5, <1>f DEF LogoutSaved, LogoutUnsaved, LogoutReleased, Disconnect, Leave
  <2>6. task'[t].pc # "entering"
    <3>1. CASE Leave(t, "gone")
      BY <3>1, <1>f DEF Leave, NoTask
    <3>2. CASE Disconnect(t)
      BY <3>2, <1>f DEF Disconnect, Task
    <3>3. CASE LogoutSaved(t)
      BY <3>3, <1>f DEF LogoutSaved, Task
    <3> QED
      BY <1>5, <3>1, <3>2, <3>3 DEF LogoutUnsaved, LogoutReleased
  <2>3. TaskKept
    BY <2>1, <2>4, <2>5, <2>6
  <2> QED
    BY <1>k, <2>1, <2>3
<1>6. ASSUME NEW t \in Session, NEW d \in Character, SendAdmit(t, d)
      PROVE  Loaded(s, c, g, n)
  <2>1. UNCHANGED <<reply, binding>> /\ task[t].pc = "out"
    BY <1>6 DEF SendAdmit
  <2>2. t # s => task'[s] = task[s]
    BY <1>6, <1>f DEF SendAdmit
  <2>3. t = s => task'[s].pc = "admit"
    BY <1>6, <1>f DEF SendAdmit, Task
  <2>4. TaskKept
    BY <1>g, <2>1, <2>2, <2>3
  <2> QED
    BY <1>k, <2>1, <2>4
<1>7. ASSUME NEW t \in Session, AdmitRejected(t) \/ ReconnectFailed(t) \/ Released(t)
      PROVE  Loaded(s, c, g, n)
  <2>1. /\ ReplyKept /\ UNCHANGED binding
        /\ t = s => reply'[s].kind # "granted"
    BY <1>7, <1>f, <1>n DEF AdmitRejected, ReconnectFailed, Released, Receives
  <2>2. TaskKept
    BY <1>7, <1>f, <1>n, <2>1
    DEF AdmitRejected, ReconnectFailed, Released, Leave, NoTask, Pc
  <2> QED
    BY <1>k, <2>1, <2>2
<1>8. ASSUME NEW t \in Session, AdmitHeld(t) \/ ReconnectSaved(t)
      PROVE  Loaded(s, c, g, n)
  <2>1. ReplyKept /\ UNCHANGED binding
    BY <1>8, <1>f, <1>n DEF AdmitHeld, ReconnectSaved, Receives
  <2>2. TaskKept
    BY <1>8, <1>f DEF AdmitHeld, ReconnectSaved, Task
  <2> QED
    BY <1>k, <2>1, <2>2
<1>9. ASSUME NEW t \in Session, NEW h, ReleaseUnused(t, h)
      PROVE  TaskKept
  BY <1>9, <1>f DEF ReleaseUnused, Task
<1>10. ASSUME NEW t \in Session, LeaseGranted(t)
       PROVE  Loaded(s, c, g, n)
  <2>1. ReplyKept /\ UNCHANGED binding
    BY <1>10, <1>f, <1>n DEF LeaseGranted, Receives
  <2>2. CASE ReleaseUnused(t, reply[t].generation)
    BY <1>9, <1>k, <2>1, <2>2
  <2>3. CASE t # s
    <3>1. TaskKept
      BY <1>9, <1>10, <1>f, <2>3 DEF LeaseGranted
    <3> QED
      BY <1>k, <2>1, <3>1
  <2>4. CASE t = s /\ task' = [task EXCEPT
                                 ![t].pc = "entering",
                                 ![t].generation = reply[t].generation,
                                 ![t].deadline = FromRequest(task[t].sent),
                                 ![t].seen = reply[t].seen]
    <3> DEFINE t1 == [task EXCEPT ![s].pc = "entering",
                                  ![s].generation = reply[s].generation]
               t2 == [t1 EXCEPT ![s].deadline = FromRequest(task[s].sent)]
    <3>1. /\ t1 \in [Session -> Task] /\ t1[s].character = task[s].character
          /\ t1[s].generation = reply[s].generation
      <4>1. reply[s].generation \in Nat
        BY Numbers
      <4>2. t1 \in [Session -> Task]
        BY <4>1, TaskMoves DEF Pc
      <4> QED
        BY <1>f, <4>2 DEF Task
    <3> HIDE DEF t1
    <3>2. /\ t2 \in [Session -> Task] /\ t2[s].character = task[s].character
          /\ t2[s].generation = reply[s].generation
      BY <3>1, Numbers DEF Task, FromRequest
    <3>3. task' = [t2 EXCEPT ![s].seen = reply[s].seen]
      BY <2>4 DEF t1
    <3> HIDE DEF t2
    <3>4. /\ task'[s].character = task[s].character
          /\ task'[s].generation = reply[s].generation
          /\ task'[s].seen = reply[s].seen
      BY <3>2, <3>3 DEF Task
    <3>5. reply[s].kind = "granted" /\ reply'[s].kind # "granted"
      BY <1>10, <1>f, <1>n, <2>4 DEF LeaseGranted, Receives
    <3> QED
      BY <2>1, <3>4, <3>5 DEF Loaded
  <2> QED
    BY <1>10, <2>2, <2>3, <2>4 DEF LeaseGranted
<1>11. ASSUME NEW t \in Session, StopForReconnect(t)
       PROVE  Loaded(s, c, g, n)
  <2>1. UNCHANGED reply /\ task[t].pc = "held"
    BY <1>11 DEF StopForReconnect
  <2>2. BindingKept
    BY <1>11, <1>f, <1>n DEF StopForReconnect, Occupants, Binding
  <2>3. TaskKept
    BY <1>11, <1>f, <1>g, <1>n, <2>1 DEF StopForReconnect, Leave, NoTask, Task
  <2> QED
    BY <1>k, <2>1, <2>2, <2>3
<1>12. ASSUME NEW t \in Session, EnterRestored(t)
       PROVE  Loaded(s, c, g, n)
  <2>1. UNCHANGED reply /\ task[t].pc = "entering"
    BY <1>12 DEF EnterRestored
  <2>2. CASE ReleaseUnused(t, task[t].generation) /\ UNCHANGED binding
    BY <1>9, <1>k, <2>1, <2>2
  <2>3. CASE /\ task' = [task EXCEPT ![t].pc = "entered"]
             /\ \A o \in Session \ {t} : binding'[o] = binding[o]
             /\ binding'[t].character = task[t].character
             /\ binding'[t].generation = task[t].generation
             /\ binding'[t].seen = task[t].seen
    BY <1>f, <1>g, <2>1, <2>3 DEF Loaded, Task
  <2> QED
    BY <1>12, <1>f, <2>2, <2>3 DEF EnterRestored
<1>13. ASSUME NEW t \in Session, Entered(t)
       PROVE  Loaded(s, c, g, n)
  <2>1. UNCHANGED <<reply, binding>>
    BY <1>13 DEF Entered
  <2>2. TaskKept
    BY <1>13, <1>f DEF Entered, Task
  <2> QED
    BY <1>k, <2>1, <2>2
<1>14. ASSUME NEW t \in Session, AbandonAdmission(t)
       PROVE  Loaded(s, c, g, n)
  <2>1. UNCHANGED reply
    BY <1>14 DEF AbandonAdmission
  <2>2. BindingKept
    BY <1>14, <1>f, <1>n DEF AbandonAdmission
  <2>3. TaskKept
    BY <1>9, <1>14 DEF AbandonAdmission
  <2> QED
    BY <1>k, <2>1, <2>2, <2>3
<1>15. CASE \/ Tick \/ UNCHANGED vars \/ \E p \in Process : ChannelStops(p)
            \/ \E t \in Session : Supervisor(t) \/ RequestSave(t)
  BY <1>1, <1>15 DEF Tick, vars, ChannelStops, Supervisor, SendRenew,
     RenewalExtends, RenewalEnds, RequestSave
<1> QED
  BY <1>2, <1>3, <1>4, <1>5, <1>6, <1>7, <1>8, <1>10, <1>11, <1>12, <1>13,
     <1>14, <1>15
  DEF Next, Activation, Play, Logout

(* A loaded character is of a generation that was issued.                  *)
LEMMA LoadedIssued ==
  ASSUME LeaseInv, NEW s \in Session, NEW c \in Character, NEW g \in Nat,
         NEW n \in Nat, Loaded(s, c, g, n)
  PROVE  g <= lease.generation
  BY DEF LeaseInv, Issued, Loaded

LEMMA FollowedStep ==
  LeaseInv /\ Asked /\ Followed /\ [Next]_vars => Followed'
<1> SUFFICES ASSUME LeaseInv, Asked, Followed, [Next]_vars,
                    NEW s \in Session, NEW c \in Character,
                    NEW g \in Nat, NEW n \in Nat, Loaded(s, c, g, n)'
             PROVE  Follows(c, g, n)'
  BY DEF Followed
<1>1. CASE Loaded(s, c, g, n)
  BY <1>1, LoadedIssued, FollowsStep DEF Followed
<1>2. CASE UNCHANGED stored /\ g = lease'.generation /\ n = Len(stored[c])
  <2>1. stored[c] \in Seq(Nat)
    BY DEF LeaseInv, TypeOK
  <2> QED
    BY <1>2, <2>1 DEF Follows
<1> QED
  BY <1>1, <1>2, LoadedByGrant, LoadedIsKept

(* A session that accepts input plays the stored character: since it was   *)
(* restored, nobody else has written it.                                   *)
THEOREM RestoredIsCurrent == Spec => []RestoreIsCurrent
<1>1. Init => Asked /\ Followed
  <2> SUFFICES ASSUME Init PROVE Asked /\ Followed
    OBVIOUS
  <2>1. Asked
    BY DEF Init, Asked, AskedOf, NoReply, Simple
  <2>2. Followed
    BY DEF Init, Followed, Loaded, NoReply, Simple, NoTask, NoBinding
  <2> QED
    BY <2>1, <2>2
<1>2. LeaseInv /\ Followed => RestoreIsCurrent
  <2> SUFFICES ASSUME LeaseInv, Followed, NEW s \in Session, AcceptsInput(s),
                      NEW i \in DOMAIN stored[binding[s].character],
                      i > binding[s].seen
               PROVE  stored[binding[s].character][i] = binding[s].generation
    BY DEF RestoreIsCurrent
  <2>1. BoundTo(s, lease.generation)
    BY InputUnderTheRow
  <2>2. /\ binding[s].character \in Character /\ binding[s].generation \in Nat
        /\ binding[s].seen \in Nat
    BY DEF LeaseInv, TypeOK, Binding
  <2>3. Loaded(s, binding[s].character, binding[s].generation, binding[s].seen)
    BY <2>1 DEF Loaded, BoundTo
  <2> QED
    BY <2>1, <2>2, <2>3 DEF Followed, Follows, BoundTo
<1> QED
  BY <1>1, <1>2, Invariance, AskedStep, FollowedStep, PTL DEF Spec

=============================================================================
