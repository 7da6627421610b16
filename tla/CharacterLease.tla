---------------------------- MODULE CharacterLease ----------------------------
(***************************************************************************)
(* Login leases of the Purgatory server: how one character of one login    *)
(* gets into the World of one server process, keeps its authority and      *)
(* leaves.                                                                 *)
(*                                                                         *)
(*   - the lease row of the login, and the transactions on it              *)
(*     (crates/persistence/src/lifecycle.rs);                              *)
(*   - the connection task that admits, enters and logs out                *)
(*     (apps/server/src/network/handshake.rs);                             *)
(*   - the renewal supervisor of an entered session                        *)
(*     (apps/server/src/network/lease_clock.rs);                           *)
(*   - the binding GameplayOwner keeps for the session                     *)
(*     (apps/server/src/network/gameplay.rs).                              *)
(*                                                                         *)
(* A lease row is keyed by login and no operation reads the row of another *)
(* login, so the module follows one login.  Database time and the          *)
(* monotonic clock of every process advance together (ClockAssumption in   *)
(* the README).  A request handed to a persistence worker takes effect at  *)
(* any later moment, or never; its answer is read at any moment after.     *)
(***************************************************************************)
EXTENDS Integers, Sequences

CONSTANTS
  Session,        \* client connections; a connection enters the World once
  Process,        \* server processes sharing the database
  ProcessOf,      \* [Session -> Process]
  Character,      \* characters the clients may ask for
  Owned,          \* the roster of the login
  Expiry,         \* CHARACTER_LEASE_EXPIRY
  MaxClock,       \* bound: last instant of the model
  MaxGeneration,  \* bound: lease generations
  MailCap,        \* capacity of the lifecycle queue, per session
  Stoppable,      \* processes whose channel authority may end
  Crashable       \* processes that may crash

ASSUME LeaseAssumption ==
  /\ ProcessOf \in [Session -> Process]
  /\ Character # {}
  /\ Owned \subseteq Character
  /\ Expiry \in Nat \ {0}
  /\ MaxClock \in Nat
  /\ MaxGeneration \in Nat
  /\ MailCap \in Nat
  /\ Stoppable \subseteq Process
  /\ Crashable \subseteq Process

VARIABLES
  clock,     \* the time every clock shows
  lease,     \* the row of character_leases; generation 0 is "no row"
  stored,    \* for every character, the generations that saved it in turn
  requests,  \* requests handed to a persistence worker and not executed
  task,      \* connection task of every session
  reply,     \* answer waiting for the connection task
  binding,   \* PlayerBinding of every session
  renewal,   \* renewal supervisor of every session
  mail,      \* lifecycle messages queued for the session's binding
  channel    \* channel authority of every process

vars == <<clock, lease, stored, requests, task, reply, binding, renewal,
          mail, channel>>
-----------------------------------------------------------------------------
Pc == {"out", "admit", "held", "saving", "superseding", "entering",
       "entered", "abandoning", "releasing", "playing", "leaving",
       "logout_save", "logout_release", "detaching", "gone"}

Op == {"admit", "supersede", "renew", "release", "save", "snapshot"}

Request == [op : Op, session : Session, character : Character,
            generation : Nat]

Task == [pc : Pc, character : Character, generation : Nat, sent : Nat,
         deadline : Nat, seen : Nat]

Reply == [kind : {"none", "granted", "held", "refused", "ok", "error"},
          generation : Nat, seen : Nat]

Binding == [status : {"none", "live", "lost"},
            durable : {"idle", "pending", "detach"},
            character : Character, generation : Nat, deadline : Nat,
            seen : Nat]

Renewal == [state : {"off", "waiting", "sent", "ok", "err"},
            sent : Nat, deadline : Nat]

Message == [kind : {"deadline", "lose"}, at : Nat]

Simple(kind) == [kind |-> kind, generation |-> 0, seen |-> 0]

NoReply == Simple("none")

SomeCharacter == CHOOSE c \in Character : TRUE

NoTask == [pc |-> "out", character |-> SomeCharacter, generation |-> 0,
           sent |-> 0, deadline |-> 0, seen |-> 0]

NoBinding == [status |-> "none", durable |-> "idle",
              character |-> SomeCharacter, generation |-> 0, deadline |-> 0,
              seen |-> 0]

NoRenewal == [state |-> "off", sent |-> 0, deadline |-> 0]

TypeOK ==
  /\ clock \in Nat
  /\ lease \in [generation : Nat, character : Character, expires_at : Int]
  /\ stored \in [Character -> Seq(Nat)]
  /\ requests \subseteq Request
  /\ task \in [Session -> Task]
  /\ reply \in [Session -> Reply]
  /\ binding \in [Session -> Binding]
  /\ renewal \in [Session -> Renewal]
  /\ mail \in [Session -> Seq(Message)]
  /\ \A s \in Session : Len(mail[s]) <= MailCap
  /\ channel \in [Process -> {"live", "stopping", "stopped"}]
-----------------------------------------------------------------------------
(***************************************************************************)
(* Deadlines.  LocalLeaseDeadline::from_request is the send instant plus   *)
(* the expiry; a reply or an input at or past it carries no authority.     *)
(***************************************************************************)
(* Mutant: the deadline counts from the reply, not from the request.       *)
FromRequest_AtReply(sent) == clock + Expiry

FromRequest(sent) == sent + Expiry

(* Mutant: off by one at the deadline.                                     *)
StillAuthorizes_AtDeadline(deadline) == clock <= deadline

StillAuthorizes(deadline) == clock < deadline

(* player_actions_blocked is false: the binding's input reaches World.     *)
AcceptsInput(s) ==
  /\ binding[s].status = "live"
  /\ StillAuthorizes(binding[s].deadline)

(* Sessions of one process whose binding occupies character c.             *)
Occupants(p, c) ==
  {o \in Session : /\ ProcessOf[o] = p
                   /\ binding[o].status # "none"
                   /\ binding[o].character = c}

NewRequest(op, s, c, g) ==
  [op |-> op, session |-> s, character |-> c, generation |-> g]

Send(r) == requests' = requests \cup {r}

(* The task forgets the admission it was working on.                       *)
Leave(s, pc) == task' = [task EXCEPT ![s] = [NoTask EXCEPT !.pc = pc]]

(* The task hands release_lease to the worker and waits for the answer.    *)
ReleaseUnused(s, g) ==
  /\ Send(NewRequest("release", s, task[s].character, g))
  /\ task' = [task EXCEPT ![s].pc = "releasing", ![s].generation = g]
-----------------------------------------------------------------------------
Init ==
  /\ clock = 0
  /\ lease = [generation |-> 0, character |-> SomeCharacter, expires_at |-> 0]
  /\ stored = [c \in Character |-> <<>>]
  /\ requests = {}
  /\ task = [s \in Session |-> NoTask]
  /\ reply = [s \in Session |-> NoReply]
  /\ binding = [s \in Session |-> NoBinding]
  /\ renewal = [s \in Session |-> NoRenewal]
  /\ mail = [s \in Session |-> <<>>]
  /\ channel = [p \in Process |-> "live"]

Tick ==
  /\ clock < MaxClock
  /\ clock' = clock + 1
  /\ UNCHANGED <<lease, stored, requests, task, reply, binding, renewal,
                 mail, channel>>
-----------------------------------------------------------------------------
(***************************************************************************)
(* Transactions the worker runs for a waiting request.  Answer delivers    *)
(* the outcome to whoever still waits for it: a task that is gone, or a    *)
(* supervisor that stopped, never reads it.                                *)
(***************************************************************************)
Awaited(r) ==
  \/ r.op = "admit" /\ task[r.session].pc = "admit"
  \/ r.op = "supersede" /\ task[r.session].pc = "superseding"
  \/ r.op = "release" /\ task[r.session].pc \in {"releasing", "logout_release"}
  \/ r.op = "save" /\ task[r.session].pc \in {"saving", "logout_save"}

Answer(r, rep) ==
  reply' = IF Awaited(r) THEN [reply EXCEPT ![r.session] = rep] ELSE reply

AnswerRenewal(r, outcome) ==
  renewal' = IF renewal[r.session].state = "sent"
             THEN [renewal EXCEPT ![r.session].state = outcome]
             ELSE renewal

(* Mutant: any live lease of the character will do.                        *)
LiveLease_AnyGeneration(r) ==
  /\ lease.character = r.character
  /\ lease.expires_at > clock

(* The row names this character and this generation, and has not expired.  *)
LiveLease(r) ==
  /\ lease.generation = r.generation
  /\ lease.character = r.character
  /\ lease.expires_at > clock

TakeRequest(r, op) ==
  /\ r \in requests
  /\ r.op = op
  /\ requests' = requests \ {r}

(* The grant loads the character in the same transaction.                  *)
Granted(g, c) ==
  [kind |-> "granted", generation |-> g, seen |-> Len(stored[c])]

Saved(c, g) ==
  IF stored[c] # <<>> /\ stored[c][Len(stored[c])] = g THEN stored
  ELSE [stored EXCEPT ![c] = Append(@, g)]

(* lifecycle::admit.  The grant may commit and its answer be lost.         *)
Admit(r) ==
  /\ TakeRequest(r, "admit")
  /\ \/ /\ r.character \notin Owned
        /\ Answer(r, Simple("refused"))
        /\ UNCHANGED lease
     \/ /\ r.character \in Owned
        /\ lease.expires_at > clock
        /\ Answer(r, Simple("held"))
        /\ UNCHANGED lease
     \/ /\ r.character \in Owned
        /\ lease.expires_at <= clock
        /\ lease.generation < MaxGeneration
        /\ lease' = [generation |-> lease.generation + 1,
                     character |-> r.character,
                     expires_at |-> FromRequest(clock)]
        /\ \E rep \in {Granted(lease.generation + 1, r.character),
                       Simple("error")} : Answer(r, rep)
  /\ UNCHANGED <<clock, stored, task, binding, renewal, mail, channel>>

(* lifecycle::supersede.                                                   *)
Supersede(r) ==
  /\ TakeRequest(r, "supersede")
  /\ \/ /\ LiveLease(r)
        /\ lease.generation < MaxGeneration
        /\ lease' = [generation |-> lease.generation + 1,
                     character |-> r.character,
                     expires_at |-> FromRequest(clock)]
        /\ \E rep \in {Granted(lease.generation + 1, r.character),
                       Simple("error")} : Answer(r, rep)
     \/ /\ ~LiveLease(r)
        /\ Answer(r, Simple("error"))
        /\ UNCHANGED lease
  /\ UNCHANGED <<clock, stored, task, binding, renewal, mail, channel>>

(* lifecycle::renew.                                                       *)
Renew(r) ==
  /\ TakeRequest(r, "renew")
  /\ \/ /\ LiveLease(r)
        /\ lease' = [lease EXCEPT !.expires_at = FromRequest(clock)]
        /\ \E outcome \in {"ok", "err"} : AnswerRenewal(r, outcome)
     \/ /\ ~LiveLease(r)
        /\ AnswerRenewal(r, "err")
        /\ UNCHANGED lease
  /\ UNCHANGED <<clock, stored, task, reply, binding, mail, channel>>

(* lifecycle::release expires the row in place and keeps the generation.   *)
Release(r) ==
  /\ TakeRequest(r, "release")
  /\ lease' = IF LiveLease(r) THEN [lease EXCEPT !.expires_at = clock - 1]
              ELSE lease
  /\ \E kind \in {"ok", "error"} : Answer(r, Simple(kind))
  /\ UNCHANGED <<clock, stored, task, binding, renewal, mail, channel>>

(* Mutant: a snapshot is written without looking at the lease.             *)
SaveLeased_Unfenced(r) ==
  /\ TakeRequest(r, r.op)
  /\ r.op \in {"save", "snapshot"}
  /\ stored' = Saved(r.character, r.generation)
  /\ \E kind \in {"ok", "error"} : Answer(r, Simple(kind))
  /\ UNCHANGED <<clock, lease, task, binding, renewal, mail, channel>>

(* A snapshot written under the lease: refused unless the lease is live.   *)
SaveLeased(r) ==
  /\ TakeRequest(r, r.op)
  /\ r.op \in {"save", "snapshot"}
  /\ \/ /\ LiveLease(r)
        /\ stored' = Saved(r.character, r.generation)
        /\ \E kind \in {"ok", "error"} : Answer(r, Simple(kind))
     \/ /\ ~LiveLease(r)
        /\ Answer(r, Simple("error"))
        /\ UNCHANGED stored
  /\ UNCHANGED <<clock, lease, task, binding, renewal, mail, channel>>

(* The database cannot be reached: nothing is written, the caller is told. *)
StorageFails(r) ==
  /\ r \in requests
  /\ requests' = requests \ {r}
  /\ IF r.op = "renew"
     THEN AnswerRenewal(r, "err") /\ UNCHANGED reply
     ELSE Answer(r, Simple("error")) /\ UNCHANGED renewal
  /\ UNCHANGED <<clock, lease, stored, task, binding, mail, channel>>
-----------------------------------------------------------------------------
(***************************************************************************)
(* activate_owned_character, the admission of a connection.                *)
(***************************************************************************)
SendAdmit(s, c) ==
  /\ task[s].pc = "out"
  /\ channel[ProcessOf[s]] = "live"
  /\ Send(NewRequest("admit", s, c, 0))
  /\ task' = [task EXCEPT ![s].pc = "admit", ![s].character = c,
                          ![s].sent = clock]
  /\ UNCHANGED <<clock, lease, stored, reply, binding, renewal, mail, channel>>

(* The task awaits a reply in state pc and gets one of this kind.          *)
Receives(s, pc, kinds) ==
  /\ task[s].pc = pc
  /\ reply[s].kind \in kinds
  /\ reply' = [reply EXCEPT ![s] = NoReply]

AdmitRejected(s) ==
  /\ Receives(s, "admit", {"refused", "error"})
  /\ Leave(s, "out")
  /\ UNCHANGED <<clock, lease, stored, requests, binding, renewal, mail,
                 channel>>

AdmitHeld(s) ==
  /\ Receives(s, "admit", {"held"})
  /\ task' = [task EXCEPT ![s].pc = "held"]
  /\ UNCHANGED <<clock, lease, stored, requests, binding, renewal, mail,
                 channel>>

(* A grant, from admit or supersede.  A reply that crossed the deadline,   *)
(* or a channel that stopped meanwhile, gives the lease back unused.       *)
LeaseGranted(s) ==
  LET deadline == FromRequest(task[s].sent)
      usable == StillAuthorizes(deadline) /\ channel[ProcessOf[s]] = "live"
  IN  /\ \/ Receives(s, "admit", {"granted"})
         \/ Receives(s, "superseding", {"granted"})
      /\ \/ /\ usable
            /\ task' = [task EXCEPT ![s].pc = "entering",
                                    ![s].generation = reply[s].generation,
                                    ![s].deadline = deadline,
                                    ![s].seen = reply[s].seen]
            /\ UNCHANGED requests
         \/ /\ ~usable
            /\ ReleaseUnused(s, reply[s].generation)
      /\ UNCHANGED <<clock, lease, stored, binding, renewal, mail, channel>>

(* Mutant: waits for a durable command in flight instead of refusing.      *)
StopForReconnect_Waits(s) ==
  /\ task[s].pc = "held"
  /\ \E o \in Occupants(ProcessOf[s], task[s].character) :
       /\ binding[o].status = "live"
       /\ binding[o].durable = "idle"
       /\ binding' = [binding EXCEPT ![o] = NoBinding]
       /\ Send(NewRequest("save", s, task[s].character,
                          binding[o].generation))
       /\ task' = [task EXCEPT ![s].pc = "saving",
                         ![s].generation = binding[o].generation]
  /\ UNCHANGED <<clock, lease, stored, reply, renewal, mail, channel>>

(* GameplayOwner::stop_for_reconnect for the task that found the lease     *)
(* held: the character leaves World before its snapshot is saved.          *)
StopForReconnect(s) ==
  LET here == Occupants(ProcessOf[s], task[s].character)
      stoppable == {o \in here : /\ binding[o].status = "live"
                                 /\ binding[o].durable = "idle"}
  IN  /\ task[s].pc = "held"
      /\ \/ /\ stoppable = {}
            /\ Leave(s, "out")
            /\ UNCHANGED <<requests, binding>>
         \/ \E o \in stoppable :
              /\ binding' = [binding EXCEPT ![o] = NoBinding]
              /\ Send(NewRequest("save", s, task[s].character,
                                 binding[o].generation))
              /\ task' = [task EXCEPT ![s].pc = "saving",
                                ![s].generation = binding[o].generation]
      /\ UNCHANGED <<clock, lease, stored, reply, renewal, mail, channel>>

(* The reconnect save is confirmed before a new generation is taken.       *)
ReconnectSaved(s) ==
  /\ Receives(s, "saving", {"ok"})
  /\ Send(NewRequest("supersede", s, task[s].character, task[s].generation))
  /\ task' = [task EXCEPT ![s].pc = "superseding", ![s].sent = clock]
  /\ UNCHANGED <<clock, lease, stored, binding, renewal, mail, channel>>

ReconnectFailed(s) ==
  /\ \/ Receives(s, "saving", {"error"})
     \/ Receives(s, "superseding", {"error"})
  /\ Leave(s, "out")
  /\ UNCHANGED <<clock, lease, stored, requests, binding, renewal, mail,
                 channel>>

(* Mutant: enters although LoseAllAuthority was drained already.           *)
EnterRestored_AfterStop(s) ==
  /\ task[s].pc = "entering"
  /\ StillAuthorizes(task[s].deadline)
  /\ Occupants(ProcessOf[s], task[s].character) = {}
  /\ binding' = [binding EXCEPT ![s] =
       [status |-> "live", durable |-> "idle",
        character |-> task[s].character, generation |-> task[s].generation,
        deadline |-> task[s].deadline, seen |-> task[s].seen]]
  /\ task' = [task EXCEPT ![s].pc = "entered"]
  /\ UNCHANGED <<clock, lease, stored, requests, reply, renewal, mail, channel>>

(* GameplayOwner::enter_restored.  It refuses once admission stopped or    *)
(* the deadline passed, when the character is in World already, and when   *)
(* the stored rows cannot be restored.                                     *)
EnterRestored(s) ==
  LET p == ProcessOf[s]
      allowed == /\ channel[p] # "stopped"
                 /\ StillAuthorizes(task[s].deadline)
                 /\ Occupants(p, task[s].character) = {}
  IN  /\ task[s].pc = "entering"
      /\ \/ /\ allowed
            /\ binding' = [binding EXCEPT ![s] =
                 [status |-> "live", durable |-> "idle",
                  character |-> task[s].character,
                  generation |-> task[s].generation,
                  deadline |-> task[s].deadline, seen |-> task[s].seen]]
            /\ task' = [task EXCEPT ![s].pc = "entered"]
            /\ UNCHANGED requests
         \/ /\ ReleaseUnused(s, task[s].generation)
            /\ UNCHANGED binding
      /\ UNCHANGED <<clock, lease, stored, reply, renewal, mail, channel>>

(* Back in the task: authority is checked again after world entry.  Only   *)
(* then does the session play, with its renewal supervisor running.        *)
Entered(s) ==
  LET usable == /\ StillAuthorizes(task[s].deadline)
                /\ channel[ProcessOf[s]] = "live"
  IN  /\ task[s].pc = "entered"
      /\ \/ /\ usable
            /\ task' = [task EXCEPT ![s].pc = "playing"]
            /\ renewal' = [renewal EXCEPT ![s] =
                 [state |-> "waiting", sent |-> task[s].sent,
                  deadline |-> task[s].deadline]]
         \/ /\ ~usable
            /\ task' = [task EXCEPT ![s].pc = "abandoning"]
            /\ UNCHANGED renewal
      /\ UNCHANGED <<clock, lease, stored, requests, reply, binding, mail,
                     channel>>

(* LifecycleCmd::AbandonAdmission, then the lease is given back.           *)
AbandonAdmission(s) ==
  /\ task[s].pc = "abandoning"
  /\ binding' = [binding EXCEPT ![s] = NoBinding]
  /\ ReleaseUnused(s, task[s].generation)
  /\ UNCHANGED <<clock, lease, stored, reply, renewal, mail, channel>>

(* release_unused_lease only logs a failure.                               *)
Released(s) ==
  /\ Receives(s, "releasing", {"ok", "error"})
  /\ Leave(s, "out")
  /\ UNCHANGED <<clock, lease, stored, requests, binding, renewal, mail,
                 channel>>
-----------------------------------------------------------------------------
(***************************************************************************)
(* supervise_renewal.  The select is biased: the deadline wins over a      *)
(* renewal that answers late.                                              *)
(***************************************************************************)
SendRenew(s) ==
  /\ renewal[s].state = "waiting"
  /\ StillAuthorizes(renewal[s].deadline)
  /\ clock > renewal[s].sent
  /\ Send(NewRequest("renew", s, task[s].character, task[s].generation))
  /\ renewal' = [renewal EXCEPT ![s].state = "sent", ![s].sent = clock]
  /\ UNCHANGED <<clock, lease, stored, task, reply, binding, mail, channel>>

(* Mutant: the note is queued although the queue is full.                  *)
NoteDeadline_Unbounded(s, deadline) ==
  mail' = [mail EXCEPT ![s] =
            Append(@, [kind |-> "deadline", at |-> deadline])]

(* on_extended uses try_send: a full lifecycle queue drops the note.       *)
NoteDeadline(s, deadline) ==
  mail' = IF Len(mail[s]) < MailCap
          THEN [mail EXCEPT ![s] =
                 Append(@, [kind |-> "deadline", at |-> deadline])]
          ELSE mail

RenewalExtends(s) ==
  LET next == FromRequest(renewal[s].sent)
  IN  /\ renewal[s].state = "ok"
      /\ StillAuthorizes(renewal[s].deadline)
      /\ StillAuthorizes(next)
      /\ renewal' = [renewal EXCEPT ![s].state = "waiting",
                                    ![s].deadline = next]
      /\ NoteDeadline(s, next)
      /\ UNCHANGED <<clock, lease, stored, requests, task, reply, binding,
                     channel>>

(* Expired or Rejected: LoseAuthority is sent, waiting for queue space.    *)
RenewalEnds(s) ==
  /\ renewal[s].state \in {"waiting", "sent", "ok", "err"}
  /\ \/ ~StillAuthorizes(renewal[s].deadline)
     \/ renewal[s].state = "err"
     \/ renewal[s].state = "ok" /\ ~StillAuthorizes(FromRequest(renewal[s].sent))
  /\ Len(mail[s]) < MailCap
  /\ renewal' = [renewal EXCEPT ![s] = NoRenewal]
  /\ mail' = [mail EXCEPT ![s] = Append(@, [kind |-> "lose", at |-> 0])]
  /\ UNCHANGED <<clock, lease, stored, requests, task, reply, binding, channel>>
-----------------------------------------------------------------------------
(***************************************************************************)
(* GameplayOwner::drain and the work of an entered session.                *)
(***************************************************************************)
DrainMail(s) ==
  /\ mail[s] # <<>>
  /\ mail' = [mail EXCEPT ![s] = Tail(@)]
  /\ binding' =
       IF binding[s].status = "none" THEN binding
       ELSE IF Head(mail[s]).kind = "lose"
            THEN [binding EXCEPT ![s].status = "lost"]
            ELSE [binding EXCEPT ![s].deadline = Head(mail[s]).at]
  /\ UNCHANGED <<clock, lease, stored, requests, task, reply, renewal, channel>>

(* The channel supervisor clears channel_live and queues LoseAllAuthority. *)
ChannelStops(p) ==
  /\ p \in Stoppable
  /\ channel[p] = "live"
  /\ channel' = [channel EXCEPT ![p] = "stopping"]
  /\ UNCHANGED <<clock, lease, stored, requests, task, reply, binding,
                 renewal, mail>>

LoseAllAuthority(p) ==
  /\ channel[p] = "stopping"
  /\ channel' = [channel EXCEPT ![p] = "stopped"]
  /\ binding' = [s \in Session |->
       IF ProcessOf[s] = p /\ binding[s].status # "none"
       THEN [binding[s] EXCEPT !.status = "lost"] ELSE binding[s]]
  /\ UNCHANGED <<clock, lease, stored, requests, task, reply, renewal, mail>>

(* begin_durable: one durable command of the character is in flight.       *)
BeginDurable(s) ==
  /\ AcceptsInput(s)
  /\ binding[s].durable = "idle"
  /\ binding' = [binding EXCEPT ![s].durable = "pending"]
  /\ UNCHANGED <<clock, lease, stored, requests, task, reply, renewal, mail,
                 channel>>

(* unlink(save = TRUE): the character leaves World and a snapshot is       *)
(* queued unless its authority is lost.                                    *)
LeaveWorld(s) ==
  /\ binding' = [binding EXCEPT ![s] = NoBinding]
  /\ IF binding[s].status = "live"
     THEN Send(NewRequest("snapshot", s, binding[s].character,
                          binding[s].generation))
     ELSE UNCHANGED requests

(* finish_durable, and the detach that waited for it.                      *)
FinishDurable(s) ==
  /\ binding[s].status # "none"
  /\ \/ /\ binding[s].durable = "pending"
        /\ binding' = [binding EXCEPT ![s].durable = "idle"]
        /\ UNCHANGED requests
     \/ /\ binding[s].durable = "detach"
        /\ LeaveWorld(s)
  /\ UNCHANGED <<clock, lease, stored, task, reply, renewal, mail, channel>>

(* request_save: health or place changed.                                  *)
RequestSave(s) ==
  /\ binding[s].status = "live"
  /\ Send(NewRequest("snapshot", s, binding[s].character,
                     binding[s].generation))
  /\ UNCHANGED <<clock, lease, stored, task, reply, binding, renewal, mail,
                 channel>>
-----------------------------------------------------------------------------
(***************************************************************************)
(* The end of a connection: serve_connection stops the supervisor, then    *)
(* finish_logout; a task that is dropped only detaches.                    *)
(***************************************************************************)
Disconnect(s) ==
  /\ task[s].pc = "playing"
  /\ \E pc \in {"leaving", "detaching"} : task' = [task EXCEPT ![s].pc = pc]
  /\ renewal' = [renewal EXCEPT ![s] = NoRenewal]
  /\ UNCHANGED <<clock, lease, stored, requests, reply, binding, mail, channel>>

(* GameplayOwner::prepare_logout.                                          *)
PrepareLogout(s) ==
  /\ task[s].pc = "leaving"
  /\ \/ /\ binding[s].status = "none"
        /\ Leave(s, "gone")
        /\ UNCHANGED <<requests, binding>>
     \/ /\ binding[s].status # "none"
        /\ binding[s].durable # "idle"
        /\ binding' = [binding EXCEPT ![s].durable = "detach"]
        /\ Leave(s, "gone")
        /\ UNCHANGED requests
     \/ /\ binding[s].status = "lost"
        /\ binding[s].durable = "idle"
        /\ binding' = [binding EXCEPT ![s] = NoBinding]
        /\ Leave(s, "gone")
        /\ UNCHANGED requests
     \/ /\ binding[s].status = "live"
        /\ binding[s].durable = "idle"
        /\ binding' = [binding EXCEPT ![s] = NoBinding]
        /\ Send(NewRequest("save", s, binding[s].character,
                           binding[s].generation))
        /\ task' = [task EXCEPT ![s].pc = "logout_save"]
  /\ UNCHANGED <<clock, lease, stored, reply, renewal, mail, channel>>

(* The lease is released only after the save is confirmed, and the task    *)
(* waits for the answer.                                                   *)
LogoutSaved(s) ==
  /\ Receives(s, "logout_save", {"ok"})
  /\ Send(NewRequest("release", s, task[s].character, task[s].generation))
  /\ task' = [task EXCEPT ![s].pc = "logout_release"]
  /\ UNCHANGED <<clock, lease, stored, binding, renewal, mail, channel>>

(* A failed release is only logged.                                        *)
LogoutReleased(s) ==
  /\ Receives(s, "logout_release", {"ok", "error"})
  /\ Leave(s, "gone")
  /\ UNCHANGED <<clock, lease, stored, requests, binding, renewal, mail,
                 channel>>

LogoutUnsaved(s) ==
  /\ Receives(s, "logout_save", {"error"})
  /\ Leave(s, "gone")
  /\ UNCHANGED <<clock, lease, stored, requests, binding, renewal, mail,
                 channel>>

(* GameplayOwner::detach.                                                  *)
Detach(s) ==
  /\ task[s].pc = "detaching"
  /\ Leave(s, "gone")
  /\ \/ /\ binding[s].status = "none"
        /\ UNCHANGED <<requests, binding>>
     \/ /\ binding[s].status # "none"
        /\ binding[s].durable # "idle"
        /\ binding' = [binding EXCEPT ![s].durable = "detach"]
        /\ UNCHANGED requests
     \/ /\ binding[s].status # "none"
        /\ binding[s].durable = "idle"
        /\ LeaveWorld(s)
  /\ UNCHANGED <<clock, lease, stored, reply, renewal, mail, channel>>

(* A process dies.  What its worker already sent may still commit.         *)
Crash(p) ==
  LET dead == {s \in Session : ProcessOf[s] = p}
  IN  /\ p \in Crashable
      /\ \E s \in dead : task[s].pc # "gone"
      /\ task' = [s \in Session |->
           IF s \in dead THEN [NoTask EXCEPT !.pc = "gone"] ELSE task[s]]
      /\ reply' = [s \in Session |-> IF s \in dead THEN NoReply ELSE reply[s]]
      /\ binding' = [s \in Session |->
           IF s \in dead THEN NoBinding ELSE binding[s]]
      /\ renewal' = [s \in Session |->
           IF s \in dead THEN NoRenewal ELSE renewal[s]]
      /\ mail' = [s \in Session |-> IF s \in dead THEN <<>> ELSE mail[s]]
      /\ channel' = [channel EXCEPT ![p] = "stopped"]
      /\ UNCHANGED <<clock, lease, stored, requests>>
-----------------------------------------------------------------------------
Worker(r) ==
  \/ Admit(r) \/ Supersede(r) \/ Renew(r) \/ Release(r) \/ SaveLeased(r)
  \/ StorageFails(r)

Activation(s) ==
  \/ AdmitRejected(s) \/ AdmitHeld(s) \/ LeaseGranted(s)
  \/ StopForReconnect(s) \/ ReconnectSaved(s) \/ ReconnectFailed(s)
  \/ EnterRestored(s) \/ Entered(s) \/ AbandonAdmission(s) \/ Released(s)

Supervisor(s) == SendRenew(s) \/ RenewalExtends(s) \/ RenewalEnds(s)

Play(s) ==
  \/ DrainMail(s) \/ BeginDurable(s) \/ FinishDurable(s) \/ RequestSave(s)

Logout(s) ==
  \/ PrepareLogout(s) \/ LogoutSaved(s) \/ LogoutUnsaved(s)
  \/ LogoutReleased(s) \/ Detach(s)

Next ==
  \/ Tick
  \/ \E r \in requests : Worker(r)
  \/ \E s \in Session : \/ \E c \in Character : SendAdmit(s, c)
                        \/ Activation(s) \/ Supervisor(s) \/ Play(s)
                        \/ Disconnect(s) \/ Logout(s)
  \/ \E p \in Process : ChannelStops(p) \/ LoseAllAuthority(p) \/ Crash(p)

Spec == Init /\ [][Next]_vars

(* The worker thread drains its queue and a connection task is polled      *)
(* until it waits: neither may stop forever.  Clients, crashes, failures   *)
(* and the channel owe nothing.                                            *)
Fairness ==
  \A s \in Session :
    /\ WF_vars(Activation(s))
    /\ WF_vars(Logout(s))
    /\ WF_vars(\E r \in requests : r.session = s /\ Awaited(r) /\ Worker(r))

FairSpec == Spec /\ Fairness
-----------------------------------------------------------------------------
(***************************************************************************)
(* Properties.                                                             *)
(***************************************************************************)

(* At any moment at most one session of the login has input applied to a   *)
(* World, in whichever process: the local deadlines of apply_input and     *)
(* simulate_tick never overlap, whatever the replies, renewals, reconnects *)
(* and crashes in between.                                                 *)
SingleAuthority ==
  \A s, t \in Session : AcceptsInput(s) /\ AcceptsInput(t) => s = t

(* While a session accepts input, its stored character is the one it was   *)
(* restored from, changed only by its own saves: no save of an earlier     *)
(* generation, queued, parked or retried, lands underneath it              *)
(* (save_restore's lease check, and save before supersede or release).     *)
RestoreIsCurrent ==
  \A s \in Session :
    AcceptsInput(s) =>
      \A i \in DOMAIN stored[binding[s].character] :
        i > binding[s].seen =>
          stored[binding[s].character][i] = binding[s].generation

(* Once LoseAllAuthority is drained no session of that process accepts     *)
(* input again, those whose admission was under way included.              *)
StoppedChannelAcceptsNothing ==
  \A s \in Session : channel[ProcessOf[s]] = "stopped" => ~AcceptsInput(s)

(* Every admission and every logout ends: the connection plays, is back at *)
(* the roster, or is gone.  No await of activate_owned_character or        *)
(* finish_logout waits forever, whatever fails and whoever else waits.     *)
AwaitsEnd ==
  \A s \in Session :
    task[s].pc \notin {"out", "playing", "gone"}
      ~> task[s].pc \in {"out", "playing", "gone"}

(* The token in use is the generation of the session that accepts input.   *)
(* The leases of the login implement FencedLease: authority passes from    *)
(* one session to the next only through a moment when nobody has it, a     *)
(* generation is issued only in such a moment, and only the generation     *)
(* issued last writes.                                                     *)
Holder ==
  IF \E s \in Session : AcceptsInput(s)
  THEN binding[CHOOSE s \in Session : AcceptsInput(s)].generation
  ELSE 0

Fenced == INSTANCE FencedLease WITH issued <- lease.generation, holder <- Holder

FencedSpec == Fenced!Spec
=============================================================================
