---------------------------- MODULE DialogueSession ----------------------------
(***************************************************************************)
(* One player's conversations.  The World keeps at most one interaction    *)
(* session of the player; DialogueRuntime keeps the beat a conversation is *)
(* at, and SessionInput a lock on movement while it lasts.  A choice, and  *)
(* the end of a beat without choices, are stored by a durable command: the *)
(* player goes on while it is under way, may close the conversation, move  *)
(* and open another one.  The client shows what the server's events say,   *)
(* which it hears late (UIRuntimeState, its own DialogueRuntime).          *)
(*                                                                         *)
(* The conditions of an entry beat read facts, items and equipment; here   *)
(* they hold or not.  What a choice does is that its beat has been heard.  *)
(***************************************************************************)
EXTENDS Naturals, Sequences

CONSTANTS
  Target,        \* what the player can interact with
  Npc,           \* the social ones of it, which share one dialogue definition
  Beat,          \* its beats
  End,           \* where a terminal choice leads
  Leads,         \* where the choices of each beat lead
  Entry,         \* beats a conversation may begin with
  Once,          \* beats of a pool that is suppressed once heard
  Cooldown,      \* DIALOGUE_REOPEN_COOLDOWN_TICKS
  InCap,         \* bound: requests of the client under way
  OutCap,        \* capacity of the interact channel
  MaxSessions    \* bound: interaction sessions opened

DialogueAssumption ==
  /\ Npc \subseteq Target
  /\ Entry \cup Once \subseteq Beat /\ End \notin Beat
  /\ Leads \in [Beat -> SUBSET (Beat \cup {End})]
  /\ {Cooldown, InCap, OutCap, MaxSessions} \subseteq Nat \ {0}
ASSUME DialogueAssumption

VARIABLES
  server,   \* World's session, DialogueRuntime, NarrativeRuntime, the binding
  inbox,    \* requests on their way to the owner
  outbox,   \* events on their way to the client
  client,   \* UIRuntimeState and the client's DialogueRuntime
  done,     \* history: the conversations and beats whose choice has been executed
  lost      \* history: a request or an event has been thrown away

vars == <<server, inbox, outbox, client, done, lost>>

Nothing == [nothing |-> TRUE]
SessionId == 1 .. MaxSessions
Talk == [id : SessionId, target : Npc, beat : Beat]
Command == [kind : {"choice"}, from : Talk, to : Beat \cup {End}]
           \cup [kind : {"heard"}, from : Talk] \cup [kind : {"other"}]
Request == [ask : {"open"}, target : Target] \cup [ask : {"close", "advance"}, id : SessionId]
           \cup [ask : {"choose"}, id : SessionId, beat : Beat, to : Beat \cup {End}]
Event == [tell : {"opened"}, id : SessionId, target : Target]
         \cup [tell : {"rejected"}] \cup [tell : {"closed"}, id : SessionId]
         \cup [tell : {"line", "accepted"}, talk : Talk]
Panel == [state : {"idle"}] \cup [state : {"opening"}, target : Target]
         \cup [state : {"active", "closing"}, id : SessionId, target : Target]

TypeOK ==
  /\ server \in [session : [id : SessionId, target : Target] \cup {Nothing},
                 talk : Talk \cup {Nothing}, locked : BOOLEAN,
                 reopen : 0 .. Cooldown, opened : 0 .. MaxSessions,
                 heard : SUBSET Beat, staged : Command \cup {Nothing},
                 control : {"free", "uncertain", "reconcile"},
                 durable : BOOLEAN]                  \* stages_durable
  /\ inbox \in Seq(Request) /\ Len(inbox) <= InCap
  /\ outbox \in Seq(Event) /\ Len(outbox) <= OutCap
  /\ client \in [ui : Panel, line : Talk \cup {Nothing}, pending : Talk \cup {Nothing},
                 accepted : SessionId \cup {0}]
  /\ done \in SUBSET (SessionId \X Beat) /\ lost \in BOOLEAN

Idle == [state |-> "idle"]

Init ==
  /\ \E durable \in BOOLEAN :
       server = [session |-> Nothing, talk |-> Nothing, locked |-> FALSE,
                 reopen |-> 0, opened |-> 0, heard |-> {}, staged |-> Nothing,
                 control |-> "free", durable |-> durable]
  /\ inbox = <<>> /\ outbox = <<>>
  /\ client = [ui |-> Idle, line |-> Nothing, pending |-> Nothing, accepted |-> 0]
  /\ done = {} /\ lost = FALSE

(***************************************************************************)
(* The client.                                                             *)
(***************************************************************************)
\* A full channel refuses the request; the panel has changed already.
Send(request) ==
  IF Len(inbox) < InCap THEN inbox' = Append(inbox, request) /\ UNCHANGED lost
  ELSE UNCHANGED inbox /\ lost' = TRUE

ClientOnly == UNCHANGED <<server, outbox, done>>

\* The line belongs to the session the panel is about.
Speaking == client.line /= Nothing /\ client.line.id = client.ui.id

\* choice_request
Choosable ==
  IF client.accepted = 0 /\ client.line /= Nothing THEN Leads[client.line.beat] ELSE {}

Choose(to) ==
  Send([ask |-> "choose", id |-> client.line.id, beat |-> client.line.beat, to |-> to])

Advance == Send([ask |-> "advance", id |-> client.ui.id])

BeginClose ==
  /\ client' = [client EXCEPT !.ui = [state |-> "closing", id |-> @.id, target |-> @.target]]
  /\ Send([ask |-> "close", id |-> client.ui.id])

\* The interact key, on the nearest target when nothing is open.
PressInteract ==
  /\ \/ /\ client.ui.state = "active" /\ Speaking /\ client.accepted = 0
        /\ \/ \E to \in Choosable : Choose(to)
           \/ Choosable = {} /\ Advance
        /\ UNCHANGED client
     \/ client.ui.state = "active" /\ ~Speaking /\ client.accepted = 0 /\ BeginClose
     \/ /\ client.ui.state = "idle"
        /\ \E target \in Target :
             /\ client' = [client EXCEPT !.ui = [state |-> "opening", target |-> target]]
             /\ Send([ask |-> "open", target |-> target])
  /\ ClientOnly

\* A click on a choice is not held up by a close that is under way; a click on
\* the bubble advances even a beat that has choices.
Click ==
  /\ \/ \E to \in Choosable : Choose(to)
     \/ client.ui.state = "active" /\ Speaking /\ client.accepted = 0 /\ Advance
  /\ UNCHANGED client /\ ClientOnly

Escape == client.ui.state = "active" /\ BeginClose /\ ClientOnly

\* Mutant: an open that is refused leaves the panel opening.
PanelAfter_KeepsOpening(ui, event) ==
  CASE event.tell = "opened" -> [state |-> "active", id |-> event.id, target |-> event.target]
    [] event.tell = "rejected" -> ui
    [] event.tell = "closed" -> Idle
    [] OTHER -> ui

\* UIRuntimeState::apply_server
PanelAfter(ui, event) ==
  CASE event.tell = "opened" -> [state |-> "active", id |-> event.id, target |-> event.target]
    [] event.tell \in {"rejected", "closed"} -> Idle
    [] OTHER -> ui

Belongs(line, ui) ==
  ui.state = "active" /\ line.id = ui.id /\ line.target = ui.target

\* A line that follows an accepted choice waits until the choice has been shown.
Shown(c, line) ==
  IF ~Belongs(line, c.ui) THEN c
  ELSE IF c.accepted = line.id THEN [c EXCEPT !.pending = line]
  ELSE [c EXCEPT !.line = line, !.pending = Nothing]

\* The client's DialogueRuntime.
Heard(c, event) ==
  CASE event.tell = "opened" ->
         IF c.line /= Nothing /\ (c.line.id /= event.id \/ c.line.target /= event.target)
         THEN [c EXCEPT !.line = Nothing] ELSE c
    [] event.tell \in {"rejected", "closed"} ->
         [c EXCEPT !.line = Nothing, !.pending = Nothing]
    [] event.tell = "line" -> Shown(c, event.talk)
    [] event.tell = "accepted" ->
         IF c.line = event.talk THEN [c EXCEPT !.accepted = event.talk.id] ELSE c

ApplyEvent ==
  /\ outbox /= <<>> /\ outbox' = Tail(outbox)
  /\ client' = [Heard(client, Head(outbox)) EXCEPT !.ui = PanelAfter(@, Head(outbox))]
  /\ UNCHANGED <<server, inbox, done, lost>>

\* ACCEPTED_CHOICE_VISIBLE has passed.
AcceptanceFades ==
  /\ client.accepted /= 0
  /\ client' = [client EXCEPT !.accepted = 0, !.pending = Nothing,
                              !.line = IF client.pending = Nothing THEN @ ELSE client.pending]
  /\ UNCHANGED <<inbox, lost>> /\ ClientOnly

\* The replica no longer holds the target.
TargetMissing ==
  /\ client.line /= Nothing
  /\ client' = [client EXCEPT !.line = Nothing, !.pending = Nothing]
  /\ UNCHANGED <<inbox, lost>> /\ ClientOnly

(***************************************************************************)
(* The owner's side: a request, a tick or an answer makes a state of it    *)
(* and the events it sends.  What the interact channel cannot take is lost.*)
(***************************************************************************)
Become(s, events) ==
  LET q == outbox \o events IN
  /\ server' = s
  /\ outbox' = IF Len(q) > OutCap THEN SubSeq(q, 1, OutCap) ELSE q
  /\ lost' = (lost \/ Len(q) > OutCap)

Opened(session) == [tell |-> "opened", id |-> session.id, target |-> session.target]
Rejected == [tell |-> "rejected"]
Closed(id) == [tell |-> "closed", id |-> id]
Line(talk) == [tell |-> "line", talk |-> talk]
Accepted(talk) == [tell |-> "accepted", talk |-> talk]

\* Mutant: the lock stays.
Cleared_KeepsLock(s) == [s EXCEPT !.talk = Nothing]

\* clear_dialogue
Cleared(s) == [s EXCEPT !.talk = Nothing, !.locked = FALSE]

\* finish_dialogue
Finished(s) ==
  [Cleared(s) EXCEPT !.reopen = IF s.talk = Nothing THEN @ ELSE Cooldown]

\* World::close_interaction
Shut(s, id) ==
  IF s.session /= Nothing /\ s.session.id = id THEN [s EXCEPT !.session = Nothing] ELSE s

\* World::try_open_interaction: the same target again is the same session, any
\* other closes the one there was.
Reached(s, target) ==
  IF s.session /= Nothing /\ s.session.target = target THEN s
  ELSE [s EXCEPT !.session = [id |-> s.opened + 1, target |-> target], !.opened = @ + 1]

\* Mutant: the conversation of the session that was replaced goes on.
Matched_Any(s) == s

Matched(s) ==
  IF s.talk /= Nothing /\ (s.talk.id /= s.session.id \/ s.talk.target /= s.session.target)
  THEN Cleared(s) ELSE s

\* select_entry
Selectable(s) == {beat \in Entry : ~(beat \in Once /\ beat \in s.heard)}

Locked(s, talk) == [s EXCEPT !.talk = talk, !.locked = TRUE]

BeginTalk(s) ==
  \/ \E beat \in Selectable(s) :
       LET talk == [id |-> s.session.id, target |-> s.session.target, beat |-> beat]
       IN  Become(Locked(s, talk), <<Opened(s.session), Line(talk)>>)
  \/ Become(Cleared(Shut(s, s.session.id)), <<Rejected>>)    \* no entry is eligible

HandleOpen(target) ==
  LET s == Matched(Reached(server, target)) IN
  \/ Become(server, <<Rejected>>)      \* gated, busy, out of reach, dead, or too soon
  \/ /\ ~(target \in Npc /\ server.reopen > 0)
     /\ s.opened <= MaxSessions
     /\ \/ target \notin Npc /\ Become(s, <<Opened(s.session)>>)
        \/ target \in Npc /\ s.talk = Nothing /\ BeginTalk(s)
        \/ /\ target \in Npc /\ s.talk /= Nothing
           /\ Become(Locked(s, s.talk), <<Opened(s.session), Line(s.talk)>>)

HandleClose(id) ==
  IF server.session /= Nothing /\ server.session.id = id
  THEN Become(Finished(Shut(server, id)), <<Closed(id)>>)
  ELSE Become(server, <<Rejected>>)

Ignore == Become(server, <<>>)

\* begin_durable refuses while another command is under way.  What has no answer
\* yet may also be refused by a preview of its actions.
Stage(command) ==
  \/ Ignore
  \/ server.staged = Nothing /\ Become([server EXCEPT !.staged = command], <<>>)

\* Mutant: a plan is carried out whatever the conversation has become.
Committed_Unchecked(s, from, to) ==
  IF to = End
  THEN [state |-> Cleared(Shut(s, from.id)), events |-> <<Accepted(from), Closed(from.id)>>]
  ELSE LET next == [from EXCEPT !.beat = to]
       IN  [state |-> [s EXCEPT !.talk = next], events |-> <<Accepted(from), Line(next)>>]

\* Mutant: the beat stays the one that was answered.
Committed_StaysAtBeat(s, from, to) ==
  IF s.talk /= from THEN [state |-> s, events |-> <<>>]
  ELSE IF to = End
  THEN [state |-> Cleared(Shut(s, from.id)), events |-> <<Accepted(from), Closed(from.id)>>]
  ELSE [state |-> s, events |-> <<Accepted(from), Line(from)>>]

\* commit_choice, and what is told of it.  The conversation is removed before
\* finish_dialogue looks for one, so a terminal choice starts no cooldown.
Committed(s, from, to) ==
  IF s.talk /= from THEN [state |-> s, events |-> <<>>]
  ELSE IF to = End
  THEN [state |-> Cleared(Shut(s, from.id)), events |-> <<Accepted(from), Closed(from.id)>>]
  ELSE LET next == [from EXCEPT !.beat = to]
       IN  [state |-> [s EXCEPT !.talk = next], events |-> <<Accepted(from), Line(next)>>]

Executed(s, from) == [s EXCEPT !.heard = @ \cup {from.beat}]

ApplyChoice(s, from, to) ==
  LET outcome == Committed(Executed(s, from), from, to) IN
  /\ Become(outcome.state, outcome.events)
  /\ done' = done \cup {<<from.id, from.beat>>}

\* publish_effect of Heard closes the session the beat was heard in and ends
\* whatever conversation there is.
ApplyHeard(s, from) ==
  /\ Become(Finished(Shut(Executed(s, from), from.id)), <<Closed(from.id)>>)
  /\ UNCHANGED done

\* The request is about the conversation and the session there are.
InTalk(id) ==
  /\ server.session /= Nothing /\ server.session.id = id
  /\ server.talk /= Nothing /\ server.talk.id = id
  /\ server.talk.target = server.session.target

HandleAdvance(id) ==
  LET talk == server.talk IN
  \/ ~InTalk(id) /\ Ignore /\ UNCHANGED done
  \/ /\ InTalk(id) /\ Leads[talk.beat] /= {}
     /\ Become(server, <<Line(talk)>>) /\ UNCHANGED done
  \/ /\ InTalk(id) /\ Leads[talk.beat] = {} /\ server.durable
     /\ Stage([kind |-> "heard", from |-> talk]) /\ UNCHANGED done
  \/ /\ InTalk(id) /\ Leads[talk.beat] = {} /\ ~server.durable
     /\ ApplyHeard(server, talk)

\* plan_choice
Plans(id, beat, to) == InTalk(id) /\ server.talk.beat = beat /\ to \in Leads[beat]

HandleChoose(id, beat, to) ==
  \/ Ignore /\ UNCHANGED done      \* no such plan, or its actions are refused
  \/ /\ Plans(id, beat, to) /\ server.durable
     /\ Stage([kind |-> "choice", from |-> server.talk, to |-> to]) /\ UNCHANGED done
  \/ Plans(id, beat, to) /\ ~server.durable /\ ApplyChoice(server, server.talk, to)

Handle(request) ==
  CASE request.ask = "open" -> HandleOpen(request.target) /\ UNCHANGED done
    [] request.ask = "close" -> HandleClose(request.id) /\ UNCHANGED done
    [] request.ask = "advance" -> HandleAdvance(request.id)
    [] request.ask = "choose" -> HandleChoose(request.id, request.beat, request.to)

\* A session whose control is stopped, or beyond its rate, is not answered.
Drop == lost' = TRUE /\ UNCHANGED <<server, outbox, done>>

Receive ==
  /\ inbox /= <<>> /\ inbox' = Tail(inbox)
  /\ IF server.control /= "free" THEN Drop ELSE Handle(Head(inbox)) \/ Drop
  /\ UNCHANGED client

\* A tick; maintain_interaction_sessions may find the session out of reach, its
\* target gone, or the player dead.
Tick ==
  /\ LET s == [server EXCEPT !.reopen = IF @ = 0 THEN 0 ELSE @ - 1] IN
     \/ server.reopen > 0 /\ Become(s, <<>>)
     \/ /\ server.session /= Nothing
        /\ Become(Finished(Shut(s, s.session.id)), <<Closed(s.session.id)>>)
  /\ UNCHANGED <<inbox, client, done>>

\* Mutant: a move leaves the conversation.
Moved_KeepsTalk(s) == [s EXCEPT !.session = Nothing, !.locked = FALSE]

\* The session is closed by the change of address, and bump_epoch lifts the lock.
Moved(s) == Cleared([s EXCEPT !.session = Nothing])

\* handle_portal_activate and handle_dev_set_channel.  A portal that is refused
\* is told as an open that is refused.
Relocate ==
  /\ server.control = "free"
  /\ \/ /\ server.session /= Nothing
        /\ Become(Moved(server), <<Closed(server.session.id)>>)
     \/ Become(server, <<Rejected>>)
  /\ UNCHANGED <<inbox, client, done>>

(***************************************************************************)
(* Durable commands of this player: choices, heard beats, and the others   *)
(* that use the same gate (drop, pickup, equip).                           *)
(***************************************************************************)
StageOther ==
  /\ server.durable /\ server.control = "free" /\ server.staged = Nothing
  /\ server' = [server EXCEPT !.staged = [kind |-> "other"]]
  /\ UNCHANGED <<inbox, outbox, client, done, lost>>

Settled(s) == [s EXCEPT !.staged = Nothing, !.control = "free"]

\* The commit is applied and published, at once or after a reconcile has
\* restored the stored character.
SettleStored ==
  LET command == server.staged
      s == Settled(server)
  IN  /\ command /= Nothing
      /\ CASE command.kind = "choice" -> ApplyChoice(s, command.from, command.to)
           [] command.kind = "heard" -> ApplyHeard(s, command.from)
           [] command.kind = "other" -> Become(s, <<>>) /\ UNCHANGED done
      /\ UNCHANGED <<inbox, client>>

\* Refused, unknown for now, or stored but not applicable in the World.
SettleOtherwise ==
  /\ server.staged /= Nothing /\ server.control /= "reconcile"
  /\ \/ server' = Settled(server)
     \/ server' = [server EXCEPT !.control = "uncertain"]
     \/ server.staged.kind /= "heard" /\ server' = [server EXCEPT !.control = "reconcile"]
  /\ UNCHANGED <<inbox, outbox, client, done, lost>>

Next ==
  \/ PressInteract \/ Click \/ Escape \/ ApplyEvent \/ AcceptanceFades \/ TargetMissing
  \/ Receive \/ Tick \/ Relocate
  \/ StageOther \/ SettleStored \/ SettleOtherwise

Spec == Init /\ [][Next]_vars

(***************************************************************************)
(* Properties.                                                             *)
(***************************************************************************)
\* A conversation lives inside the World's session it was opened in: none
\* outlives its session, and no late commit revives or advances another one.
TalkHasSession ==
  server.talk /= Nothing =>
    /\ server.session /= Nothing
    /\ server.talk.id = server.session.id /\ server.talk.target = server.session.target

\* The player is held exactly as long as a conversation lasts, through closes,
\* replaced sessions, moves and commits that come late.
LockedIsTalking == server.locked <=> server.talk /= Nothing

DialogueIsSound == TypeOK /\ TalkHasSession /\ LockedIsTalking

\* One conversation does not execute the choice of a beat twice, however often
\* the player asks and however the commit of the first is answered: neither the
\* beat it is at nor a command under way is one that has been answered in it.
\* (Where no choice leads back to a beat.)
ChosenOnce ==
  \A talk \in {server.talk, IF server.staged = Nothing THEN Nothing
                            ELSE IF server.staged.kind = "choice" THEN server.staged.from
                            ELSE Nothing} :
    talk /= Nothing => <<talk.id, talk.beat>> \notin done

\* When all requests and events have been heard and none was thrown away, no
\* open or close is still waited for, the panel shows no session the server has
\* closed, and the line of the panel's session is of the beat the server is at.
PanelIsCurrent ==
  ~lost /\ inbox = <<>> /\ outbox = <<>> =>
    /\ client.ui.state \in {"idle", "active"}
    /\ client.ui.state = "active" =>
         /\ server.session = [id |-> client.ui.id, target |-> client.ui.target]
         /\ LET last == IF client.pending /= Nothing THEN client.pending ELSE client.line
            IN  last /= Nothing /\ last.id = client.ui.id => last = server.talk

\* docs/NPC_DIALOGUE_RUNTIME.md: an incoming line is activated only when its
\* session and target match the active panel; a line of another session is cleared.
LineIsOfPanel ==
  client.ui.state = "active" /\ client.line /= Nothing =>
    client.line.id = client.ui.id /\ client.line.target = client.ui.target

\* docs/NPC_DIALOGUE_RUNTIME.md: a beat of the pool once is suppressed after it
\* has been heard.  A choice of it is executed at most once.
OnceIsOnce ==
  [][\A id \in SessionId, beat \in Once :
       <<id, beat>> \in done' \ done => beat \notin server.heard]_vars

\* docs/N10_RUNTIME_PLAN.md: the dialogue lives as long as its interaction session.
SessionHasTalk ==
  server.session /= Nothing /\ server.session.target \in Npc => server.talk /= Nothing

\* A player who is held by a conversation sees it, once everything has been heard.
\* (The answer to an earlier request turns the panel idle, whatever it is about.)
HeldPlayerSees ==
  ~lost /\ inbox = <<>> /\ outbox = <<>> /\ server.talk /= Nothing =>
    client.ui.state = "active" /\ client.ui.id = server.talk.id
================================================================================
