------------------------- MODULE DialogueSessionProofs -------------------------
(***************************************************************************)
(* Proofs about DialogueSession, for every dialogue (beats, entries and    *)
(* where choices lead), every set of targets, every cooldown and every     *)
(* capacity of the two channels.                                           *)
(***************************************************************************)
EXTENDS DialogueSession, TLAPS

(* The states of the owner's side that TypeOK allows.                      *)
ServerState ==
  [session : [id : SessionId, target : Target] \cup {Nothing},
   talk : Talk \cup {Nothing}, locked : BOOLEAN,
   reopen : 0 .. Cooldown, opened : 0 .. MaxSessions,
   heard : SUBSET Beat, staged : Command \cup {Nothing},
   control : {"free", "uncertain", "reconcile"},
   durable : BOOLEAN]

ClientState ==
  [ui : Panel, line : Talk \cup {Nothing}, pending : Talk \cup {Nothing},
   accepted : SessionId \cup {0}]

(* A conversation lies in the session there is.                            *)
InSession(s) ==
  s.talk /= Nothing =>
    s.session /= Nothing /\ s.talk.id = s.session.id /\ s.talk.target = s.session.target

(* What DialogueIsSound says of the owner's side.                          *)
Sound(s) ==
  s \in ServerState /\ InSession(s) /\ (s.locked <=> s.talk /= Nothing)

OthersTyped ==
  /\ inbox \in Seq(Request) /\ Len(inbox) <= InCap
  /\ outbox \in Seq(Event) /\ Len(outbox) <= OutCap
  /\ client \in ClientState
  /\ done \in SUBSET (SessionId \X Beat) /\ lost \in BOOLEAN

Inv == Sound(server) /\ OthersTyped

(* The invariant is the property of the run, regrouped.                    *)
LEMMA InvIsProperty == Inv <=> DialogueIsSound
BY DEF Inv, Sound, InSession, OthersTyped, ServerState, ClientState, DialogueIsSound,
       TypeOK, TalkHasSession, LockedIsTalking

(* Nothing is told from conversations, sessions and commands.              *)
LEMMA NothingIsNone ==
  /\ Nothing \notin Talk
  /\ Nothing \notin [id : SessionId, target : Target]
  /\ Nothing \notin Command
<1>1. DOMAIN Nothing = {"nothing"}
  BY DEF Nothing
<1>2. \A t \in Talk : "id" \in DOMAIN t
  BY DEF Talk
<1>3. \A x \in [id : SessionId, target : Target] : "id" \in DOMAIN x
  OBVIOUS
<1>4. \A c \in Command : "kind" \in DOMAIN c
  BY DEF Command
<1> QED
  BY <1>1, <1>2, <1>3, <1>4

LEMMA Bounds ==
  /\ Cooldown \in Nat /\ MaxSessions \in Nat /\ InCap \in Nat
  /\ OutCap \in Nat /\ OutCap > 0
BY DialogueAssumption DEF DialogueAssumption

-----------------------------------------------------------------------------
(***************************************************************************)
(* Steps of the owner's state.                                             *)
(***************************************************************************)
LEMMA ClearedSound ==
  ASSUME NEW s \in ServerState
  PROVE  Sound(Cleared(s)) /\ Cleared(s).session = s.session /\ Cleared(s).talk = Nothing
BY DEF Cleared, Sound, InSession, ServerState

LEMMA FinishedSound ==
  ASSUME NEW s \in ServerState
  PROVE  Sound(Finished(s))
<1> DEFINE c == Cleared(s)
           r == IF s.talk = Nothing THEN c.reopen ELSE Cooldown
<1>1. Sound(c)
  BY ClearedSound
<1>2. r \in 0 .. Cooldown
  BY <1>1, Bounds DEF Sound, ServerState
<1>3. Finished(s) = [c EXCEPT !.reopen = r]
  BY DEF Finished
<1> HIDE DEF c, r
<1> QED
  BY <1>1, <1>2, <1>3 DEF Sound, InSession, ServerState

LEMMA ShutTyped ==
  ASSUME NEW s \in ServerState, NEW id
  PROVE  Shut(s, id) \in ServerState /\ Shut(s, id).talk = s.talk
BY DEF Shut, ServerState

LEMMA MovedSound ==
  ASSUME NEW s \in ServerState
  PROVE  Sound(Moved(s))
BY DEF Moved, Cleared, Sound, InSession, ServerState

LEMMA SettledSound ==
  ASSUME NEW s, Sound(s)
  PROVE  Sound(Settled(s))
BY DEF Settled, Sound, InSession, ServerState

LEMMA ExecutedSound ==
  ASSUME NEW s, Sound(s), NEW from \in Talk
  PROVE  Sound(Executed(s, from))
BY DEF Executed, Sound, InSession, ServerState, Talk

(* A session that is replaced takes its conversation with it.              *)
LEMMA ReachedSound ==
  ASSUME NEW s, Sound(s), NEW target \in Target,
         Matched(Reached(s, target)).opened <= MaxSessions
  PROVE  /\ Sound(Matched(Reached(s, target)))
         /\ Matched(Reached(s, target)).session \in [id : SessionId, target : Target]
         /\ Matched(Reached(s, target)).session.target = target
<1> DEFINE r == Reached(s, target)
<1>1. CASE s.session /= Nothing /\ s.session.target = target
  <2>1. r = s
    BY <1>1 DEF Reached
  <2>2. Matched(s) = s
    BY <1>1 DEF Matched, Sound, InSession
  <2> QED
    BY <1>1, <2>1, <2>2 DEF Sound, ServerState
<1>2. CASE ~(s.session /= Nothing /\ s.session.target = target)
  <2>1. r = [s EXCEPT !.session = [id |-> s.opened + 1, target |-> target], !.opened = @ + 1]
    BY <1>2 DEF Reached
  <2>2. /\ r.session = [id |-> s.opened + 1, target |-> target] /\ r.opened = s.opened + 1
        /\ r.talk = s.talk /\ r.locked = s.locked
    BY <2>1 DEF Sound, ServerState
  <2>3. Matched(r).opened = r.opened
    BY <2>1 DEF Matched, Cleared, Sound, ServerState
  <2>4. s.opened + 1 \in SessionId /\ s.opened + 1 \in 0 .. MaxSessions
    BY <2>2, <2>3, Bounds DEF SessionId, Sound, ServerState
  <2>5. r \in ServerState
    <3> DEFINE n == s.opened + 1
               x == [id |-> n, target |-> target]
    <3>1. x \in [id : SessionId, target : Target] \cup {Nothing} /\ n \in 0 .. MaxSessions
      BY <2>4
    <3>2. r = [s EXCEPT !.session = x, !.opened = n]
      BY <2>1
    <3> HIDE DEF n, x, r
    <3> QED
      BY <3>1, <3>2 DEF Sound, ServerState
  <2>6. r.session \in [id : SessionId, target : Target] /\ r.session.target = target
    BY <2>2, <2>4
  <2>7. CASE r.talk /= Nothing /\ (r.talk.id /= r.session.id \/ r.talk.target /= r.session.target)
    <3>1. Matched(r) = Cleared(r)
      BY <2>7 DEF Matched
    <3> QED
      BY <3>1, <2>5, <2>6, ClearedSound
  <2>8. CASE ~(r.talk /= Nothing /\ (r.talk.id /= r.session.id \/ r.talk.target /= r.session.target))
    <3>1. Matched(r) = r
      BY <2>8 DEF Matched
    <3>2. InSession(r)
      BY <2>8, <2>6, NothingIsNone DEF InSession
    <3> QED
      BY <3>1, <3>2, <2>5, <2>6, <2>2 DEF Sound
  <2> QED
    BY <2>7, <2>8
<1> QED
  BY <1>1, <1>2

(* A conversation that is begun, or resumed, in the session there is.      *)
LEMMA LockedSound ==
  ASSUME NEW s \in ServerState, NEW talk \in Talk,
         s.session /= Nothing, talk.id = s.session.id, talk.target = s.session.target
  PROVE  Sound(Locked(s, talk))
<1>1. talk /= Nothing
  BY NothingIsNone
<1> QED
  BY <1>1 DEF Locked, Sound, InSession, ServerState

-----------------------------------------------------------------------------
(***************************************************************************)
(* Events                                                                  *)
(***************************************************************************)
LEMMA EventTypes ==
  /\ \A x \in [id : SessionId, target : Target] : Opened(x) \in Event
  /\ Rejected \in Event
  /\ \A id \in SessionId : Closed(id) \in Event
  /\ \A t \in Talk : Line(t) \in Event /\ Accepted(t) \in Event
<1>1. \A x \in [id : SessionId, target : Target] : Opened(x) \in Event
  BY DEF Opened, Event
<1>2. Rejected \in Event
  BY DEF Rejected, Event
<1>3. \A id \in SessionId : Closed(id) \in Event
  BY DEF Closed, Event
<1>4. \A t \in Talk : Line(t) \in Event /\ Accepted(t) \in Event
  BY DEF Line, Accepted, Event
<1> QED
  BY <1>1, <1>2, <1>3, <1>4

LEMMA EventSeqs ==
  /\ <<>> \in Seq(Event)
  /\ \A e \in Event : <<e>> \in Seq(Event)
  /\ \A e, f \in Event : <<e, f>> \in Seq(Event)
OBVIOUS

(* What Become makes of a sound state and proper events.                   *)
LEMMA BecomeSound ==
  ASSUME Inv, NEW s, Sound(s), NEW events \in Seq(Event), Become(s, events)
  PROVE  /\ Sound(server')
         /\ outbox' \in Seq(Event) /\ Len(outbox') <= OutCap
         /\ lost' \in BOOLEAN
<1> DEFINE q == outbox \o events
<1>1. q \in Seq(Event)
  BY DEF Inv, OthersTyped
<1>2. OutCap \in Nat
  BY Bounds
<1>3. server' = s /\ outbox' = (IF Len(q) > OutCap THEN SubSeq(q, 1, OutCap) ELSE q)
      /\ lost' = (lost \/ Len(q) > OutCap)
  BY DEF Become
<1>4. Sound(server')
  BY <1>3
<1>5. CASE Len(q) > OutCap
  <2>1. SubSeq(q, 1, OutCap) \in Seq(Event) /\ Len(SubSeq(q, 1, OutCap)) = OutCap
    BY <1>1, <1>2, <1>5
  <2> QED
    BY <2>1, <1>2, <1>3, <1>4, <1>5
<1>6. CASE ~(Len(q) > OutCap)
  BY <1>1, <1>2, <1>3, <1>4, <1>6 DEF Inv, OthersTyped
<1> QED
  BY <1>5, <1>6

-----------------------------------------------------------------------------
(***************************************************************************)
(* The parts of requests, commands, events and panels                      *)
(***************************************************************************)
LEMMA CommandParts ==
  ASSUME NEW c \in Command
  PROVE  /\ c.kind \in {"choice", "heard", "other"}
         /\ c.kind = "choice" => c.from \in Talk /\ c.to \in Beat \cup {End}
         /\ c.kind = "heard" => c.from \in Talk
BY DEF Command

LEMMA RequestParts ==
  ASSUME NEW r \in Request
  PROVE  /\ r.ask \in {"open", "close", "advance", "choose"}
         /\ r.ask = "open" => r.target \in Target
         /\ r.ask /= "open" => r.id \in SessionId
         /\ r.ask = "choose" => r.beat \in Beat /\ r.to \in Beat \cup {End}
BY DEF Request

LEMMA EventParts ==
  ASSUME NEW e \in Event
  PROVE  /\ e.tell \in {"opened", "rejected", "closed", "line", "accepted"}
         /\ e.tell = "opened" => e.id \in SessionId /\ e.target \in Target
         /\ e.tell \in {"line", "accepted"} => e.talk \in Talk
BY DEF Event

LEMMA PanelParts ==
  ASSUME NEW u \in Panel
  PROVE  /\ u.state \in {"idle", "opening", "active", "closing"}
         /\ u.state = "active" => u.id \in SessionId /\ u.target \in Target
BY DEF Panel

-----------------------------------------------------------------------------
(***************************************************************************)
(* The owner's handlers                                                    *)
(***************************************************************************)
(* What a step of the owner leaves.                                        *)
OwnerNext ==
  /\ Sound(server')
  /\ outbox' \in Seq(Event) /\ Len(outbox') <= OutCap
  /\ done' \in SUBSET (SessionId \X Beat) /\ lost' \in BOOLEAN

LEMMA IgnoreSound ==
  ASSUME Inv, Ignore, UNCHANGED done
  PROVE  OwnerNext
BY BecomeSound, EventSeqs DEF Ignore, OwnerNext, Inv, OthersTyped

LEMMA OpenSound ==
  ASSUME Inv, NEW target \in Target, HandleOpen(target), UNCHANGED done
  PROVE  OwnerNext
<1> DEFINE s == Matched(Reached(server, target))
<1>0. done' \in SUBSET (SessionId \X Beat)
  BY DEF Inv, OthersTyped
<1>1. CASE Become(server, <<Rejected>>)
  BY <1>0, <1>1, BecomeSound, EventSeqs, EventTypes DEF OwnerNext, Inv
<1>2. CASE s.opened <= MaxSessions
           /\ \/ target \notin Npc /\ Become(s, <<Opened(s.session)>>)
              \/ target \in Npc /\ s.talk = Nothing /\ BeginTalk(s)
              \/ /\ target \in Npc /\ s.talk /= Nothing
                 /\ Become(Locked(s, s.talk), <<Opened(s.session), Line(s.talk)>>)
  <2>1. Sound(s) /\ s.session \in [id : SessionId, target : Target] /\ s.session.target = target
    BY <1>2, ReachedSound DEF Inv
  <2> HIDE DEF s
  <2>2. s \in ServerState /\ s.session /= Nothing /\ Opened(s.session) \in Event
    BY <2>1, NothingIsNone, EventTypes DEF Sound
  <2>3. CASE Become(s, <<Opened(s.session)>>)
    BY <1>0, <2>1, <2>2, <2>3, BecomeSound, EventSeqs DEF OwnerNext
  <2>4. CASE target \in Npc /\ s.talk = Nothing /\ BeginTalk(s)
    <3>1. CASE \E beat \in Selectable(s) :
                 LET talk == [id |-> s.session.id, target |-> s.session.target, beat |-> beat]
                 IN  Become(Locked(s, talk), <<Opened(s.session), Line(talk)>>)
      <4>1. PICK beat \in Selectable(s) :
              LET talk == [id |-> s.session.id, target |-> s.session.target, beat |-> beat]
              IN  Become(Locked(s, talk), <<Opened(s.session), Line(talk)>>)
        BY <3>1
      <4> DEFINE talk == [id |-> s.session.id, target |-> s.session.target, beat |-> beat]
      <4>2. beat \in Beat
        BY DialogueAssumption DEF Selectable, DialogueAssumption
      <4>3. talk \in Talk /\ talk.id = s.session.id /\ talk.target = s.session.target
        BY <4>2, <2>1, <2>4 DEF Talk
      <4>4. Become(Locked(s, talk), <<Opened(s.session), Line(talk)>>)
        BY <4>1
      <4> HIDE DEF talk
      <4>5. Sound(Locked(s, talk))
        BY <4>3, <2>2, LockedSound
      <4>6. <<Opened(s.session), Line(talk)>> \in Seq(Event)
        BY <4>3, <2>2, EventSeqs, EventTypes
      <4> QED
        BY <1>0, <4>4, <4>5, <4>6, BecomeSound DEF OwnerNext
    <3>2. CASE Become(Cleared(Shut(s, s.session.id)), <<Rejected>>)
      <4>1. Sound(Cleared(Shut(s, s.session.id)))
        BY <2>2, ShutTyped, ClearedSound
      <4> QED
        BY <1>0, <3>2, <4>1, BecomeSound, EventSeqs, EventTypes DEF OwnerNext
    <3> QED
      BY <2>4, <3>1, <3>2 DEF BeginTalk
  <2>5. CASE s.talk /= Nothing /\ Become(Locked(s, s.talk), <<Opened(s.session), Line(s.talk)>>)
    <3>1. s.talk \in Talk
      BY <2>2, <2>5 DEF ServerState
    <3>2. Sound(Locked(s, s.talk))
      BY <2>1, <2>2, <2>5, <3>1, LockedSound DEF Sound, InSession
    <3>3. <<Opened(s.session), Line(s.talk)>> \in Seq(Event)
      BY <3>1, <2>2, EventSeqs, EventTypes
    <3> QED
      BY <1>0, <2>5, <3>2, <3>3, BecomeSound DEF OwnerNext
  <2> QED
    BY <1>2, <2>3, <2>4, <2>5
<1> QED
  BY <1>1, <1>2 DEF HandleOpen

LEMMA CloseSound ==
  ASSUME Inv, NEW id \in SessionId, HandleClose(id), UNCHANGED done
  PROVE  OwnerNext
<1>0. done' \in SUBSET (SessionId \X Beat)
  BY DEF Inv, OthersTyped
<1>1. Sound(Finished(Shut(server, id)))
  BY ShutTyped, FinishedSound DEF Inv, Sound
<1>2. Become(Finished(Shut(server, id)), <<Closed(id)>>) \/ Become(server, <<Rejected>>)
  BY DEF HandleClose
<1> QED
  BY <1>0, <1>1, <1>2, BecomeSound, EventSeqs, EventTypes DEF OwnerNext, Inv

LEMMA StageSound ==
  ASSUME Inv, NEW command \in Command, Stage(command), UNCHANGED done
  PROVE  OwnerNext
<1>1. Sound([server EXCEPT !.staged = command])
  BY DEF Inv, Sound, InSession, ServerState
<1>2. CASE Ignore
  BY <1>2, IgnoreSound
<1>3. CASE Become([server EXCEPT !.staged = command], <<>>)
  BY <1>1, <1>3, BecomeSound, EventSeqs DEF OwnerNext, Inv, OthersTyped
<1> QED
  BY <1>2, <1>3 DEF Stage

(* A late commit finds its own conversation, at its own beat, or changes   *)
(* none.                                                                   *)
LEMMA CommittedSound ==
  ASSUME NEW s, Sound(s), NEW from \in Talk, NEW to \in Beat \cup {End}
  PROVE  Sound(Committed(s, from, to).state) /\ Committed(s, from, to).events \in Seq(Event)
<1>1. CASE s.talk /= from
  BY <1>1, EventSeqs DEF Committed
<1>2. CASE s.talk = from /\ to = End
  <2>1. Sound(Cleared(Shut(s, from.id)))
    BY ShutTyped, ClearedSound DEF Sound
  <2>2. <<Accepted(from), Closed(from.id)>> \in Seq(Event)
    BY EventSeqs, EventTypes DEF Talk
  <2> QED
    BY <1>2, <2>1, <2>2 DEF Committed
<1>3. CASE s.talk = from /\ to /= End
  <2> DEFINE next == [from EXCEPT !.beat = to]
  <2>1. next \in Talk /\ next.id = from.id /\ next.target = from.target
    BY <1>3 DEF Talk
  <2>2. Committed(s, from, to) =
          [state |-> [s EXCEPT !.talk = next], events |-> <<Accepted(from), Line(next)>>]
    BY <1>3 DEF Committed
  <2> HIDE DEF next
  <2>3. next /= Nothing /\ from /= Nothing
    BY <2>1, NothingIsNone
  <2>4. Sound([s EXCEPT !.talk = next])
    BY <1>3, <2>1, <2>3 DEF Sound, InSession, ServerState
  <2>5. <<Accepted(from), Line(next)>> \in Seq(Event)
    BY <2>1, EventSeqs, EventTypes
  <2> QED
    BY <2>2, <2>4, <2>5
<1> QED
  BY <1>1, <1>2, <1>3

LEMMA ApplyChoiceSound ==
  ASSUME Inv, NEW s, Sound(s), NEW from \in Talk, NEW to \in Beat \cup {End},
         ApplyChoice(s, from, to)
  PROVE  OwnerNext
<1> DEFINE outcome == Committed(Executed(s, from), from, to)
<1>1. Sound(Executed(s, from))
  BY ExecutedSound
<1>2. Sound(outcome.state) /\ outcome.events \in Seq(Event)
  BY <1>1, CommittedSound
<1>3. Become(outcome.state, outcome.events) /\ done' = done \cup {<<from.id, from.beat>>}
  BY DEF ApplyChoice
<1>4. done' \in SUBSET (SessionId \X Beat)
  BY <1>3 DEF Inv, OthersTyped, Talk
<1> HIDE DEF outcome
<1> QED
  BY <1>2, <1>3, <1>4, BecomeSound DEF OwnerNext

LEMMA ApplyHeardSound ==
  ASSUME Inv, NEW s, Sound(s), NEW from \in Talk, ApplyHeard(s, from)
  PROVE  OwnerNext
<1>1. Sound(Finished(Shut(Executed(s, from), from.id)))
  BY ExecutedSound, ShutTyped, FinishedSound DEF Sound
<1>2. <<Closed(from.id)>> \in Seq(Event)
  BY EventSeqs, EventTypes DEF Talk
<1>3. Become(Finished(Shut(Executed(s, from), from.id)), <<Closed(from.id)>>) /\ UNCHANGED done
  BY DEF ApplyHeard
<1> QED
  BY <1>1, <1>2, <1>3, BecomeSound DEF OwnerNext, Inv, OthersTyped

LEMMA TalkNow ==
  ASSUME Inv, NEW id, InTalk(id)
  PROVE  server.talk \in Talk
BY DEF InTalk, Inv, Sound, ServerState

LEMMA AdvanceSound ==
  ASSUME Inv, NEW id \in SessionId, HandleAdvance(id)
  PROVE  OwnerNext
<1> DEFINE talk == server.talk
<1>1. CASE Ignore /\ UNCHANGED done
  BY <1>1, IgnoreSound
<1>2. CASE InTalk(id) /\ Become(server, <<Line(talk)>>) /\ UNCHANGED done
  BY <1>2, TalkNow, BecomeSound, EventSeqs, EventTypes DEF OwnerNext, Inv, OthersTyped
<1>3. CASE InTalk(id) /\ Stage([kind |-> "heard", from |-> talk]) /\ UNCHANGED done
  <2>1. [kind |-> "heard", from |-> talk] \in Command
    BY <1>3, TalkNow DEF Command
  <2> QED
    BY <1>3, <2>1, StageSound
<1>4. CASE InTalk(id) /\ ApplyHeard(server, talk)
  BY <1>4, TalkNow, ApplyHeardSound DEF Inv
<1> QED
  BY <1>1, <1>2, <1>3, <1>4 DEF HandleAdvance

LEMMA ChooseSound ==
  ASSUME Inv, NEW id \in SessionId, NEW beat \in Beat, NEW to \in Beat \cup {End},
         HandleChoose(id, beat, to)
  PROVE  OwnerNext
<1>1. CASE Ignore /\ UNCHANGED done
  BY <1>1, IgnoreSound
<1>2. CASE Plans(id, beat, to) /\ UNCHANGED done
           /\ Stage([kind |-> "choice", from |-> server.talk, to |-> to])
  <2>1. [kind |-> "choice", from |-> server.talk, to |-> to] \in Command
    BY <1>2, TalkNow DEF Command, Plans
  <2> QED
    BY <1>2, <2>1, StageSound
<1>3. CASE Plans(id, beat, to) /\ ApplyChoice(server, server.talk, to)
  BY <1>3, TalkNow, ApplyChoiceSound DEF Inv, Plans
<1> QED
  BY <1>1, <1>2, <1>3 DEF HandleChoose

LEMMA HandleSound ==
  ASSUME Inv, NEW request \in Request, Handle(request)
  PROVE  OwnerNext
<1>1. CASE request.ask = "open"
  BY <1>1, RequestParts, OpenSound DEF Handle
<1>2. CASE request.ask = "close"
  BY <1>2, RequestParts, CloseSound DEF Handle
<1>3. CASE request.ask = "advance"
  BY <1>3, RequestParts, AdvanceSound DEF Handle
<1>4. CASE request.ask = "choose"
  BY <1>4, RequestParts, ChooseSound DEF Handle
<1> QED
  BY <1>1, <1>2, <1>3, <1>4, RequestParts

LEMMA ReceiveStep ==
  ASSUME Inv, Receive
  PROVE  Inv'
<1>1. inbox # <<>> /\ inbox \in Seq(Request) /\ Len(inbox) <= InCap
  BY DEF Receive, Inv, OthersTyped
<1>2. Head(inbox) \in Request /\ inbox' \in Seq(Request) /\ Len(inbox') <= InCap
  BY <1>1, Bounds DEF Receive
<1>3. OwnerNext
  <2>1. CASE Drop
    BY <2>1 DEF Drop, OwnerNext, Inv, OthersTyped, Sound, InSession
  <2>2. CASE Handle(Head(inbox))
    BY <1>2, <2>2, HandleSound
  <2> QED
    BY <2>1, <2>2 DEF Receive
<1> QED
  BY <1>2, <1>3 DEF Receive, OwnerNext, Inv, OthersTyped, Sound, InSession

(* A step of the owner that takes no request.                              *)
LEMMA OwnerStep ==
  ASSUME Inv, OwnerNext, UNCHANGED <<inbox, client>>
  PROVE  Inv'
BY DEF OwnerNext, Inv, OthersTyped, Sound, InSession

LEMMA TickStep ==
  ASSUME Inv, Tick
  PROVE  Inv'
<1> DEFINE r == IF server.reopen = 0 THEN 0 ELSE server.reopen - 1
           s == [server EXCEPT !.reopen = r]
<1>1. r \in 0 .. Cooldown
  BY Bounds DEF Inv, Sound, ServerState
<1>2. s = [server EXCEPT !.reopen = IF @ = 0 THEN 0 ELSE @ - 1]
  BY DEF Inv, Sound, ServerState
<1>3. Become(s, <<>>) \/ /\ server.session /= Nothing
                         /\ Become(Finished(Shut(s, s.session.id)), <<Closed(s.session.id)>>)
  BY <1>2 DEF Tick
<1> HIDE DEF r
<1>4. Sound(s) /\ s.session = server.session
  BY <1>1 DEF Inv, Sound, InSession, ServerState
<1> HIDE DEF s
<1>5. done' \in SUBSET (SessionId \X Beat) /\ UNCHANGED <<inbox, client>>
  BY DEF Tick, Inv, OthersTyped
<1>6. CASE Become(s, <<>>)
  BY <1>4, <1>5, <1>6, BecomeSound, EventSeqs, OwnerStep DEF OwnerNext
<1>7. CASE server.session /= Nothing
           /\ Become(Finished(Shut(s, s.session.id)), <<Closed(s.session.id)>>)
  <2>1. Sound(Finished(Shut(s, s.session.id)))
    BY <1>4, ShutTyped, FinishedSound DEF Sound
  <2>2. <<Closed(s.session.id)>> \in Seq(Event)
    BY <1>4, <1>7, EventSeqs, EventTypes DEF Sound, ServerState
  <2> QED
    BY <2>1, <2>2, <1>5, <1>7, BecomeSound, OwnerStep DEF OwnerNext
<1> QED
  BY <1>3, <1>6, <1>7

LEMMA RelocateStep ==
  ASSUME Inv, Relocate
  PROVE  Inv'
<1>1. done' \in SUBSET (SessionId \X Beat) /\ UNCHANGED <<inbox, client>>
  BY DEF Relocate, Inv, OthersTyped
<1>2. CASE server.session /= Nothing /\ Become(Moved(server), <<Closed(server.session.id)>>)
  <2>1. Sound(Moved(server))
    BY MovedSound DEF Inv, Sound
  <2>2. <<Closed(server.session.id)>> \in Seq(Event)
    BY <1>2, EventSeqs, EventTypes DEF Inv, Sound, ServerState
  <2> QED
    BY <2>1, <2>2, <1>1, <1>2, BecomeSound, OwnerStep DEF OwnerNext
<1>3. CASE Become(server, <<Rejected>>)
  BY <1>1, <1>3, BecomeSound, EventSeqs, EventTypes, OwnerStep DEF OwnerNext, Inv
<1> QED
  BY <1>2, <1>3 DEF Relocate

LEMMA StageOtherStep ==
  ASSUME Inv, StageOther
  PROVE  Inv'
<1>1. [kind |-> "other"] \in Command
  BY DEF Command
<1>2. Sound(server')
  BY <1>1 DEF StageOther, Inv, Sound, InSession, ServerState
<1> QED
  BY <1>2, OwnerStep DEF StageOther, OwnerNext, Inv, OthersTyped

LEMMA SettleStoredStep ==
  ASSUME Inv, SettleStored
  PROVE  Inv'
<1> DEFINE command == server.staged
           s == Settled(server)
<1>1. command \in Command
  BY DEF SettleStored, Inv, Sound, ServerState
<1>2. Sound(s)
  BY SettledSound DEF Inv
<1>3. UNCHANGED <<inbox, client>>
  BY DEF SettleStored
<1>4. CASE command.kind = "choice"
  <2>1. ApplyChoice(s, command.from, command.to)
    BY <1>4 DEF SettleStored
  <2> QED
    BY <1>1, <1>2, <1>3, <1>4, <2>1, CommandParts, ApplyChoiceSound, OwnerStep
<1>5. CASE command.kind = "heard"
  <2>1. ApplyHeard(s, command.from)
    BY <1>5 DEF SettleStored
  <2> QED
    BY <1>1, <1>2, <1>3, <1>5, <2>1, CommandParts, ApplyHeardSound, OwnerStep
<1>6. CASE command.kind = "other"
  <2>1. Become(s, <<>>) /\ UNCHANGED done
    BY <1>6 DEF SettleStored
  <2> QED
    BY <1>2, <1>3, <2>1, BecomeSound, EventSeqs, OwnerStep DEF OwnerNext, Inv, OthersTyped
<1> QED
  BY <1>1, <1>4, <1>5, <1>6, CommandParts

LEMMA SettleOtherwiseStep ==
  ASSUME Inv, SettleOtherwise
  PROVE  Inv'
<1>1. Sound(server')
  <2>1. CASE server' = Settled(server)
    BY <2>1, SettledSound DEF Inv
  <2>2. CASE server' = [server EXCEPT !.control = "uncertain"]
    BY <2>2 DEF Inv, Sound, InSession, ServerState
  <2>3. CASE server' = [server EXCEPT !.control = "reconcile"]
    BY <2>3 DEF Inv, Sound, InSession, ServerState
  <2> QED
    BY <2>1, <2>2, <2>3 DEF SettleOtherwise
<1> QED
  BY <1>1, OwnerStep DEF SettleOtherwise, OwnerNext, Inv, OthersTyped

-----------------------------------------------------------------------------
(***************************************************************************)
(* The client                                                              *)
(***************************************************************************)
(* A step of the client that hears no event.                               *)
LEMMA ClientStep ==
  ASSUME Inv, ClientOnly, client' \in ClientState,
         inbox' \in Seq(Request), Len(inbox') <= InCap, lost' \in BOOLEAN
  PROVE  Inv'
BY DEF ClientOnly, Inv, OthersTyped, Sound, InSession

LEMMA SendTyped ==
  ASSUME Inv, NEW request \in Request, Send(request)
  PROVE  inbox' \in Seq(Request) /\ Len(inbox') <= InCap /\ lost' \in BOOLEAN
<1>1. inbox \in Seq(Request) /\ Len(inbox) <= InCap /\ lost \in BOOLEAN
  BY DEF Inv, OthersTyped
<1>2. CASE Len(inbox) < InCap
  BY <1>1, <1>2, Bounds DEF Send
<1>3. CASE ~(Len(inbox) < InCap)
  BY <1>1, <1>3 DEF Send
<1> QED
  BY <1>2, <1>3

LEMMA ClientParts ==
  ASSUME Inv
  PROVE  /\ client \in ClientState
         /\ client.ui \in Panel /\ client.accepted \in SessionId \cup {0}
         /\ client.line /= Nothing => client.line \in Talk
         /\ client.pending /= Nothing => client.pending \in Talk
BY DEF Inv, OthersTyped, ClientState

LEMMA ChooseTyped ==
  ASSUME Inv, NEW to \in Choosable, Choose(to)
  PROVE  inbox' \in Seq(Request) /\ Len(inbox') <= InCap /\ lost' \in BOOLEAN
<1>1. client.line \in Talk /\ to \in Leads[client.line.beat]
  BY ClientParts DEF Choosable
<1>2. client.line.id \in SessionId /\ client.line.beat \in Beat
  BY <1>1 DEF Talk
<1>3. to \in Beat \cup {End}
  BY <1>1, <1>2, DialogueAssumption DEF DialogueAssumption
<1>4. [ask |-> "choose", id |-> client.line.id, beat |-> client.line.beat, to |-> to] \in Request
  BY <1>2, <1>3 DEF Request
<1> QED
  BY <1>4, SendTyped DEF Choose

LEMMA AdvanceTyped ==
  ASSUME Inv, client.ui.state = "active", Advance
  PROVE  inbox' \in Seq(Request) /\ Len(inbox') <= InCap /\ lost' \in BOOLEAN
<1>1. [ask |-> "advance", id |-> client.ui.id] \in Request
  BY ClientParts, PanelParts DEF Request
<1> QED
  BY <1>1, SendTyped DEF Advance

LEMMA BeginCloseTyped ==
  ASSUME Inv, client.ui.state = "active", BeginClose
  PROVE  /\ client' \in ClientState
         /\ inbox' \in Seq(Request) /\ Len(inbox') <= InCap /\ lost' \in BOOLEAN
<1>1. client.ui.id \in SessionId /\ client.ui.target \in Target
  BY ClientParts, PanelParts
<1> DEFINE ui == [state |-> "closing", id |-> client.ui.id, target |-> client.ui.target]
<1>2. ui \in Panel
  BY <1>1 DEF Panel
<1>3. client' = [client EXCEPT !.ui = ui]
  BY ClientParts DEF BeginClose, ClientState
<1> HIDE DEF ui
<1>4. client' \in ClientState
  BY <1>2, <1>3, ClientParts DEF ClientState
<1>5. [ask |-> "close", id |-> client.ui.id] \in Request
  BY <1>1 DEF Request
<1> QED
  BY <1>4, <1>5, SendTyped DEF BeginClose

LEMMA PressStep ==
  ASSUME Inv, PressInteract
  PROVE  Inv'
<1>0. ClientOnly
  BY DEF PressInteract
<1>1. CASE /\ client.ui.state = "active" /\ UNCHANGED client
           /\ (\E to \in Choosable : Choose(to)) \/ Advance
  BY <1>0, <1>1, ChooseTyped, AdvanceTyped, ClientParts, ClientStep
<1>2. CASE client.ui.state = "active" /\ BeginClose
  BY <1>0, <1>2, BeginCloseTyped, ClientStep
<1>3. CASE \E target \in Target :
             /\ client' = [client EXCEPT !.ui = [state |-> "opening", target |-> target]]
             /\ Send([ask |-> "open", target |-> target])
  <2>1. PICK target \in Target :
          /\ client' = [client EXCEPT !.ui = [state |-> "opening", target |-> target]]
          /\ Send([ask |-> "open", target |-> target])
    BY <1>3
  <2> DEFINE ui == [state |-> "opening", target |-> target]
  <2>2. ui \in Panel /\ [ask |-> "open", target |-> target] \in Request
    BY DEF Panel, Request
  <2>3. client' = [client EXCEPT !.ui = ui]
    BY <2>1
  <2> HIDE DEF ui
  <2>4. client' \in ClientState
    BY <2>2, <2>3, ClientParts DEF ClientState
  <2> QED
    BY <1>0, <2>1, <2>2, <2>4, SendTyped, ClientStep
<1> QED
  BY <1>1, <1>2, <1>3 DEF PressInteract

LEMMA ClickStep ==
  ASSUME Inv, Click
  PROVE  Inv'
BY ChooseTyped, AdvanceTyped, ClientParts, ClientStep DEF Click

LEMMA EscapeStep ==
  ASSUME Inv, Escape
  PROVE  Inv'
BY BeginCloseTyped, ClientStep DEF Escape

LEMMA HeardTyped ==
  ASSUME NEW c \in ClientState, NEW event \in Event
  PROVE  Heard(c, event) \in ClientState
<1>1. CASE event.tell = "opened"
  BY <1>1 DEF Heard, ClientState
<1>2. CASE event.tell \in {"rejected", "closed"}
  BY <1>2 DEF Heard, ClientState
<1>3. CASE event.tell = "line"
  <2>1. event.talk \in Talk
    BY <1>3, EventParts
  <2>2. Heard(c, event) = Shown(c, event.talk)
    BY <1>3 DEF Heard
  <2> QED
    BY <2>1, <2>2 DEF Shown, ClientState
<1>4. CASE event.tell = "accepted"
  <2>1. event.talk.id \in SessionId
    BY <1>4, EventParts DEF Talk
  <2> QED
    BY <1>4, <2>1 DEF Heard, ClientState
<1> QED
  BY <1>1, <1>2, <1>3, <1>4, EventParts

LEMMA PanelTyped ==
  ASSUME NEW ui \in Panel, NEW event \in Event
  PROVE  PanelAfter(ui, event) \in Panel
<1>1. CASE event.tell = "opened"
  BY <1>1, EventParts DEF PanelAfter, Panel
<1>2. CASE event.tell \in {"rejected", "closed"}
  BY <1>2 DEF PanelAfter, Panel, Idle
<1>3. CASE event.tell \in {"line", "accepted"}
  BY <1>3 DEF PanelAfter
<1> QED
  BY <1>1, <1>2, <1>3, EventParts

LEMMA ApplyEventStep ==
  ASSUME Inv, ApplyEvent
  PROVE  Inv'
<1>1. outbox \in Seq(Event) /\ outbox # <<>> /\ Len(outbox) <= OutCap /\ outbox' = Tail(outbox)
  BY DEF ApplyEvent, Inv, OthersTyped
<1>2. Head(outbox) \in Event /\ outbox' \in Seq(Event) /\ Len(outbox') <= OutCap
  BY <1>1, Bounds
<1> DEFINE h == Heard(client, Head(outbox))
           ui == PanelAfter(h.ui, Head(outbox))
<1>3. h \in ClientState
  BY <1>2, ClientParts, HeardTyped
<1>4. ui \in Panel
  <2>1. h.ui \in Panel
    BY <1>3 DEF ClientState
  <2> HIDE DEF h
  <2> QED
    BY <1>2, <2>1, PanelTyped
<1>5. client' = [h EXCEPT !.ui = ui]
  BY <1>3 DEF ApplyEvent, ClientState
<1> HIDE DEF h, ui
<1>6. client' \in ClientState
  BY <1>3, <1>4, <1>5 DEF ClientState
<1> QED
  BY <1>2, <1>6 DEF ApplyEvent, Inv, OthersTyped, Sound, InSession

LEMMA FadesStep ==
  ASSUME Inv, AcceptanceFades
  PROVE  Inv'
<1>1. client' \in ClientState
  BY ClientParts DEF AcceptanceFades, ClientState
<1> QED
  BY <1>1, ClientStep DEF AcceptanceFades, Inv, OthersTyped

LEMMA MissingStep ==
  ASSUME Inv, TargetMissing
  PROVE  Inv'
<1>1. client' \in ClientState
  BY ClientParts DEF TargetMissing, ClientState
<1> QED
  BY <1>1, ClientStep DEF TargetMissing, Inv, OthersTyped

-----------------------------------------------------------------------------
LEMMA InitInv == Init => Inv
<1> SUFFICES ASSUME Init PROVE Inv
  OBVIOUS
<1>1. PICK durable \in BOOLEAN :
        server = [session |-> Nothing, talk |-> Nothing, locked |-> FALSE,
                  reopen |-> 0, opened |-> 0, heard |-> {}, staged |-> Nothing,
                  control |-> "free", durable |-> durable]
  BY DEF Init
<1>2. Sound(server)
  BY <1>1, Bounds DEF Sound, InSession, ServerState
<1>3. client \in ClientState
  BY DEF Init, ClientState, Panel, Idle
<1>4. /\ <<>> \in Seq(Request) /\ <<>> \in Seq(Event) /\ Len(<<>>) = 0
      /\ {} \in SUBSET (SessionId \X Beat) /\ FALSE \in BOOLEAN
  OBVIOUS
<1>5. 0 <= InCap /\ 0 <= OutCap
  BY Bounds
<1>6. inbox = <<>> /\ outbox = <<>> /\ done = {} /\ lost = FALSE
  BY DEF Init
<1> QED
  BY <1>2, <1>3, <1>4, <1>5, <1>6 DEF Inv, OthersTyped

LEMMA StepInv == Inv /\ [Next]_vars => Inv'
<1> SUFFICES ASSUME Inv, [Next]_vars PROVE Inv'
  OBVIOUS
<1>1. CASE PressInteract
  BY <1>1, PressStep
<1>2. CASE Click
  BY <1>2, ClickStep
<1>3. CASE Escape
  BY <1>3, EscapeStep
<1>4. CASE ApplyEvent
  BY <1>4, ApplyEventStep
<1>5. CASE AcceptanceFades
  BY <1>5, FadesStep
<1>6. CASE TargetMissing
  BY <1>6, MissingStep
<1>7. CASE Receive
  BY <1>7, ReceiveStep
<1>8. CASE Tick
  BY <1>8, TickStep
<1>9. CASE Relocate
  BY <1>9, RelocateStep
<1>10. CASE StageOther
  BY <1>10, StageOtherStep
<1>11. CASE SettleStored
  BY <1>11, SettleStoredStep
<1>12. CASE SettleOtherwise
  BY <1>12, SettleOtherwiseStep
<1>13. CASE UNCHANGED vars
  BY <1>13 DEF vars, Inv, OthersTyped, Sound, InSession
<1> QED
  BY <1>1, <1>2, <1>3, <1>4, <1>5, <1>6, <1>7, <1>8, <1>9, <1>10, <1>11, <1>12, <1>13 DEF Next

(* A conversation lives inside the interaction session it was opened in    *)
(* and holds the player exactly while it lasts: whatever the dialogue is,  *)
(* and however closes, replaced sessions, moves (clear_dialogue,           *)
(* finish_dialogue) and commits that are answered late (apply_choice_at)   *)
(* come in between.                                                        *)
THEOREM DialogueSound == Spec => []DialogueIsSound
<1>1. Inv => DialogueIsSound
  BY InvIsProperty
<1> QED
  BY InitInv, StepInv, <1>1, PTL DEF Spec
-----------------------------------------------------------------------------
(***************************************************************************)
(* One answer for a beat of a conversation.  A rank of the beats that      *)
(* grows along every choice says that no choice leads back to a beat.      *)
(***************************************************************************)
Ranks(rank) ==
  /\ rank \in [Beat -> Nat]
  /\ \A beat \in Beat : \A to \in Leads[beat] \ {End} : rank[to] > rank[beat]

(* No beat of session id has been answered.                                *)
Unanswered(id, d) == \A beat \in Beat : <<id, beat>> \notin d

(* The answered beats of a conversation come before the one it is at.      *)
Ahead(talk, d, rank) ==
  \A beat \in Beat : <<talk.id, beat>> \in d => rank[beat] < rank[talk.beat]

(* Session ids grow.  A session without a conversation has had no answer   *)
(* yet, and neither has one that was opened behind a command that is still *)
(* to be stored; the conversation of a choice waits for it.                *)
Ordered(s, d, rank) ==
  /\ s.session /= Nothing => s.session.id = s.opened
  /\ \A id \in SessionId : id > s.opened => Unanswered(id, d)
  /\ s.session /= Nothing /\ s.talk = Nothing => Unanswered(s.session.id, d)
  /\ s.talk /= Nothing => Ahead(s.talk, d, rank)
  /\ s.staged /= Nothing /\ s.staged.kind \in {"choice", "heard"} =>
       /\ s.durable
       /\ s.session /= Nothing /\ s.session.id /= s.staged.from.id =>
            Unanswered(s.session.id, d)
  /\ s.staged /= Nothing /\ s.staged.kind = "choice" =>
       /\ s.staged.from.id <= s.opened
       /\ Ahead(s.staged.from, d, rank)
       /\ s.staged.to \in Leads[s.staged.from.beat]
       /\ s.session /= Nothing /\ s.session.id = s.staged.from.id =>
            s.talk = s.staged.from

(* The rank is all it takes.                                               *)
LEMMA AheadIsUnanswered ==
  ASSUME NEW rank, Ranks(rank), NEW d, NEW talk \in Talk, Ahead(talk, d, rank)
  PROVE  <<talk.id, talk.beat>> \notin d
<1>1. talk.beat \in Beat /\ rank[talk.beat] \in Nat
  BY DEF Talk, Ranks
<1>2. ~(rank[talk.beat] < rank[talk.beat])
  BY <1>1
<1> QED
  BY <1>1, <1>2 DEF Ahead

LEMMA OrderedIsOnce ==
  ASSUME NEW rank, Ranks(rank), Inv, Ordered(server, done, rank)
  PROVE  ChosenOnce
<1> SUFFICES ASSUME NEW talk \in {server.talk, IF server.staged = Nothing THEN Nothing
                                  ELSE IF server.staged.kind = "choice" THEN server.staged.from
                                  ELSE Nothing},
                    talk /= Nothing
             PROVE  <<talk.id, talk.beat>> \notin done
  BY DEF ChosenOnce
<1>1. CASE talk = server.talk
  BY <1>1, AheadIsUnanswered DEF Inv, Sound, ServerState, Ordered
<1>2. CASE server.staged /= Nothing /\ server.staged.kind = "choice" /\ talk = server.staged.from
  <2>1. server.staged \in Command
    BY <1>2 DEF Inv, Sound, ServerState
  <2> QED
    BY <1>2, <2>1, CommandParts, AheadIsUnanswered DEF Ordered
<1> QED
  BY <1>1, <1>2

(* The session and its conversation stay, or end together; no choice and   *)
(* no heard beat is taken up.                                              *)
LEMMA OrderedKept ==
  ASSUME NEW rank, NEW d, NEW s, NEW t, Ordered(s, d, rank),
         t.opened = s.opened, t.durable = s.durable,
         \/ t.session = s.session /\ t.talk = s.talk
         \/ t.session = Nothing /\ t.talk = Nothing,
         \/ t.staged = s.staged
         \/ t.staged = Nothing
         \/ t.staged.kind \notin {"choice", "heard"}
  PROVE  Ordered(t, d, rank)
<1>1. CASE t.staged = s.staged
  BY <1>1 DEF Ordered
<1>2. CASE t.staged = Nothing \/ t.staged.kind \notin {"choice", "heard"}
  BY <1>2 DEF Ordered
<1> QED
  BY <1>1, <1>2

(* A session that is opened is a new one.                                  *)
LEMMA ReachedOrdered ==
  ASSUME NEW rank, NEW d \in SUBSET (SessionId \X Beat), NEW s, Sound(s), Ordered(s, d, rank),
         NEW target \in Target
  PROVE  Ordered(Matched(Reached(s, target)), d, rank)
<1> DEFINE r == Reached(s, target)
<1>1. CASE s.session /= Nothing /\ s.session.target = target
  <2>1. r = s
    BY <1>1 DEF Reached
  <2>2. Matched(s) = s
    BY <1>1 DEF Matched, Sound, InSession
  <2> QED
    BY <2>1, <2>2
<1>2. CASE ~(s.session /= Nothing /\ s.session.target = target)
  <2> DEFINE n == s.opened + 1
             x == [id |-> n, target |-> target]
  <2>1. r = [s EXCEPT !.session = x, !.opened = n]
    BY <1>2 DEF Reached, Sound, ServerState
  <2>2. x.id = n /\ x /= Nothing /\ n > s.opened /\ n \in Nat /\ s.opened \in Nat
    <3>1. DOMAIN x = {"id", "target"} /\ DOMAIN Nothing = {"nothing"}
      BY DEF Nothing
    <3> QED
      BY <3>1, Bounds DEF Sound, ServerState
  <2> HIDE DEF x, r
  <2>3. /\ r.session = x /\ r.opened = n /\ r.talk = s.talk /\ r.durable = s.durable
        /\ r.staged = s.staged
    BY <2>1 DEF Sound, ServerState
  <2> HIDE DEF n
  <2> DEFINE m == Matched(r)
  <2> SUFFICES Ordered(m, d, rank)
    BY DEF r
  <2>4. /\ m.session = x /\ m.opened = n /\ m.durable = s.durable /\ m.staged = s.staged
        /\ m.talk = Nothing
    <3>1. CASE s.talk = Nothing
      <4>1. m = r
        BY <3>1, <2>3 DEF Matched
      <4> QED
        BY <4>1, <3>1, <2>3
    <3>2. CASE s.talk /= Nothing
      <4>1. s.talk.id = s.opened
        BY <3>2 DEF Sound, InSession, Ordered
      <4>2. m = Cleared(r)
        BY <3>2, <4>1, <2>2, <2>3 DEF Matched
      <4> QED
        BY <4>2, <2>1, <2>3 DEF Cleared, Sound, ServerState
    <3> QED
      BY <3>1, <3>2
  <2> HIDE DEF m
  <2>5. Unanswered(n, d)
    <3>1. CASE n \in SessionId
      BY <3>1, <2>2 DEF Ordered
    <3>2. CASE n \notin SessionId
      BY <3>2 DEF Unanswered
    <3> QED
      BY <3>1, <3>2
  <2>6. \A id \in SessionId : id > n => Unanswered(id, d)
    BY <2>2 DEF Ordered, SessionId
  <2>7. ASSUME m.staged /= Nothing, m.staged.kind \in {"choice", "heard"}
        PROVE  m.durable
    BY <2>4, <2>7 DEF Ordered
  <2>8. ASSUME m.staged /= Nothing, m.staged.kind = "choice"
        PROVE  /\ m.staged.from.id <= n /\ m.staged.from.id /= n
               /\ Ahead(m.staged.from, d, rank)
               /\ m.staged.to \in Leads[m.staged.from.beat]
    <3>1. m.staged \in Command
      BY <2>4, <2>8 DEF Sound, ServerState
    <3>2. m.staged.from.id \in Nat
      BY <3>1, <2>8, CommandParts DEF Talk, SessionId
    <3>3. /\ m.staged.from.id <= s.opened
          /\ Ahead(m.staged.from, d, rank)
          /\ m.staged.to \in Leads[m.staged.from.beat]
      BY <2>4, <2>8 DEF Ordered
    <3>4. s.opened < n
      BY <2>2
    <3>5. m.staged.from.id < n
      BY <3>2, <3>3, <3>4, <2>2
    <3> QED
      BY <3>2, <3>3, <3>5, <2>2
  <2>9. m.session.id = n
    BY <2>2, <2>4
  <2>10. ASSUME m.staged /= Nothing, m.staged.kind = "choice"
         PROVE  ~(m.session.id = m.staged.from.id)
    BY <2>8, <2>9, <2>10
  <2>11. Unanswered(m.session.id, d)
    BY <2>5, <2>9
  <2> HIDE DEF m, n, x
  <2> QED
    BY <2>4, <2>6, <2>7, <2>8, <2>9, <2>10, <2>11 DEF Ordered
<1> QED
  BY <1>1, <1>2

(* A conversation that is begun has no answer yet.                         *)
LEMMA BeginOrdered ==
  ASSUME NEW rank, NEW d, NEW s, Sound(s), Ordered(s, d, rank),
         s.session /= Nothing, s.talk = Nothing, NEW talk \in Talk, talk.id = s.session.id
  PROVE  Ordered(Locked(s, talk), d, rank)
<1> DEFINE t == Locked(s, talk)
<1> SUFFICES Ordered(t, d, rank)
  OBVIOUS
<1>1. /\ t.session = s.session /\ t.opened = s.opened /\ t.durable = s.durable
      /\ t.staged = s.staged /\ t.talk = talk
  BY DEF Locked, Sound, ServerState
<1> HIDE DEF t
<1>2. Unanswered(talk.id, d)
  BY DEF Ordered
<1>3. Ahead(talk, d, rank)
  BY <1>2 DEF Ahead, Unanswered
<1>4. talk /= Nothing
  BY NothingIsNone
<1>5. ASSUME s.staged /= Nothing, s.staged.kind = "choice"
      PROVE  s.session.id /= s.staged.from.id
  <2>1. s.staged \in Command
    BY <1>5 DEF Sound, ServerState
  <2>2. s.staged.from /= Nothing
    BY <1>5, <2>1, CommandParts, NothingIsNone
  <2> QED
    BY <1>5, <2>2 DEF Ordered
<1> QED
  BY <1>1, <1>3, <1>4, <1>5 DEF Ordered

(* A choice or a heard beat of the conversation there is, to be stored.    *)
LEMMA StagedOrdered ==
  ASSUME NEW rank, NEW d, NEW s, Sound(s), Ordered(s, d, rank), s.durable, s.talk /= Nothing,
         NEW command \in Command, command.kind \in {"choice", "heard"}, command.from = s.talk,
         command.kind = "choice" => command.to \in Leads[s.talk.beat]
  PROVE  Ordered([s EXCEPT !.staged = command], d, rank)
<1> DEFINE t == [s EXCEPT !.staged = command]
<1> SUFFICES Ordered(t, d, rank)
  OBVIOUS
<1>1. /\ t.session = s.session /\ t.opened = s.opened /\ t.durable = s.durable
      /\ t.staged = command /\ t.talk = s.talk
  BY DEF Sound, ServerState
<1> HIDE DEF t
<1>2. s.session /= Nothing /\ s.talk.id = s.session.id
  BY DEF Sound, InSession
<1>3. s.talk.id = s.opened /\ s.opened \in Nat
  BY <1>2, Bounds DEF Ordered, Sound, ServerState
<1>4. s.talk.id <= s.opened
  BY <1>3
<1>5. Ahead(s.talk, d, rank)
  BY DEF Ordered
<1> QED
  BY <1>1, <1>2, <1>4, <1>5 DEF Ordered

LEMMA LaterIsAhead ==
  ASSUME NEW rank, Ranks(rank), NEW d, NEW from \in Talk, NEW to \in Beat,
         to \in Leads[from.beat], Ahead(from, d, rank)
  PROVE  Ahead([from EXCEPT !.beat = to], d \cup {<<from.id, from.beat>>}, rank)
<1> DEFINE next == [from EXCEPT !.beat = to]
<1> SUFFICES Ahead(next, d \cup {<<from.id, from.beat>>}, rank)
  OBVIOUS
<1>1. next.id = from.id /\ next.beat = to /\ from.beat \in Beat
  BY DEF Talk
<1>2. rank[to] > rank[from.beat] /\ rank[to] \in Nat /\ rank[from.beat] \in Nat
  BY <1>1, DialogueAssumption DEF Ranks, DialogueAssumption
<1> HIDE DEF next
<1>3. ASSUME NEW beat \in Beat, <<next.id, beat>> \in d \cup {<<from.id, from.beat>>}
      PROVE  rank[beat] < rank[next.beat]
  <2>1. CASE beat = from.beat
    BY <1>1, <1>2, <2>1
  <2>2. CASE beat /= from.beat
    <3>1. <<from.id, beat>> \in d
      BY <1>1, <1>3, <2>2
    <3>2. rank[beat] < rank[from.beat] /\ rank[beat] \in Nat
      BY <3>1 DEF Ahead, Ranks
    <3> QED
      BY <3>2, <1>1, <1>2
  <2> QED
    BY <2>1, <2>2
<1> QED
  BY <1>3 DEF Ahead

(* What a choice that is carried out must come with.                       *)
Answers(s, d, rank, from, to) ==
  /\ s.staged = Nothing \/ s.staged.kind \notin {"choice", "heard"}
  /\ from.id <= s.opened /\ Ahead(from, d, rank) /\ to \in Leads[from.beat]
  /\ s.session /= Nothing /\ s.session.id = from.id => s.talk = from
  /\ s.session /= Nothing /\ s.session.id /= from.id => Unanswered(s.session.id, d)

LEMMA CommittedOrdered ==
  ASSUME NEW rank, Ranks(rank), NEW d, NEW s, Sound(s), Ordered(s, d, rank),
         NEW from \in Talk, NEW to \in Beat \cup {End}, Answers(s, d, rank, from, to)
  PROVE  Ordered(Committed(Executed(s, from), from, to).state,
                 d \cup {<<from.id, from.beat>>}, rank)
<1> DEFINE e == Executed(s, from)
           d2 == d \cup {<<from.id, from.beat>>}
           t == Committed(e, from, to).state
<1> SUFFICES Ordered(t, d2, rank)
  OBVIOUS
<1>1. /\ Sound(e) /\ e.session = s.session /\ e.opened = s.opened /\ e.durable = s.durable
      /\ e.staged = s.staged /\ e.talk = s.talk
  BY ExecutedSound DEF Executed, Sound, ServerState
<1>2. \A id : id /= from.id /\ Unanswered(id, d) => Unanswered(id, d2)
  BY DEF Unanswered
<1>3. \A talk : talk.id /= from.id /\ Ahead(talk, d, rank) => Ahead(talk, d2, rank)
  BY DEF Ahead
<1>4. \A id \in SessionId : id > s.opened => Unanswered(id, d2)
  <2>1. from.id \in Nat /\ s.opened \in Nat
    BY Bounds DEF Talk, SessionId, Sound, ServerState
  <2>2. \A id \in SessionId : id > s.opened => id /= from.id
    BY <2>1 DEF Answers, SessionId
  <2> QED
    BY <1>2, <2>2 DEF Ordered
<1>5. from /= Nothing
  BY NothingIsNone
<1> HIDE DEF d2
<1>6. CASE e.talk /= from
  <2>1. t = e
    BY <1>6 DEF Committed
  <2>2. e.session /= Nothing => e.session.id /= from.id
    BY <1>1, <1>6 DEF Answers
  <2>3. e.session /= Nothing /\ e.talk = Nothing => Unanswered(e.session.id, d2)
    BY <1>1, <1>2, <2>2 DEF Ordered
  <2>4. e.talk /= Nothing => Ahead(e.talk, d2, rank)
    BY <1>1, <1>3, <2>2 DEF Ordered, Sound, InSession
  <2> HIDE DEF e, t
  <2> QED
    BY <1>1, <1>4, <2>1, <2>3, <2>4 DEF Ordered, Answers
<1>7. CASE e.talk = from /\ to = End
  <2>1. t = Cleared(Shut(e, from.id))
    BY <1>7 DEF Committed
  <2>2. e.session /= Nothing /\ e.session.id = from.id
    BY <1>1, <1>5, <1>7 DEF Sound, InSession
  <2> HIDE DEF e
  <2>3. Shut(e, from.id) = [e EXCEPT !.session = Nothing]
    BY <2>2 DEF Shut
  <2>4. /\ t.session = Nothing /\ t.talk = Nothing /\ t.opened = e.opened
        /\ t.durable = e.durable /\ t.staged = e.staged
    BY <2>1, <2>3, <1>1 DEF Cleared, Sound, ServerState
  <2> HIDE DEF t
  <2> QED
    BY <1>1, <1>4, <2>4 DEF Ordered, Answers
<1>8. CASE e.talk = from /\ to /= End
  <2> DEFINE next == [from EXCEPT !.beat = to]
  <2>1. t = [e EXCEPT !.talk = next]
    BY <1>8 DEF Committed
  <2>2. next.id = from.id /\ next /= Nothing
    <3>1. next \in Talk
      BY <1>8 DEF Talk
    <3> QED
      BY <3>1, NothingIsNone DEF Talk
  <2>3. Ahead(next, d2, rank)
    BY <1>8, LaterIsAhead DEF Answers, d2
  <2> HIDE DEF e, t, next
  <2>4. /\ t.session = e.session /\ t.talk = next /\ t.opened = e.opened
        /\ t.durable = e.durable /\ t.staged = e.staged
    BY <2>1, <1>1 DEF Sound, ServerState
  <2> QED
    BY <1>1, <1>4, <2>2, <2>3, <2>4 DEF Ordered, Answers
<1> QED
  BY <1>6, <1>7, <1>8 DEF d2

(* A beat that has been heard ends the session it was heard in, and        *)
(* whatever conversation there is; the session of that one has had no      *)
(* answer yet.                                                             *)
LEMMA HeardOrdered ==
  ASSUME NEW rank, NEW d, NEW s, Sound(s), Ordered(s, d, rank), NEW from \in Talk,
         s.staged = Nothing \/ s.staged.kind \notin {"choice", "heard"},
         s.session /= Nothing /\ s.session.id /= from.id => Unanswered(s.session.id, d)
  PROVE  Ordered(Finished(Shut(Executed(s, from), from.id)), d, rank)
<1> DEFINE e == Executed(s, from)
           h == Shut(e, from.id)
           t == Finished(h)
<1> SUFFICES Ordered(t, d, rank)
  OBVIOUS
<1>1. /\ Sound(e) /\ e.session = s.session /\ e.opened = s.opened /\ e.durable = s.durable
      /\ e.staged = s.staged /\ e.talk = s.talk
  BY ExecutedSound DEF Executed, Sound, ServerState
<1> HIDE DEF e
<1>2. /\ h.session = (IF e.session /= Nothing /\ e.session.id = from.id THEN Nothing
                      ELSE e.session)
      /\ h.opened = e.opened /\ h.durable = e.durable /\ h.staged = e.staged
      /\ h \in ServerState
  BY <1>1, ShutTyped DEF Shut, Sound, ServerState
<1> HIDE DEF h
<1>3. /\ t.session = h.session /\ t.opened = h.opened /\ t.durable = h.durable
      /\ t.staged = h.staged /\ t.talk = Nothing
  BY <1>2 DEF Finished, Cleared, ServerState
<1> HIDE DEF t
<1> QED
  BY <1>1, <1>2, <1>3 DEF Ordered

(* What a request does to the order of answers.                            *)
LEMMA OpenOrdered ==
  ASSUME NEW rank, Inv, Ordered(server, done, rank), NEW target \in Target, HandleOpen(target),
         UNCHANGED done
  PROVE  Ordered(server', done', rank)
<1> DEFINE s == Matched(Reached(server, target))
<1>1. CASE Become(server, <<Rejected>>)
  BY <1>1 DEF Become
<1>2. CASE s.opened <= MaxSessions
           /\ \/ target \notin Npc /\ Become(s, <<Opened(s.session)>>)
              \/ target \in Npc /\ s.talk = Nothing /\ BeginTalk(s)
              \/ /\ target \in Npc /\ s.talk /= Nothing
                 /\ Become(Locked(s, s.talk), <<Opened(s.session), Line(s.talk)>>)
  <2>1. Sound(s) /\ s.session \in [id : SessionId, target : Target] /\ s.session.target = target
    BY <1>2, ReachedSound DEF Inv
  <2>2. Ordered(s, done, rank)
    BY ReachedOrdered DEF Inv, OthersTyped
  <2> HIDE DEF s
  <2>3. s \in ServerState /\ s.session /= Nothing
    BY <2>1, NothingIsNone DEF Sound
  <2>4. CASE Become(s, <<Opened(s.session)>>)
    BY <2>2, <2>4 DEF Become
  <2>5. CASE target \in Npc /\ s.talk = Nothing /\ BeginTalk(s)
    <3>1. CASE \E beat \in Selectable(s) :
                 LET talk == [id |-> s.session.id, target |-> s.session.target, beat |-> beat]
                 IN  Become(Locked(s, talk), <<Opened(s.session), Line(talk)>>)
      <4>1. PICK beat \in Selectable(s) :
              LET talk == [id |-> s.session.id, target |-> s.session.target, beat |-> beat]
              IN  Become(Locked(s, talk), <<Opened(s.session), Line(talk)>>)
        BY <3>1
      <4> DEFINE talk == [id |-> s.session.id, target |-> s.session.target, beat |-> beat]
      <4>2. beat \in Beat
        BY DialogueAssumption DEF Selectable, DialogueAssumption
      <4>3. talk \in Talk /\ talk.id = s.session.id
        BY <4>2, <2>1, <2>5 DEF Talk
      <4>4. server' = Locked(s, talk)
        BY <4>1 DEF Become
      <4> HIDE DEF talk
      <4> QED
        BY <4>3, <4>4, <2>1, <2>2, <2>3, <2>5, BeginOrdered
    <3>2. CASE Become(Cleared(Shut(s, s.session.id)), <<Rejected>>)
      <4>1. server' = Cleared([s EXCEPT !.session = Nothing])
        BY <2>3, <3>2 DEF Become, Shut
      <4>2. /\ server'.session = Nothing /\ server'.talk = Nothing
            /\ server'.opened = s.opened /\ server'.durable = s.durable
            /\ server'.staged = s.staged
        BY <4>1, <2>3 DEF Cleared, ServerState
      <4> QED
        BY <2>2, <4>2, OrderedKept
    <3> QED
      BY <2>5, <3>1, <3>2 DEF BeginTalk
  <2>6. CASE s.talk /= Nothing /\ Become(Locked(s, s.talk), <<Opened(s.session), Line(s.talk)>>)
    <3>1. /\ server'.session = s.session /\ server'.talk = s.talk
          /\ server'.opened = s.opened /\ server'.durable = s.durable
          /\ server'.staged = s.staged
      BY <2>3, <2>6 DEF Become, Locked, ServerState
    <3> QED
      BY <2>2, <3>1, OrderedKept
  <2> QED
    BY <1>2, <2>4, <2>5, <2>6
<1> QED
  BY <1>1, <1>2 DEF HandleOpen

(* A session that is closed takes its conversation with it.                *)
LEMMA ShutOrdered ==
  ASSUME NEW rank, NEW d, NEW s, Sound(s), Ordered(s, d, rank), s.session /= Nothing
  PROVE  Ordered(Finished(Shut(s, s.session.id)), d, rank)
<1> DEFINE h == [s EXCEPT !.session = Nothing]
           t == Finished(h)
<1>1. Shut(s, s.session.id) = h
  BY DEF Shut
<1> SUFFICES Ordered(t, d, rank)
  BY <1>1
<1>2. /\ t.session = Nothing /\ t.talk = Nothing /\ t.opened = s.opened
      /\ t.durable = s.durable /\ t.staged = s.staged
  BY DEF Finished, Cleared, Sound, ServerState
<1> HIDE DEF t, h
<1> QED
  BY <1>2, OrderedKept

LEMMA CloseOrdered ==
  ASSUME NEW rank, Inv, Ordered(server, done, rank), NEW id, HandleClose(id), UNCHANGED done
  PROVE  Ordered(server', done', rank)
<1>1. CASE server.session /= Nothing /\ server.session.id = id
  BY <1>1, ShutOrdered DEF HandleClose, Become, Inv
<1>2. CASE ~(server.session /= Nothing /\ server.session.id = id)
  BY <1>2 DEF HandleClose, Become
<1> QED
  BY <1>1, <1>2

LEMMA StageOrdered ==
  ASSUME NEW rank, Inv, Ordered(server, done, rank), server.durable, server.talk /= Nothing,
         NEW command \in Command, command.kind \in {"choice", "heard"},
         command.from = server.talk,
         command.kind = "choice" => command.to \in Leads[server.talk.beat],
         Stage(command), UNCHANGED done
  PROVE  Ordered(server', done', rank)
<1>1. CASE Ignore
  BY <1>1 DEF Ignore, Become
<1>2. CASE Become([server EXCEPT !.staged = command], <<>>)
  BY <1>2, StagedOrdered DEF Become, Inv
<1> QED
  BY <1>1, <1>2 DEF Stage

(* Without a store nothing is left for later.                              *)
LEMMA AtOnce ==
  ASSUME NEW rank, Inv, Ordered(server, done, rank), ~server.durable
  PROVE  server.staged = Nothing \/ server.staged.kind \notin {"choice", "heard"}
BY DEF Ordered

LEMMA AdvanceOrdered ==
  ASSUME NEW rank, Inv, Ordered(server, done, rank), NEW id \in SessionId, HandleAdvance(id)
  PROVE  Ordered(server', done', rank)
<1> DEFINE talk == server.talk
<1>1. CASE Ignore /\ UNCHANGED done
  BY <1>1 DEF Ignore, Become
<1>2. CASE Become(server, <<Line(talk)>>) /\ UNCHANGED done
  BY <1>2 DEF Become
<1>3. CASE InTalk(id) /\ server.durable /\ Stage([kind |-> "heard", from |-> talk])
           /\ UNCHANGED done
  <2> DEFINE command == [kind |-> "heard", from |-> talk]
  <2>1. command \in Command /\ command.kind = "heard" /\ command.from = talk
    BY <1>3, TalkNow DEF Command
  <2>2. talk /= Nothing
    BY <1>3 DEF InTalk
  <2> HIDE DEF command
  <2> QED
    BY <1>3, <2>1, <2>2, StageOrdered DEF command
<1>4. CASE InTalk(id) /\ ~server.durable /\ ApplyHeard(server, talk)
  <2>1. talk \in Talk /\ talk.id = server.session.id
    BY <1>4, TalkNow DEF InTalk
  <2>2. Ordered(Finished(Shut(Executed(server, talk), talk.id)), done, rank)
    BY <1>4, <2>1, AtOnce, HeardOrdered DEF Inv
  <2> QED
    BY <1>4, <2>2 DEF ApplyHeard, Become
<1> QED
  BY <1>1, <1>2, <1>3, <1>4 DEF HandleAdvance

LEMMA ChooseOrdered ==
  ASSUME NEW rank, Ranks(rank), Inv, Ordered(server, done, rank), NEW id \in SessionId,
         NEW beat \in Beat, NEW to \in Beat \cup {End}, HandleChoose(id, beat, to)
  PROVE  Ordered(server', done', rank)
<1> DEFINE talk == server.talk
<1>1. CASE Ignore /\ UNCHANGED done
  BY <1>1 DEF Ignore, Become
<1>2. CASE /\ Plans(id, beat, to) /\ server.durable /\ UNCHANGED done
           /\ Stage([kind |-> "choice", from |-> talk, to |-> to])
  <2> DEFINE command == [kind |-> "choice", from |-> talk, to |-> to]
  <2>1. /\ command \in Command /\ command.kind = "choice" /\ command.from = talk
        /\ command.to \in Leads[talk.beat]
    BY <1>2, TalkNow DEF Command, Plans
  <2>2. talk /= Nothing
    BY <1>2 DEF InTalk, Plans
  <2> HIDE DEF command
  <2> QED
    BY <1>2, <2>1, <2>2, StageOrdered DEF command
<1>3. CASE Plans(id, beat, to) /\ ~server.durable /\ ApplyChoice(server, talk, to)
  <2>1. /\ talk \in Talk /\ talk.id = server.session.id /\ server.session /= Nothing
        /\ talk /= Nothing /\ to \in Leads[talk.beat]
    BY <1>3, TalkNow DEF InTalk, Plans
  <2>2. talk.id <= server.opened
    <3>1. talk.id = server.opened /\ talk.id \in Nat
      BY <2>1 DEF Ordered, Talk, SessionId
    <3> QED
      BY <3>1
  <2>3. Answers(server, done, rank, talk, to)
    BY <1>3, <2>1, <2>2, AtOnce DEF Answers, Ordered
  <2> QED
    BY <1>3, <2>1, <2>3, CommittedOrdered DEF ApplyChoice, Become, Inv
<1> QED
  BY <1>1, <1>2, <1>3 DEF HandleChoose

LEMMA ReceiveOrdered ==
  ASSUME NEW rank, Ranks(rank), Inv, Ordered(server, done, rank), Receive
  PROVE  Ordered(server', done', rank)
<1> DEFINE request == Head(inbox)
<1>1. request \in Request
  BY DEF Receive, Inv, OthersTyped
<1>2. CASE Drop
  BY <1>2 DEF Drop
<1>3. CASE Handle(request)
  <2> HIDE DEF request
  <2>1. CASE request.ask = "open"
    BY <1>1, <1>3, <2>1, RequestParts, OpenOrdered DEF Handle
  <2>2. CASE request.ask = "close"
    BY <1>1, <1>3, <2>2, RequestParts, CloseOrdered DEF Handle
  <2>3. CASE request.ask = "advance"
    BY <1>1, <1>3, <2>3, RequestParts, AdvanceOrdered DEF Handle
  <2>4. CASE request.ask = "choose"
    BY <1>1, <1>3, <2>4, RequestParts, ChooseOrdered DEF Handle
  <2> QED
    BY <1>1, <2>1, <2>2, <2>3, <2>4, RequestParts
<1> QED
  BY <1>2, <1>3 DEF Receive

LEMMA SettleOrdered ==
  ASSUME NEW rank, Ranks(rank), Inv, Ordered(server, done, rank), SettleStored
  PROVE  Ordered(server', done', rank)
<1> DEFINE command == server.staged
           s == Settled(server)
<1>1. command \in Command /\ command /= Nothing
  BY DEF SettleStored, Inv, Sound, ServerState
<1>2. /\ Sound(s) /\ s.session = server.session /\ s.talk = server.talk
      /\ s.opened = server.opened /\ s.durable = server.durable /\ s.staged = Nothing
  BY SettledSound DEF Inv, Settled, Sound, ServerState
<1>3. CASE command.kind = "choice"
  <2>1. ApplyChoice(s, command.from, command.to)
    BY <1>3 DEF SettleStored
  <2> HIDE DEF s
  <2>2. Ordered(s, done, rank)
    BY <1>2, OrderedKept
  <2>3. Answers(s, done, rank, command.from, command.to)
    BY <1>1, <1>2, <1>3 DEF Answers, Ordered
  <2>4. command.from \in Talk /\ command.to \in Beat \cup {End}
    BY <1>1, <1>3, CommandParts
  <2> QED
    BY <1>2, <2>1, <2>2, <2>3, <2>4, CommittedOrdered DEF ApplyChoice, Become
<1>4. CASE command.kind = "heard"
  <2>1. ApplyHeard(s, command.from)
    BY <1>4 DEF SettleStored
  <2> HIDE DEF s
  <2>2. Ordered(s, done, rank)
    BY <1>2, OrderedKept
  <2>3. s.session /= Nothing /\ s.session.id /= command.from.id => Unanswered(s.session.id, done)
    BY <1>1, <1>2, <1>4 DEF Ordered
  <2>4. command.from \in Talk
    BY <1>1, <1>4, CommandParts
  <2>5. Ordered(Finished(Shut(Executed(s, command.from), command.from.id)), done, rank)
    BY <1>2, <2>2, <2>3, <2>4, HeardOrdered
  <2> QED
    BY <2>1, <2>5 DEF ApplyHeard, Become
<1>5. CASE command.kind = "other"
  <2>1. server' = s /\ UNCHANGED done
    BY <1>5 DEF SettleStored, Become
  <2> HIDE DEF s
  <2> QED
    BY <1>2, <2>1, OrderedKept
<1> QED
  BY <1>1, <1>3, <1>4, <1>5, CommandParts

LEMMA TickOrdered ==
  ASSUME NEW rank, Inv, Ordered(server, done, rank), Tick
  PROVE  Ordered(server', done', rank)
<1> DEFINE r == IF server.reopen = 0 THEN 0 ELSE server.reopen - 1
           s == [server EXCEPT !.reopen = r]
<1>1. r \in 0 .. Cooldown
  BY Bounds DEF Inv, Sound, ServerState
<1>2. s = [server EXCEPT !.reopen = IF @ = 0 THEN 0 ELSE @ - 1]
  BY DEF Inv, Sound, ServerState
<1>3. server' = s \/ (server.session /= Nothing /\ server' = Finished(Shut(s, s.session.id)))
  BY <1>2 DEF Tick, Become
<1> HIDE DEF r
<1>4. /\ Sound(s) /\ s.session = server.session /\ s.talk = server.talk
      /\ s.opened = server.opened /\ s.durable = server.durable /\ s.staged = server.staged
  BY <1>1 DEF Inv, Sound, InSession, ServerState
<1> HIDE DEF s
<1>5. Ordered(s, done, rank)
  BY <1>4, OrderedKept
<1>6. UNCHANGED done
  BY DEF Tick
<1> QED
  BY <1>3, <1>4, <1>5, <1>6, ShutOrdered

LEMMA RelocateOrdered ==
  ASSUME NEW rank, Inv, Ordered(server, done, rank), Relocate
  PROVE  Ordered(server', done', rank)
<1>1. UNCHANGED done
  BY DEF Relocate
<1>2. CASE server' = Moved(server)
  <2>1. /\ server'.session = Nothing /\ server'.talk = Nothing
        /\ server'.opened = server.opened /\ server'.durable = server.durable
        /\ server'.staged = server.staged
    BY <1>2 DEF Moved, Cleared, Inv, Sound, ServerState
  <2> QED
    BY <1>1, <2>1, OrderedKept
<1>3. CASE server' = server
  BY <1>1, <1>3
<1> QED
  BY <1>2, <1>3 DEF Relocate, Become

(* Another command of the player, and the answers that carry nothing out.  *)
LEMMA OthersOrdered ==
  ASSUME NEW rank, Inv, Ordered(server, done, rank), StageOther \/ SettleOtherwise
  PROVE  Ordered(server', done', rank)
<1>1. /\ server'.session = server.session /\ server'.talk = server.talk
      /\ server'.opened = server.opened /\ server'.durable = server.durable
      /\ UNCHANGED done
  BY DEF StageOther, SettleOtherwise, Settled, Inv, Sound, ServerState
<1>2. \/ server'.staged = server.staged
      \/ server'.staged = Nothing
      \/ server'.staged.kind = "other"
  <2>1. CASE StageOther
    <3>1. server'.staged = [kind |-> "other"]
      BY <2>1 DEF StageOther, Inv, Sound, ServerState
    <3> QED
      BY <3>1
  <2>2. CASE SettleOtherwise
    BY <2>2 DEF SettleOtherwise, Settled, Inv, Sound, ServerState
  <2> QED
    BY <2>1, <2>2
<1>3. server'.staged.kind = "other" => server'.staged.kind \notin {"choice", "heard"}
  OBVIOUS
<1> QED
  BY <1>1, <1>2, <1>3, OrderedKept

LEMMA StepOrdered ==
  ASSUME NEW rank, Ranks(rank), Inv, Ordered(server, done, rank), [Next]_vars
  PROVE  Ordered(server', done', rank)
<1>1. CASE UNCHANGED <<server, done>>
  BY <1>1
<1>2. CASE Receive
  BY <1>2, ReceiveOrdered
<1>3. CASE Tick
  BY <1>3, TickOrdered
<1>4. CASE Relocate
  BY <1>4, RelocateOrdered
<1>5. CASE StageOther \/ SettleOtherwise
  BY <1>5, OthersOrdered
<1>6. CASE SettleStored
  BY <1>6, SettleOrdered
<1>7. CASE PressInteract \/ Click \/ Escape
  <2>1. UNCHANGED <<server, done>>
    BY <1>7 DEF PressInteract, Click, Escape, ClientOnly
  <2> QED
    BY <2>1
<1>8. CASE ApplyEvent \/ AcceptanceFades \/ TargetMissing
  <2>1. UNCHANGED <<server, done>>
    BY <1>8 DEF ApplyEvent, AcceptanceFades, TargetMissing, ClientOnly
  <2> QED
    BY <2>1
<1> QED
  BY <1>1, <1>2, <1>3, <1>4, <1>5, <1>6, <1>7, <1>8 DEF Next, vars

(* The choice of a beat is carried out once in a conversation, whatever    *)
(* the player asks twice, closes or reopens while the commit of the first  *)
(* (commit_choice) is on its way, in every dialogue whose choices do not   *)
(* lead back: the beats can be ranked so that they grow along them.        *)
THEOREM ChoicesAreOnce ==
  ASSUME NEW rank, Ranks(rank)
  PROVE  Spec => []ChosenOnce
<1> DEFINE Order == Inv /\ Ordered(server, done, rank)
<1>1. Init => Order
  <2> SUFFICES ASSUME Init PROVE Ordered(server, done, rank)
    BY InitInv
  <2> QED
    BY DEF Init, Ordered, Unanswered
<1>2. Order /\ [Next]_vars => Order'
  <2> SUFFICES ASSUME Order, [Next]_vars PROVE Order'
    OBVIOUS
  <2>1. Ordered(server', done', rank)
    BY StepOrdered
  <2> QED
    BY <2>1, StepInv DEF Ordered, Unanswered, Ahead
<1>3. Order => ChosenOnce
  BY OrderedIsOnce
<1> QED
  BY <1>1, <1>2, <1>3, PTL DEF Spec
-----------------------------------------------------------------------------
(***************************************************************************)
(* What the panel shows when everything has been heard.  The panel is      *)
(* followed through the events that are on their way to it: the last one   *)
(* that changes the panel, and the last one that carries a line, tell what *)
(* it will show, and both are told of the session and the conversation     *)
(* there are now.  All of it is lost with the first event that is lost.    *)
(***************************************************************************)
(* Events that change the panel, and the line it shows last.               *)
Tells(e) == e.tell \in {"opened", "rejected", "closed"}
LastLine(c) == IF c.pending /= Nothing THEN c.pending ELSE c.line

(* No event of q after the n-th changes the panel, or carries a line.      *)
Silent(q, n) == \A j \in 1 .. Len(q) : j > n => ~Tells(q[j])
Speechless(q, n) == \A j \in 1 .. Len(q) : j > n => q[j].tell /= "line"

(* The session of a panel is the one there is, with its conversation.      *)
Shows(s, id, target) ==
  /\ s.session = [id |-> id, target |-> target]
  /\ target \in Npc => s.talk /= Nothing

(* The last event on its way that changes the panel opens the session      *)
(* there is, and its line follows; the last line is of the beat there is.  *)
Foretold(s, q) ==
  \A j \in 1 .. Len(q) : Silent(q, j) =>
    /\ q[j].tell = "opened" =>
         Shows(s, q[j].id, q[j].target) /\ (s.talk /= Nothing => ~Speechless(q, j))
    /\ q[j].tell = "line" /\ Speechless(q, j) => q[j].talk = s.talk

(* When nothing on its way changes the panel, it shows the session there   *)
(* is, and its line if none is on its way.                                 *)
Displayed(s, q, c) ==
  Silent(q, 0) /\ c.ui.state = "active" =>
    /\ Shows(s, c.ui.id, c.ui.target)
    /\ Speechless(q, 0) /\ LastLine(c) /= Nothing /\ LastLine(c).id = c.ui.id =>
         LastLine(c) = s.talk

(* An open or a close that the panel waits for is asked or answered.       *)
Awaited(b, q, c) ==
  c.ui.state \in {"opening", "closing"} =>
    (\E j \in 1 .. Len(b) : b[j].ask \in {"open", "close"}) \/ ~Silent(q, 0)

(* A conversation is of one target, which is the session's if it is that.  *)
Rooted(s, talk) ==
  /\ talk.id <= s.opened
  /\ s.session /= Nothing /\ s.session.id = talk.id => s.session.target = talk.target

Spoken(s, q, c) ==
  /\ \A j \in 1 .. Len(q) : q[j].tell = "line" => Rooted(s, q[j].talk)
  /\ c.line /= Nothing => Rooted(s, c.line)
  /\ c.pending /= Nothing => Rooted(s, c.pending)

Numbered(s) == s.session /= Nothing => s.session.id <= s.opened

PanelInv ==
  ~lost =>
    /\ Numbered(server) /\ Foretold(server, outbox) /\ Displayed(server, outbox, client)
    /\ Awaited(inbox, outbox, client) /\ Spoken(server, outbox, client)

-----------------------------------------------------------------------------
(* Queues of events.                                                       *)
LEMMA Joined ==
  ASSUME NEW q \in Seq(Event), NEW es \in Seq(Event)
  PROVE  /\ q \o es \in Seq(Event) /\ Len(q \o es) = Len(q) + Len(es)
         /\ Len(q) \in Nat /\ Len(es) \in Nat
         /\ \A j \in 1 .. Len(q) : (q \o es)[j] = q[j]
         /\ \A j \in 1 .. Len(es) : (q \o es)[Len(q) + j] = es[j]
OBVIOUS

(* A place in a joined queue is in one of the two.                         *)
LEMMA JoinedPlace ==
  ASSUME NEW a \in Nat, NEW b \in Nat, NEW j \in 1 .. a + b
  PROVE  \/ j \in 1 .. a
         \/ j - a \in 1 .. b /\ j = a + (j - a)
OBVIOUS

LEMMA JoinedSilent ==
  ASSUME NEW q \in Seq(Event), NEW es \in Seq(Event)
  PROVE  /\ \A n \in 0 .. Len(q) :
              /\ Silent(q \o es, n) <=> Silent(q, n) /\ Silent(es, 0)
              /\ Speechless(q \o es, n) <=> Speechless(q, n) /\ Speechless(es, 0)
         /\ \A k \in 1 .. Len(es) :
              /\ Silent(q \o es, Len(q) + k) <=> Silent(es, k)
              /\ Speechless(q \o es, Len(q) + k) <=> Speechless(es, k)
<1> DEFINE r == q \o es
           a == Len(q)
           b == Len(es)
<1>1. /\ a \in Nat /\ b \in Nat /\ Len(r) = a + b
      /\ \A j \in 1 .. a : r[j] = q[j]
      /\ \A j \in 1 .. b : r[a + j] = es[j]
  BY Joined
<1> SUFFICES /\ \A n \in 0 .. a :
                  /\ Silent(r, n) <=> Silent(q, n) /\ Silent(es, 0)
                  /\ Speechless(r, n) <=> Speechless(q, n) /\ Speechless(es, 0)
             /\ \A k \in 1 .. b :
                  /\ Silent(r, a + k) <=> Silent(es, k)
                  /\ Speechless(r, a + k) <=> Speechless(es, k)
  OBVIOUS
<1>2. a = Len(q) /\ b = Len(es)
  OBVIOUS
<1> HIDE DEF r, a, b
<1>3. \A j \in 1 .. a + b : j \in 1 .. a \/ (j - a \in 1 .. b /\ j = a + (j - a))
  BY <1>1, JoinedPlace
<1>4. \A k \in 1 .. b : a + k \in 1 .. a + b /\ a + k > a
  BY <1>1
<1>5. ASSUME NEW n \in 0 .. a
      PROVE  /\ Silent(r, n) <=> Silent(q, n) /\ Silent(es, 0)
             /\ Speechless(r, n) <=> Speechless(q, n) /\ Speechless(es, 0)
  <2>1. \A k \in 1 .. b : a + k > n /\ k > 0
    BY <1>1
  <2>2. \A j \in 1 .. a : j \in 1 .. a + b
    BY <1>1
  <2>3. ASSUME Silent(r, n) PROVE Silent(q, n) /\ Silent(es, 0)
    BY <2>3, <2>1, <2>2, <1>1, <1>2, <1>4 DEF Silent
  <2>4. ASSUME Silent(q, n), Silent(es, 0) PROVE Silent(r, n)
    <3> SUFFICES ASSUME NEW j \in 1 .. a + b, j > n PROVE ~Tells(r[j])
      BY <1>1 DEF Silent
    <3>1. CASE j \in 1 .. a
      BY <2>4, <3>1, <1>1, <1>2 DEF Silent
    <3>2. CASE j - a \in 1 .. b /\ j = a + (j - a)
      <4>1. j - a > 0
        BY <3>2
      <4> QED
        BY <2>4, <3>2, <4>1, <1>1, <1>2 DEF Silent
    <3> QED
      BY <3>1, <3>2, <1>3
  <2>5. ASSUME Speechless(r, n) PROVE Speechless(q, n) /\ Speechless(es, 0)
    BY <2>5, <2>1, <2>2, <1>1, <1>2, <1>4 DEF Speechless
  <2>6. ASSUME Speechless(q, n), Speechless(es, 0) PROVE Speechless(r, n)
    <3> SUFFICES ASSUME NEW j \in 1 .. a + b, j > n PROVE r[j].tell /= "line"
      BY <1>1 DEF Speechless
    <3>1. CASE j \in 1 .. a
      BY <2>6, <3>1, <1>1, <1>2 DEF Speechless
    <3>2. CASE j - a \in 1 .. b /\ j = a + (j - a)
      <4>1. j - a > 0
        BY <3>2
      <4> QED
        BY <2>6, <3>2, <4>1, <1>1, <1>2 DEF Speechless
    <3> QED
      BY <3>1, <3>2, <1>3
  <2> QED
    BY <2>3, <2>4, <2>5, <2>6
<1>6. ASSUME NEW k \in 1 .. b
      PROVE  /\ Silent(r, a + k) <=> Silent(es, k)
             /\ Speechless(r, a + k) <=> Speechless(es, k)
  <2>1. \A i \in 1 .. b : i > k <=> a + i > a + k
    BY <1>1
  <2>2. \A j \in 1 .. a : ~(j > a + k)
    BY <1>1
  <2>3. ASSUME Silent(r, a + k) PROVE Silent(es, k)
    BY <2>3, <2>1, <1>1, <1>2, <1>4 DEF Silent
  <2>4. ASSUME Silent(es, k) PROVE Silent(r, a + k)
    <3> SUFFICES ASSUME NEW j \in 1 .. a + b, j > a + k PROVE ~Tells(r[j])
      BY <1>1 DEF Silent
    <3>1. j - a \in 1 .. b /\ j = a + (j - a)
      BY <2>2, <1>3
    <3>2. j - a > k
      BY <3>1, <1>1
    <3> QED
      BY <2>4, <3>1, <3>2, <1>1, <1>2 DEF Silent
  <2>5. ASSUME Speechless(r, a + k) PROVE Speechless(es, k)
    BY <2>5, <2>1, <1>1, <1>2, <1>4 DEF Speechless
  <2>6. ASSUME Speechless(es, k) PROVE Speechless(r, a + k)
    <3> SUFFICES ASSUME NEW j \in 1 .. a + b, j > a + k PROVE r[j].tell /= "line"
      BY <1>1 DEF Speechless
    <3>1. j - a \in 1 .. b /\ j = a + (j - a)
      BY <2>2, <1>3
    <3>2. j - a > k
      BY <3>1, <1>1
    <3> QED
      BY <2>6, <3>1, <3>2, <1>1, <1>2 DEF Speechless
  <2> QED
    BY <2>3, <2>4, <2>5, <2>6
<1> QED
  BY <1>5, <1>6

(* The same queue when its first event has been heard.                     *)
LEMMA TailSilent ==
  ASSUME NEW q \in Seq(Event), q # <<>>
  PROVE  /\ Tail(q) \in Seq(Event) /\ Len(Tail(q)) = Len(q) - 1 /\ Len(q) \in Nat \ {0}
         /\ Head(q) = q[1] /\ q[1] \in Event
         /\ \A j \in 1 .. Len(q) - 1 : Tail(q)[j] = q[j + 1]
         /\ \A n \in 0 .. Len(q) - 1 :
              /\ Silent(Tail(q), n) <=> Silent(q, n + 1)
              /\ Speechless(Tail(q), n) <=> Speechless(q, n + 1)
         /\ Silent(q, 0) <=> ~Tells(q[1]) /\ Silent(q, 1)
         /\ Speechless(q, 0) <=> q[1].tell /= "line" /\ Speechless(q, 1)
<1>1. /\ Tail(q) \in Seq(Event) /\ Len(Tail(q)) = Len(q) - 1 /\ Len(q) \in Nat \ {0}
      /\ Head(q) = q[1] /\ q[1] \in Event
      /\ \A j \in 1 .. Len(q) - 1 : Tail(q)[j] = q[j + 1]
  OBVIOUS
<1> DEFINE t == Tail(q)
           m == Len(q)
<1>2. m = Len(q) /\ Len(t) = m - 1 /\ m \in Nat \ {0} /\ \A j \in 1 .. m - 1 : t[j] = q[j + 1]
  BY <1>1
<1>3. \A n \in 0 .. m - 1 : (Silent(t, n) <=> Silent(q, n + 1))
                            /\ (Speechless(t, n) <=> Speechless(q, n + 1))
  <2> HIDE DEF t, m
  <2> SUFFICES ASSUME NEW n \in 0 .. m - 1
               PROVE  /\ Silent(t, n) <=> Silent(q, n + 1)
                      /\ Speechless(t, n) <=> Speechless(q, n + 1)
    OBVIOUS
  <2>1. \A j \in 1 .. m - 1 : j > n <=> j + 1 > n + 1
    BY <1>2
  <2>2. \A j \in 1 .. m - 1 : j + 1 \in 1 .. m
    BY <1>2
  <2>3. \A i \in 1 .. m : i > n + 1 => i - 1 \in 1 .. m - 1 /\ (i - 1) + 1 = i /\ i - 1 > n
    BY <1>2
  <2>4. ASSUME Silent(t, n) PROVE Silent(q, n + 1)
    <3> SUFFICES ASSUME NEW i \in 1 .. m, i > n + 1 PROVE ~Tells(q[i])
      BY <1>2 DEF Silent
    <3>1. i - 1 \in 1 .. m - 1 /\ (i - 1) + 1 = i /\ i - 1 > n
      BY <2>3
    <3>2. t[i - 1] = q[i]
      BY <3>1, <1>2
    <3> QED
      BY <2>4, <3>1, <3>2, <1>2 DEF Silent
  <2>5. ASSUME Silent(q, n + 1) PROVE Silent(t, n)
    BY <2>1, <2>2, <2>5, <1>2 DEF Silent
  <2>6. ASSUME Speechless(t, n) PROVE Speechless(q, n + 1)
    <3> SUFFICES ASSUME NEW i \in 1 .. m, i > n + 1 PROVE q[i].tell /= "line"
      BY <1>2 DEF Speechless
    <3>1. i - 1 \in 1 .. m - 1 /\ (i - 1) + 1 = i /\ i - 1 > n
      BY <2>3
    <3>2. t[i - 1] = q[i]
      BY <3>1, <1>2
    <3> QED
      BY <2>6, <3>1, <3>2, <1>2 DEF Speechless
  <2>7. ASSUME Speechless(q, n + 1) PROVE Speechless(t, n)
    BY <2>1, <2>2, <2>7, <1>2 DEF Speechless
  <2> QED
    BY <2>4, <2>5, <2>6, <2>7
<1>4. \A j \in 1 .. Len(q) : j > 0 /\ (j = 1 \/ j > 1)
  OBVIOUS
<1>5. 1 \in 1 .. Len(q) /\ 1 > 0
  BY <1>1
<1>6. Silent(q, 0) <=> ~Tells(q[1]) /\ Silent(q, 1)
  BY <1>4, <1>5 DEF Silent
<1>7. Speechless(q, 0) <=> q[1].tell /= "line" /\ Speechless(q, 1)
  BY <1>4, <1>5 DEF Speechless
<1> QED
  BY <1>1, <1>3, <1>6, <1>7

(* One or two events.                                                      *)
LEMMA Short ==
  ASSUME NEW e \in Event, NEW f \in Event
  PROVE  /\ <<e>> \in Seq(Event) /\ Len(<<e>>) = 1 /\ <<e>>[1] = e
         /\ Silent(<<e>>, 0) <=> ~Tells(e)
         /\ Silent(<<e>>, 1)
         /\ Speechless(<<e>>, 0) <=> e.tell /= "line"
         /\ Speechless(<<e>>, 1)
         /\ <<e, f>> \in Seq(Event) /\ Len(<<e, f>>) = 2 /\ <<e, f>>[1] = e /\ <<e, f>>[2] = f
         /\ Silent(<<e, f>>, 0) <=> ~Tells(e) /\ ~Tells(f)
         /\ Silent(<<e, f>>, 1) <=> ~Tells(f)
         /\ Silent(<<e, f>>, 2)
         /\ Speechless(<<e, f>>, 0) <=> e.tell /= "line" /\ f.tell /= "line"
         /\ Speechless(<<e, f>>, 1) <=> f.tell /= "line"
         /\ Speechless(<<e, f>>, 2)
<1>1. /\ <<e>> \in Seq(Event) /\ Len(<<e>>) = 1 /\ <<e>>[1] = e
      /\ <<e, f>> \in Seq(Event) /\ Len(<<e, f>>) = 2 /\ <<e, f>>[1] = e /\ <<e, f>>[2] = f
  OBVIOUS
<1>2. /\ Silent(<<e>>, 0) <=> ~Tells(e)
      /\ Silent(<<e>>, 1)
  BY <1>1 DEF Silent
<1>3. /\ Speechless(<<e>>, 0) <=> e.tell /= "line"
      /\ Speechless(<<e>>, 1)
  BY <1>1 DEF Speechless
<1>4. /\ Silent(<<e, f>>, 0) <=> ~Tells(e) /\ ~Tells(f)
      /\ Silent(<<e, f>>, 1) <=> ~Tells(f)
      /\ Silent(<<e, f>>, 2)
  BY <1>1 DEF Silent
<1>5. /\ Speechless(<<e, f>>, 0) <=> e.tell /= "line" /\ f.tell /= "line"
      /\ Speechless(<<e, f>>, 1) <=> f.tell /= "line"
      /\ Speechless(<<e, f>>, 2)
  BY <1>1 DEF Speechless
<1> QED
  BY <1>1, <1>2, <1>3, <1>4, <1>5

LEMMA BeforeLast ==
  ASSUME NEW b \in Nat, NEW k \in 1 .. b, k # b
  PROVE  k \in 1 .. b - 1
OBVIOUS

(* What is told of a step from s to t: nothing, if session and             *)
(* conversation stay; an end or a refusal; a session that is opened, with  *)
(* its line; or the next line of the conversation.                         *)
Told(s, t, es) ==
  \/ es = <<>> /\ t.session = s.session /\ t.talk = s.talk
  \/ \E e \in Event : /\ e.tell \in {"rejected", "closed"}
                      /\ es = <<e>> \/ \E from \in Talk : es = <<Accepted(from), e>>
  \/ /\ t.session \in [id : SessionId, target : Target]
     /\ \/ es = <<Opened(t.session)>> /\ t.session.target \notin Npc /\ t.talk = Nothing
        \/ es = <<Opened(t.session), Line(t.talk)>> /\ t.talk \in Talk
  \/ /\ t.session = s.session /\ t.talk \in Talk
     /\ es = <<Line(t.talk)>> \/ \E from \in Talk : es = <<Accepted(from), Line(t.talk)>>

(* What was foretold of s is replaced by what is foretold of t.            *)
LEMMA ToldEnds ==
  ASSUME NEW t, NEW c, NEW q \in Seq(Event), NEW es \in Seq(Event), Len(es) > 0,
         Tells(es[Len(es)]), es[Len(es)].tell /= "opened",
         \A k \in 1 .. Len(es) - 1 : ~Silent(es, k)
  PROVE  Foretold(t, q \o es) /\ Displayed(t, q \o es, c)
<1> DEFINE r == q \o es
<1>1. /\ Len(q) \in Nat /\ Len(es) \in Nat /\ Len(r) = Len(q) + Len(es)
      /\ \A j \in 1 .. Len(es) : r[Len(q) + j] = es[j]
  BY Joined
<1>2. ~Silent(es, 0)
  <2>1. Len(es) \in 1 .. Len(es) /\ Len(es) > 0
    BY <1>1
  <2> QED
    BY <2>1 DEF Silent
<1>3. \A n \in 0 .. Len(q) : ~Silent(r, n)
  BY <1>2, JoinedSilent
<1>4. \A j \in 1 .. Len(r) : Silent(r, j) => r[j].tell \notin {"opened", "line"}
  <2> SUFFICES ASSUME NEW j \in 1 .. Len(r), Silent(r, j)
               PROVE  r[j].tell \notin {"opened", "line"}
    OBVIOUS
  <2>1. j - Len(q) \in 1 .. Len(es) /\ j = Len(q) + (j - Len(q))
    BY <1>1, <1>3, JoinedPlace
  <2>2. Silent(es, j - Len(q))
    BY <2>1, JoinedSilent
  <2>3. j - Len(q) = Len(es)
    BY <2>1, <2>2, <1>1, BeforeLast
  <2>4. r[j] = es[Len(es)]
    BY <2>1, <2>3, <1>1
  <2> QED
    BY <2>4 DEF Tells
<1>5. 0 \in 0 .. Len(q)
  BY <1>1
<1> HIDE DEF r
<1> QED
  BY <1>3, <1>4, <1>5 DEF Foretold, Displayed, r

LEMMA ToldOpens ==
  ASSUME NEW t, NEW c, NEW q \in Seq(Event), NEW e \in Event, e.tell = "opened",
         t.session = [id |-> e.id, target |-> e.target]
  PROVE  /\ e.target \notin Npc /\ t.talk = Nothing =>
              Foretold(t, q \o <<e>>) /\ Displayed(t, q \o <<e>>, c)
         /\ t.talk \in Talk =>
              LET r == q \o <<e, Line(t.talk)>> IN Foretold(t, r) /\ Displayed(t, r, c)
<1>1. ASSUME e.target \notin Npc, t.talk = Nothing
      PROVE  Foretold(t, q \o <<e>>) /\ Displayed(t, q \o <<e>>, c)
  <2> DEFINE r == q \o <<e>>
  <2>1. <<e>> \in Seq(Event) /\ Len(<<e>>) = 1 /\ <<e>>[1] = e /\ ~Silent(<<e>>, 0)
    BY Short DEF Tells
  <2>2. Len(q) \in Nat /\ Len(r) = Len(q) + 1 /\ r[Len(q) + 1] = e
    BY <2>1, Joined
  <2>3. \A n \in 0 .. Len(q) : ~Silent(r, n)
    BY <2>1, JoinedSilent
  <2>4. \A j \in 1 .. Len(r) : Silent(r, j) => j = Len(q) + 1
    BY <2>2, <2>3
  <2>5. 0 \in 0 .. Len(q)
    BY <2>2
  <2> HIDE DEF r
  <2>6. Foretold(t, r) /\ Displayed(t, r, c)
    BY <1>1, <2>2, <2>3, <2>4, <2>5 DEF Foretold, Displayed, Shows
  <2> QED
    BY <2>6 DEF r
<1>2. ASSUME t.talk \in Talk
      PROVE  LET r == q \o <<e, Line(t.talk)>> IN Foretold(t, r) /\ Displayed(t, r, c)
  <2> DEFINE f == Line(t.talk)
             r == q \o <<e, f>>
  <2>0. f \in Event /\ f.tell = "line" /\ f.talk = t.talk /\ t.talk /= Nothing
    BY <1>2, EventTypes, NothingIsNone DEF Line
  <2> HIDE DEF f
  <2>1. /\ <<e, f>> \in Seq(Event) /\ Len(<<e, f>>) = 2 /\ <<e, f>>[1] = e /\ <<e, f>>[2] = f
        /\ ~Silent(<<e, f>>, 0) /\ ~Speechless(<<e, f>>, 1)
    BY <2>0, Short DEF Tells
  <2>2. /\ Len(q) \in Nat /\ Len(r) = Len(q) + 2 /\ r[Len(q) + 1] = e /\ r[Len(q) + 2] = f
        /\ ~Speechless(r, Len(q) + 1)
    <3> DEFINE es == <<e, f>>
    <3>1. /\ es \in Seq(Event) /\ Len(es) = 2 /\ es[1] = e /\ es[2] = f /\ r = q \o es
          /\ ~Speechless(es, 1)
      BY <2>1
    <3> HIDE DEF es, r
    <3>2. 1 \in 1 .. Len(es) /\ 2 \in 1 .. Len(es)
      BY <3>1
    <3>3. /\ Len(q) \in Nat /\ Len(r) = Len(q) + Len(es)
          /\ \A j \in 1 .. Len(es) : r[Len(q) + j] = es[j]
      BY <3>1, Joined
    <3>4. ~Speechless(r, Len(q) + 1)
      BY <3>1, <3>2, JoinedSilent
    <3> QED
      BY <3>1, <3>2, <3>3, <3>4
  <2>3. \A n \in 0 .. Len(q) : ~Silent(r, n)
    BY <2>1, JoinedSilent
  <2>4. \A j \in 1 .. Len(r) : Silent(r, j) => j = Len(q) + 1 \/ j = Len(q) + 2
    BY <2>2, <2>3
  <2>5. 0 \in 0 .. Len(q)
    BY <2>2
  <2> HIDE DEF r
  <2>6. Foretold(t, r) /\ Displayed(t, r, c)
    BY <2>0, <2>2, <2>3, <2>4, <2>5 DEF Foretold, Displayed, Shows
  <2> QED
    BY <2>6 DEF r, f
<1> QED
  BY <1>1, <1>2

(* The next line of a conversation that goes on in its session.            *)
LEMMA ToldNext ==
  ASSUME NEW s, NEW t, NEW c, NEW q \in Seq(Event), NEW es \in Seq(Event),
         Len(es) > 0, es[Len(es)] = Line(t.talk), t.talk \in Talk, t.session = s.session,
         \A k \in 1 .. Len(es) - 1 : es[k].tell = "accepted",
         Foretold(s, q), Displayed(s, q, c)
  PROVE  Foretold(t, q \o es) /\ Displayed(t, q \o es, c)
<1> DEFINE r == q \o es
           a == Len(q)
           b == Len(es)
<1>1. /\ a \in Nat /\ b \in Nat /\ Len(r) = a + b
      /\ \A j \in 1 .. a : r[j] = q[j]
      /\ \A j \in 1 .. b : r[a + j] = es[j]
  BY Joined
<1>2. b \in 1 .. b /\ b > 0 /\ es[b].tell = "line" /\ es[b].talk = t.talk /\ t.talk /= Nothing
  BY <1>1, NothingIsNone DEF Line
<1>3. ~Speechless(es, 0)
  BY <1>2 DEF Speechless
<1>4. \A n \in 0 .. a : ~Speechless(r, n) /\ (Silent(r, n) => Silent(q, n))
  BY <1>3, JoinedSilent
<1>5. 0 \in 0 .. a
  BY <1>1
<1> HIDE DEF r
<1>6. ASSUME NEW j \in 1 .. Len(r), Silent(r, j)
      PROVE  /\ r[j].tell = "opened" =>
                  Shows(t, r[j].id, r[j].target) /\ (t.talk /= Nothing => ~Speechless(r, j))
             /\ r[j].tell = "line" /\ Speechless(r, j) => r[j].talk = t.talk
  <2>1. CASE j \in 1 .. a
    <3>1. j \in 0 .. a
      BY <2>1
    <3>2. Silent(q, j) /\ ~Speechless(r, j) /\ r[j] = q[j]
      BY <1>1, <1>4, <1>6, <2>1, <3>1
    <3> QED
      BY <3>2, <2>1, <1>2 DEF Foretold, Shows
  <2>2. CASE j - a \in 1 .. b /\ j = a + (j - a)
    <3>1. r[j] = es[j - a]
      BY <2>2, <1>1
    <3>2. CASE j - a = b
      BY <3>1, <3>2, <1>2
    <3>3. CASE j - a # b
      <4>1. j - a \in 1 .. b - 1
        BY <3>3, <2>2, <1>1, BeforeLast
      <4> QED
        BY <3>1, <4>1
    <3> QED
      BY <3>2, <3>3
  <2> QED
    BY <1>1, <2>1, <2>2, JoinedPlace
<1>7. Foretold(t, r)
  BY <1>6 DEF Foretold
<1>8. Displayed(t, r, c)
  BY <1>2, <1>4, <1>5 DEF Displayed, Shows
<1> QED
  BY <1>7, <1>8 DEF r

LEMMA ToldStep ==
  ASSUME NEW s, NEW t, NEW c, NEW q \in Seq(Event), NEW es, Told(s, t, es),
         Foretold(s, q), Displayed(s, q, c)
  PROVE  /\ Foretold(t, q \o es) /\ Displayed(t, q \o es, c)
         /\ es \in Seq(Event)
         /\ \A k \in 1 .. Len(es) : es[k].tell = "line" => es[k].talk = t.talk /\ t.talk \in Talk
<1>1. CASE es = <<>> /\ t.session = s.session /\ t.talk = s.talk
  <2>1. q \o es = q /\ es \in Seq(Event) /\ Len(es) = 0
    BY <1>1
  <2> QED
    BY <1>1, <2>1 DEF Foretold, Displayed, Shows
<1>2. ASSUME NEW e \in Event, e.tell \in {"rejected", "closed"}, es = <<e>>
      PROVE  /\ Foretold(t, q \o es) /\ Displayed(t, q \o es, c) /\ es \in Seq(Event)
             /\ \A k \in 1 .. Len(es) : es[k].tell /= "line"
  <2>1. es \in Seq(Event) /\ Len(es) = 1 /\ es[1] = e
    BY <1>2
  <2>2. Tells(e) /\ e.tell /= "opened" /\ e.tell /= "line"
    BY <1>2 DEF Tells
  <2>3. /\ Len(es) > 0 /\ es[Len(es)] = e /\ \A k \in 1 .. Len(es) - 1 : FALSE
        /\ \A k \in 1 .. Len(es) : es[k].tell /= "line"
    BY <2>1, <2>2
  <2>4. Foretold(t, q \o es) /\ Displayed(t, q \o es, c)
    BY <2>1, <2>2, <2>3, ToldEnds
  <2> QED
    BY <2>1, <2>3, <2>4
<1>3. ASSUME NEW e \in Event, e.tell \in {"rejected", "closed"},
             NEW from \in Talk, es = <<Accepted(from), e>>
      PROVE  /\ Foretold(t, q \o es) /\ Displayed(t, q \o es, c) /\ es \in Seq(Event)
             /\ \A k \in 1 .. Len(es) : es[k].tell /= "line"
  <2>1. Accepted(from) \in Event /\ Accepted(from).tell /= "line"
    BY EventTypes DEF Accepted
  <2>2. es \in Seq(Event) /\ Len(es) = 2 /\ es[1] = Accepted(from) /\ es[2] = e
    BY <1>3, <2>1
  <2>3. Tells(e) /\ e.tell /= "opened" /\ e.tell /= "line"
    BY <1>3 DEF Tells
  <2>4. ~Silent(es, 1)
    BY <1>3, <2>1, <2>3, Short
  <2>5. /\ Len(es) > 0 /\ es[Len(es)] = e /\ \A k \in 1 .. Len(es) - 1 : ~Silent(es, k)
        /\ \A k \in 1 .. Len(es) : es[k].tell /= "line"
    BY <2>1, <2>2, <2>3, <2>4
  <2>6. Foretold(t, q \o es) /\ Displayed(t, q \o es, c)
    BY <2>2, <2>3, <2>5, ToldEnds
  <2> QED
    BY <2>2, <2>5, <2>6
<1>4. CASE t.session \in [id : SessionId, target : Target]
           /\ es = <<Opened(t.session)>> /\ t.session.target \notin Npc /\ t.talk = Nothing
  <2> DEFINE e == Opened(t.session)
  <2>1. /\ e \in Event /\ e.tell = "opened" /\ e.tell /= "line"
        /\ e.id = t.session.id /\ e.target = t.session.target
        /\ t.session = [id |-> e.id, target |-> e.target]
    BY <1>4, EventTypes DEF Opened
  <2>2. es = <<e>> /\ es \in Seq(Event) /\ Len(es) = 1 /\ es[1] = e
    BY <1>4, <2>1
  <2> HIDE DEF e
  <2>3. \A k \in 1 .. Len(es) : es[k].tell /= "line"
    BY <2>1, <2>2
  <2>4. Foretold(t, q \o es) /\ Displayed(t, q \o es, c)
    BY <1>4, <2>1, <2>2, ToldOpens
  <2> QED
    BY <2>2, <2>3, <2>4
<1>5. CASE t.session \in [id : SessionId, target : Target]
           /\ es = <<Opened(t.session), Line(t.talk)>> /\ t.talk \in Talk
  <2> DEFINE e == Opened(t.session)
  <2>1. /\ e \in Event /\ e.tell = "opened" /\ e.tell /= "line"
        /\ e.id = t.session.id /\ e.target = t.session.target
        /\ t.session = [id |-> e.id, target |-> e.target]
    BY <1>5, EventTypes DEF Opened
  <2>2. Line(t.talk) \in Event /\ Line(t.talk).talk = t.talk
    BY <1>5, EventTypes DEF Line
  <2>3. es = <<e, Line(t.talk)>>
    BY <1>5
  <2>4. es \in Seq(Event) /\ Len(es) = 2 /\ es[1] = e /\ es[2] = Line(t.talk)
    BY <2>1, <2>2, <2>3
  <2> HIDE DEF e
  <2>5. \A k \in 1 .. Len(es) : es[k].tell = "line" => es[k].talk = t.talk
    BY <2>1, <2>2, <2>4
  <2>6. Foretold(t, q \o es) /\ Displayed(t, q \o es, c)
    BY <1>5, <2>1, <2>3, ToldOpens
  <2> QED
    BY <1>5, <2>4, <2>5, <2>6
<1>6. CASE t.session = s.session /\ t.talk \in Talk /\ es = <<Line(t.talk)>>
  <2>1. Line(t.talk) \in Event /\ Line(t.talk).talk = t.talk
    BY <1>6, EventTypes DEF Line
  <2>2. es \in Seq(Event) /\ Len(es) = 1 /\ es[1] = Line(t.talk)
    BY <1>6, <2>1
  <2>3. /\ Len(es) > 0 /\ es[Len(es)] = Line(t.talk) /\ \A k \in 1 .. Len(es) - 1 : FALSE
        /\ \A k \in 1 .. Len(es) : es[k].talk = t.talk
    BY <2>1, <2>2
  <2>4. Foretold(t, q \o es) /\ Displayed(t, q \o es, c)
    BY <1>6, <2>2, <2>3, ToldNext
  <2> QED
    BY <1>6, <2>2, <2>3, <2>4
<1>7. ASSUME t.session = s.session, t.talk \in Talk,
             NEW from \in Talk, es = <<Accepted(from), Line(t.talk)>>
      PROVE  /\ Foretold(t, q \o es) /\ Displayed(t, q \o es, c) /\ es \in Seq(Event)
             /\ \A k \in 1 .. Len(es) : es[k].tell = "line" => es[k].talk = t.talk
  <2>1. Line(t.talk) \in Event /\ Line(t.talk).talk = t.talk
    BY <1>7, EventTypes DEF Line
  <2>2. Accepted(from) \in Event /\ Accepted(from).tell = "accepted"
    BY EventTypes DEF Accepted
  <2>3. es \in Seq(Event) /\ Len(es) = 2 /\ es[1] = Accepted(from) /\ es[2] = Line(t.talk)
    BY <1>7, <2>1, <2>2
  <2>4. /\ Len(es) > 0 /\ es[Len(es)] = Line(t.talk)
        /\ \A k \in 1 .. Len(es) - 1 : es[k].tell = "accepted"
        /\ \A k \in 1 .. Len(es) : es[k].tell = "line" => es[k].talk = t.talk
    BY <2>1, <2>2, <2>3
  <2>5. Foretold(t, q \o es) /\ Displayed(t, q \o es, c)
    BY <1>7, <2>3, <2>4, ToldNext
  <2> QED
    BY <2>3, <2>4, <2>5
<1> QED
  BY <1>1, <1>2, <1>3, <1>4, <1>5, <1>6, <1>7 DEF Told

-----------------------------------------------------------------------------
(* A session that is opened has an id of its own.                          *)
Grown(s, t) ==
  /\ t.opened >= s.opened
  /\ t.session /= Nothing =>
       t.session = s.session \/ (t.session.id = t.opened /\ t.opened > s.opened)

OwnerTold ==
  \E es : /\ Told(server, server', es) /\ outbox' = outbox \o es
          /\ Grown(server, server') /\ Numbered(server')

LEMMA BecomeTold ==
  ASSUME ~lost', NEW s, NEW es, Become(s, es), Told(server, s, es),
         Grown(server, s), Numbered(s)
  PROVE  OwnerTold
BY DEF Become, OwnerTold

LEMMA GrownQuietly ==
  ASSUME NEW s \in ServerState, NEW t, Numbered(s), t.opened = s.opened,
         t.session \in {s.session, Nothing}
  PROVE  Grown(s, t) /\ Numbered(t)
<1>1. t.opened >= s.opened
  BY Bounds DEF ServerState
<1> QED
  BY <1>1 DEF Grown, Numbered

(* A refusal, or an end: what was opened may be closed.                    *)
LEMMA EndTold ==
  ASSUME Inv, Numbered(server), ~lost', NEW t, NEW e \in Event, e.tell \in {"rejected", "closed"},
         Become(t, <<e>>) \/ (\E from \in Talk : Become(t, <<Accepted(from), e>>)),
         t.opened = server.opened, t.session \in {server.session, Nothing}
  PROVE  OwnerTold
<1>1. Grown(server, t) /\ Numbered(t)
  BY GrownQuietly DEF Inv, Sound
<1>2. CASE Become(t, <<e>>)
  <2>1. Told(server, t, <<e>>)
    BY DEF Told
  <2> QED
    BY <1>1, <1>2, <2>1, BecomeTold
<1>3. ASSUME NEW from \in Talk, Become(t, <<Accepted(from), e>>) PROVE OwnerTold
  <2>1. Told(server, t, <<Accepted(from), e>>)
    BY DEF Told
  <2> QED
    BY <1>1, <1>3, <2>1, BecomeTold
<1> QED
  BY <1>2, <1>3

(* Nothing is told, and the conversation and its session stay.             *)
LEMMA StayTold ==
  ASSUME Inv, Numbered(server), ~lost', NEW t, Become(t, <<>>), t.opened = server.opened,
         t.session = server.session, t.talk = server.talk
  PROVE  OwnerTold
<1>1. Grown(server, t) /\ Numbered(t)
  BY GrownQuietly DEF Inv, Sound
<1>2. Told(server, t, <<>>)
  BY DEF Told
<1> QED
  BY <1>1, <1>2, BecomeTold

LEMMA EndEvents ==
  /\ Rejected \in Event /\ Rejected.tell = "rejected"
  /\ \A id \in SessionId : Closed(id) \in Event /\ Closed(id).tell = "closed"
BY EventTypes DEF Rejected, Closed

LEMMA ShutParts ==
  ASSUME NEW s \in ServerState, NEW id
  PROVE  /\ Finished(Shut(s, id)).opened = s.opened
         /\ Finished(Shut(s, id)).session \in {s.session, Nothing}
         /\ Finished(Shut(s, id)).talk = Nothing
         /\ Cleared(Shut(s, id)).opened = s.opened
         /\ Cleared(Shut(s, id)).session \in {s.session, Nothing}
         /\ Cleared(Shut(s, id)).talk = Nothing
         /\ s.session /= Nothing /\ s.session.id = id => Cleared(Shut(s, id)).session = Nothing
<1> DEFINE h == Shut(s, id)
<1>1. h \in ServerState /\ h.opened = s.opened /\ h.session \in {s.session, Nothing}
      /\ (s.session /= Nothing /\ s.session.id = id => h.session = Nothing)
  BY DEF Shut, ServerState
<1> HIDE DEF h
<1>2. /\ Finished(h).opened = h.opened /\ Finished(h).session = h.session
      /\ Finished(h).talk = Nothing
  BY <1>1 DEF Finished, Cleared, ServerState
<1>3. /\ Cleared(h).opened = h.opened /\ Cleared(h).session = h.session
      /\ Cleared(h).talk = Nothing
  BY <1>1 DEF Cleared, ServerState
<1> QED
  BY <1>1, <1>2, <1>3 DEF h

(* The session of an open: the one there is, or a new one.                 *)
LEMMA ReachedParts ==
  ASSUME NEW s, Sound(s), NEW target \in Target
  PROVE  LET m == Matched(Reached(s, target)) IN
         \/ m = s /\ s.session /= Nothing /\ s.session.target = target
         \/ m.session.id = m.opened /\ m.opened = s.opened + 1 /\ m.talk \in {s.talk, Nothing}
<1> DEFINE r == Reached(s, target)
<1>1. CASE s.session /= Nothing /\ s.session.target = target
  <2>1. r = s
    BY <1>1 DEF Reached
  <2>2. Matched(s) = s
    BY <1>1 DEF Matched, Sound, InSession
  <2> QED
    BY <1>1, <2>1, <2>2
<1>2. CASE ~(s.session /= Nothing /\ s.session.target = target)
  <2> DEFINE n == s.opened + 1
             x == [id |-> n, target |-> target]
  <2>1. r = [s EXCEPT !.session = x, !.opened = n]
    BY <1>2 DEF Reached, Sound, ServerState
  <2>2. x.id = n
    OBVIOUS
  <2> HIDE DEF x, n, r
  <2>3. r.session = x /\ r.opened = n /\ r.talk = s.talk
    BY <2>1 DEF Sound, ServerState
  <2>4. Matched(r) = r \/ Matched(r) = Cleared(r)
    BY DEF Matched
  <2>5. Cleared(r).session = x /\ Cleared(r).opened = n /\ Cleared(r).talk = Nothing
    BY <2>1 DEF Cleared, Sound, ServerState
  <2>6. /\ Matched(r).session.id = Matched(r).opened /\ Matched(r).opened = n
        /\ Matched(r).talk \in {s.talk, Nothing}
    BY <2>2, <2>3, <2>4, <2>5
  <2> QED
    BY <2>6 DEF r, n
<1> QED
  BY <1>1, <1>2

LEMMA OpenTold ==
  ASSUME Inv, Numbered(server), ~lost', NEW target \in Target, HandleOpen(target)
  PROVE  OwnerTold
<1> DEFINE s == Matched(Reached(server, target))
<1>1. CASE Become(server, <<Rejected>>)
  BY <1>1, EndTold, EndEvents
<1>2. CASE s.opened <= MaxSessions
           /\ \/ target \notin Npc /\ Become(s, <<Opened(s.session)>>)
              \/ target \in Npc /\ s.talk = Nothing /\ BeginTalk(s)
              \/ /\ target \in Npc /\ s.talk /= Nothing
                 /\ Become(Locked(s, s.talk), <<Opened(s.session), Line(s.talk)>>)
  <2>1. Sound(s) /\ s.session \in [id : SessionId, target : Target] /\ s.session.target = target
    BY <1>2, ReachedSound DEF Inv
  <2>2. \/ s = server
        \/ s.session.id = s.opened /\ s.opened = server.opened + 1
           /\ s.talk \in {server.talk, Nothing}
    BY ReachedParts DEF Inv
  <2> HIDE DEF s
  <2>3. s \in ServerState /\ s.session /= Nothing
    BY <2>1, NothingIsNone DEF Sound
  <2>4. server.opened \in Nat /\ s.opened \in Nat
    BY <2>3, Bounds DEF Inv, Sound, ServerState
  <2>5. Numbered(s) /\ Grown(server, s)
    BY <2>2, <2>4 DEF Numbered, Grown
  <2>6. CASE target \notin Npc /\ Become(s, <<Opened(s.session)>>)
    <3>1. s.talk = Nothing
      BY <2>1, <2>3, <2>6 DEF Sound, InSession, ServerState, Talk
    <3>2. Told(server, s, <<Opened(s.session)>>)
      BY <2>1, <2>6, <3>1 DEF Told
    <3> QED
      BY <2>5, <2>6, <3>2, BecomeTold
  <2>7. ASSUME target \in Npc, NEW talk \in Talk, talk.target = target,
               Become(Locked(s, talk), <<Opened(s.session), Line(talk)>>)
        PROVE  OwnerTold
    <3> DEFINE t == Locked(s, talk)
    <3>1. t.session = s.session /\ t.opened = s.opened /\ t.talk = talk
      BY <2>3 DEF Locked, ServerState
    <3>2. Become(t, <<Opened(t.session), Line(t.talk)>>)
      BY <2>7, <3>1
    <3> HIDE DEF t
    <3>3. Told(server, t, <<Opened(t.session), Line(t.talk)>>)
      BY <2>1, <3>1 DEF Told
    <3>4. Grown(server, t) /\ Numbered(t)
      BY <2>5, <2>7, <3>1 DEF Grown, Numbered
    <3> QED
      BY <3>2, <3>3, <3>4, BecomeTold
  <2>8. CASE target \in Npc /\ s.talk = Nothing /\ BeginTalk(s)
    <3>1. ASSUME NEW beat \in Selectable(s),
                 LET talk == [id |-> s.session.id, target |-> s.session.target, beat |-> beat]
                 IN  Become(Locked(s, talk), <<Opened(s.session), Line(talk)>>)
          PROVE  OwnerTold
      <4> DEFINE talk == [id |-> s.session.id, target |-> s.session.target, beat |-> beat]
      <4>1. beat \in Beat
        BY DialogueAssumption DEF Selectable, DialogueAssumption
      <4>2. talk \in Talk /\ talk.target = target
        BY <4>1, <2>1, <2>8 DEF Talk
      <4>3. Become(Locked(s, talk), <<Opened(s.session), Line(talk)>>)
        BY <3>1
      <4> HIDE DEF talk
      <4> QED
        BY <4>2, <4>3, <2>7, <2>8
    <3>2. CASE Become(Cleared(Shut(s, s.session.id)), <<Rejected>>)
      <4> DEFINE t == Cleared(Shut(s, s.session.id))
      <4>1. t.opened = s.opened /\ t.session = Nothing /\ t.talk = Nothing
        BY <2>3, ShutParts
      <4> HIDE DEF t
      <4>2. Grown(server, t) /\ Numbered(t)
        BY <2>5, <4>1 DEF Grown, Numbered
      <4>3. Told(server, t, <<Rejected>>)
        BY EndEvents DEF Told
      <4> QED
        BY <3>2, <4>2, <4>3, BecomeTold DEF t
    <3> QED
      BY <2>8, <3>1, <3>2 DEF BeginTalk
  <2>9. CASE /\ target \in Npc /\ s.talk /= Nothing
             /\ Become(Locked(s, s.talk), <<Opened(s.session), Line(s.talk)>>)
    <3>1. s.talk \in Talk /\ s.talk.target = target
      BY <2>1, <2>3, <2>9 DEF Sound, InSession, ServerState
    <3> QED
      BY <3>1, <2>7, <2>9
  <2> QED
    BY <1>2, <2>6, <2>8, <2>9
<1> QED
  BY <1>1, <1>2 DEF HandleOpen

LEMMA CloseTold ==
  ASSUME Inv, Numbered(server), ~lost', NEW id \in SessionId, HandleClose(id)
  PROVE  OwnerTold
<1>1. server \in ServerState
  BY DEF Inv, Sound
<1>2. CASE Become(Finished(Shut(server, id)), <<Closed(id)>>)
  BY <1>1, <1>2, ShutParts, EndTold, EndEvents
<1>3. CASE Become(server, <<Rejected>>)
  BY <1>3, EndTold, EndEvents
<1> QED
  BY <1>2, <1>3 DEF HandleClose

(* Stage and Ignore.                                                       *)
LEMMA StageTold ==
  ASSUME Inv, Numbered(server), ~lost', NEW command, Stage(command) \/ Ignore
  PROVE  OwnerTold
<1>1. CASE Become(server, <<>>)
  BY <1>1, StayTold
<1>2. CASE Become([server EXCEPT !.staged = command], <<>>)
  <2> DEFINE t == [server EXCEPT !.staged = command]
  <2>1. t.opened = server.opened /\ t.session = server.session /\ t.talk = server.talk
    BY DEF Inv, Sound, ServerState
  <2> HIDE DEF t
  <2> QED
    BY <1>2, <2>1, StayTold DEF t
<1> QED
  BY <1>1, <1>2 DEF Stage, Ignore

(* What is applied at once, or when its command has been stored.           *)
Alike(s) ==
  s \in ServerState /\ s.session = server.session /\ s.talk = server.talk
  /\ s.opened = server.opened

LEMMA ApplyChoiceTold ==
  ASSUME Inv, Numbered(server), ~lost', NEW s, Alike(s), NEW from \in Talk,
         NEW to \in Beat \cup {End}, ApplyChoice(s, from, to)
  PROVE  OwnerTold
<1> DEFINE e == Executed(s, from)
           c == Committed(e, from, to)
<1>1. Alike(e)
  BY DEF Executed, Alike, ServerState, Talk
<1>2. Become(c.state, c.events)
  BY DEF ApplyChoice
<1> HIDE DEF e
<1>3. CASE e.talk /= from
  <2>1. c = [state |-> e, events |-> <<>>]
    BY <1>3 DEF Committed
  <2> QED
    BY <1>1, <1>2, <2>1, StayTold DEF Alike
<1>4. CASE e.talk = from /\ to = End
  <2>1. c = [state |-> Cleared(Shut(e, from.id)), events |-> <<Accepted(from), Closed(from.id)>>]
    BY <1>4 DEF Committed
  <2>2. Become(Cleared(Shut(e, from.id)), <<Accepted(from), Closed(from.id)>>)
    BY <1>2, <2>1
  <2>3. from.id \in SessionId
    BY DEF Talk
  <2> DEFINE t == Cleared(Shut(e, from.id))
  <2>4. t.opened = server.opened /\ t.session \in {server.session, Nothing}
    BY <1>1, ShutParts DEF Alike
  <2> HIDE DEF t
  <2>5. Become(t, <<Accepted(from), Closed(from.id)>>)
    BY <2>2 DEF t
  <2> QED
    BY <2>3, <2>4, <2>5, EndTold, EndEvents
<1>5. CASE e.talk = from /\ to # End
  <2> DEFINE next == [from EXCEPT !.beat = to]
             t == [e EXCEPT !.talk = next]
  <2>1. c = [state |-> t, events |-> <<Accepted(from), Line(next)>>]
    BY <1>5 DEF Committed
  <2>2. next \in Talk
    BY <1>5 DEF Talk
  <2>3. Become(t, <<Accepted(from), Line(next)>>)
    BY <1>2, <2>1
  <2> HIDE DEF next
  <2>4. t.talk = next /\ t.session = server.session /\ t.opened = server.opened
    BY <1>1 DEF Alike, ServerState
  <2> HIDE DEF t
  <2>5. Told(server, t, <<Accepted(from), Line(next)>>)
    BY <2>2, <2>4 DEF Told
  <2>6. Numbered(t) /\ Grown(server, t)
    <3>1. t.opened >= server.opened
      BY <2>4, Bounds DEF Inv, Sound, ServerState
    <3> QED
      BY <3>1, <2>4 DEF Numbered, Grown
  <2> QED
    BY <2>3, <2>4, <2>5, <2>6, BecomeTold
<1> QED
  BY <1>3, <1>4, <1>5

LEMMA ApplyHeardTold ==
  ASSUME Inv, Numbered(server), ~lost', NEW s, Alike(s), NEW from \in Talk, ApplyHeard(s, from)
  PROVE  OwnerTold
<1> DEFINE e == Executed(s, from)
<1>1. Alike(e)
  BY DEF Executed, Alike, ServerState, Talk
<1>2. Become(Finished(Shut(e, from.id)), <<Closed(from.id)>>)
  BY DEF ApplyHeard
<1>3. from.id \in SessionId
  BY DEF Talk
<1> HIDE DEF e
<1> QED
  BY <1>1, <1>2, <1>3, ShutParts, EndTold, EndEvents DEF Alike

LEMMA AdvanceTold ==
  ASSUME Inv, Numbered(server), ~lost', NEW id, HandleAdvance(id)
  PROVE  OwnerTold
<1> DEFINE talk == server.talk
<1>1. CASE Ignore
  BY <1>1, StageTold
<1>2. CASE InTalk(id) /\ Become(server, <<Line(talk)>>)
  <2>1. talk \in Talk
    BY <1>2 DEF InTalk, Inv, Sound, ServerState
  <2>2. Told(server, server, <<Line(talk)>>)
    BY <2>1 DEF Told
  <2>3. Grown(server, server)
    BY GrownQuietly DEF Inv, Sound
  <2> QED
    BY <1>2, <2>2, <2>3, BecomeTold
<1>3. CASE InTalk(id) /\ Stage([kind |-> "heard", from |-> talk])
  BY <1>3, StageTold
<1>4. CASE InTalk(id) /\ ApplyHeard(server, talk)
  <2>1. talk \in Talk /\ Alike(server)
    BY <1>4 DEF InTalk, Inv, Sound, ServerState, Alike
  <2> QED
    BY <1>4, <2>1, ApplyHeardTold
<1> QED
  BY <1>1, <1>2, <1>3, <1>4 DEF HandleAdvance

LEMMA ChooseTold ==
  ASSUME Inv, Numbered(server), ~lost', NEW id, NEW beat, NEW to \in Beat \cup {End},
         HandleChoose(id, beat, to)
  PROVE  OwnerTold
<1>1. CASE Ignore
  BY <1>1, StageTold
<1>2. CASE Stage([kind |-> "choice", from |-> server.talk, to |-> to])
  BY <1>2, StageTold
<1>3. CASE Plans(id, beat, to) /\ ApplyChoice(server, server.talk, to)
  <2>1. server.talk \in Talk /\ Alike(server)
    BY <1>3 DEF Plans, InTalk, Inv, Sound, ServerState, Alike
  <2> QED
    BY <1>3, <2>1, ApplyChoiceTold
<1> QED
  BY <1>1, <1>2, <1>3 DEF HandleChoose

(* A request that is not thrown away is handled.                           *)
LEMMA ReceiveTold ==
  ASSUME Inv, Numbered(server), ~lost', Receive
  PROVE  OwnerTold
<1>1. Head(inbox) \in Request
  BY DEF Receive, Inv, OthersTyped
<1>2. Handle(Head(inbox))
  BY DEF Receive, Drop
<1> DEFINE q == Head(inbox)
<1> HIDE DEF q
<1>3. /\ q.ask \in {"open", "close", "advance", "choose"}
      /\ q.ask = "open" => q.target \in Target /\ HandleOpen(q.target)
      /\ q.ask = "close" => q.id \in SessionId /\ HandleClose(q.id)
      /\ q.ask = "advance" => HandleAdvance(q.id)
      /\ q.ask = "choose" => q.to \in Beat \cup {End} /\ HandleChoose(q.id, q.beat, q.to)
  BY <1>1, <1>2, RequestParts DEF Handle, q
<1> QED
  BY <1>3, OpenTold, CloseTold, AdvanceTold, ChooseTold

LEMMA TickTold ==
  ASSUME Inv, Numbered(server), ~lost', Tick
  PROVE  OwnerTold
<1> DEFINE r == IF server.reopen = 0 THEN 0 ELSE server.reopen - 1
           s == [server EXCEPT !.reopen = r]
<1>1. r \in 0 .. Cooldown
  BY Bounds DEF Inv, Sound, ServerState
<1>2. s = [server EXCEPT !.reopen = IF @ = 0 THEN 0 ELSE @ - 1]
  BY DEF Inv, Sound, ServerState
<1>3. Become(s, <<>>) \/ /\ server.session /= Nothing
                         /\ Become(Finished(Shut(s, s.session.id)), <<Closed(s.session.id)>>)
  BY <1>2 DEF Tick
<1> HIDE DEF r
<1>4. Alike(s)
  BY <1>1 DEF Inv, Sound, ServerState, Alike
<1> HIDE DEF s
<1>5. CASE Become(s, <<>>)
  BY <1>4, <1>5, StayTold DEF Alike
<1>6. CASE server.session /= Nothing
           /\ Become(Finished(Shut(s, s.session.id)), <<Closed(s.session.id)>>)
  <2>1. s.session.id \in SessionId
    BY <1>4, <1>6 DEF Alike, ServerState
  <2> QED
    BY <1>4, <1>6, <2>1, ShutParts, EndTold, EndEvents DEF Alike
<1> QED
  BY <1>3, <1>5, <1>6

LEMMA RelocateTold ==
  ASSUME Inv, Numbered(server), ~lost', Relocate
  PROVE  OwnerTold
<1>1. CASE server.session /= Nothing /\ Become(Moved(server), <<Closed(server.session.id)>>)
  <2>1. server.session.id \in SessionId
    BY <1>1 DEF Inv, Sound, ServerState
  <2>2. Moved(server).opened = server.opened /\ Moved(server).session = Nothing
    BY DEF Moved, Cleared, Inv, Sound, ServerState
  <2> QED
    BY <1>1, <2>1, <2>2, EndTold, EndEvents
<1>2. CASE Become(server, <<Rejected>>)
  BY <1>2, EndTold, EndEvents
<1> QED
  BY <1>1, <1>2 DEF Relocate

(* A command is taken up or refused, and nothing is told.                  *)
LEMMA OthersTold ==
  ASSUME Inv, Numbered(server), ~lost', StageOther \/ SettleOtherwise
  PROVE  OwnerTold
<1>1. /\ server'.session = server.session /\ server'.talk = server.talk
      /\ server'.opened = server.opened
  BY DEF StageOther, SettleOtherwise, Settled, Inv, Sound, ServerState
<1>2. outbox' = outbox \o <<>>
  BY DEF StageOther, SettleOtherwise, Inv, OthersTyped
<1>3. Grown(server, server') /\ Numbered(server')
  BY <1>1, GrownQuietly DEF Inv, Sound
<1>4. Told(server, server', <<>>)
  BY <1>1 DEF Told
<1> QED
  BY <1>2, <1>3, <1>4 DEF OwnerTold

LEMMA SettleTold ==
  ASSUME Inv, Numbered(server), ~lost', SettleStored
  PROVE  OwnerTold
<1> DEFINE command == server.staged
           s == Settled(server)
<1>1. command \in Command
  BY DEF SettleStored, Inv, Sound, ServerState
<1>2. Alike(s)
  BY DEF Settled, Inv, Sound, ServerState, Alike
<1>3. CASE command.kind = "choice"
  <2>1. ApplyChoice(s, command.from, command.to)
    BY <1>3 DEF SettleStored
  <2> QED
    BY <1>1, <1>2, <1>3, <2>1, CommandParts, ApplyChoiceTold
<1>4. CASE command.kind = "heard"
  <2>1. ApplyHeard(s, command.from)
    BY <1>4 DEF SettleStored
  <2> QED
    BY <1>1, <1>2, <1>4, <2>1, CommandParts, ApplyHeardTold
<1>5. CASE command.kind = "other"
  <2>1. Become(s, <<>>)
    BY <1>5 DEF SettleStored
  <2> QED
    BY <1>2, <2>1, StayTold DEF Alike
<1> QED
  BY <1>1, <1>3, <1>4, <1>5, CommandParts

-----------------------------------------------------------------------------
(* What a step of the owner leaves of the panel's invariant.               *)
LEMMA RootedGrows ==
  ASSUME NEW s \in ServerState, NEW t \in ServerState, Grown(s, t), NEW talk \in Talk,
         Rooted(s, talk)
  PROVE  Rooted(t, talk)
<1>1. talk.id \in Nat /\ s.opened \in Nat /\ t.opened \in Nat
  BY Bounds DEF Talk, SessionId, ServerState
<1>2. talk.id <= t.opened /\ (t.opened > s.opened => talk.id # t.opened)
  BY <1>1 DEF Grown, Rooted
<1>3. ASSUME t.session /= Nothing, t.session.id = talk.id
      PROVE  t.session.target = talk.target
  BY <1>2, <1>3 DEF Grown, Rooted
<1> QED
  BY <1>2, <1>3 DEF Rooted

LEMMA OwnerPanel ==
  ASSUME Inv, Inv', PanelInv, ~lost, OwnerTold, UNCHANGED client
  PROVE  /\ Numbered(server') /\ Foretold(server', outbox')
         /\ Displayed(server', outbox', client') /\ Spoken(server', outbox', client')
         /\ ~Silent(outbox, 0) => ~Silent(outbox', 0)
<1>1. PICK es : /\ Told(server, server', es) /\ outbox' = outbox \o es
                /\ Grown(server, server') /\ Numbered(server')
  BY DEF OwnerTold
<1>2. /\ outbox \in Seq(Event) /\ server \in ServerState
      /\ server' \in ServerState /\ InSession(server')
  BY DEF Inv, Sound, OthersTyped
<1>3. /\ Foretold(server', outbox') /\ Displayed(server', outbox', client)
      /\ es \in Seq(Event)
      /\ \A k \in 1 .. Len(es) : es[k].tell = "line" =>
           es[k].talk = server'.talk /\ server'.talk \in Talk
  BY <1>1, <1>2, ToldStep DEF PanelInv
<1>4. /\ Len(outbox) \in Nat /\ Len(outbox') = Len(outbox) + Len(es) /\ Len(es) \in Nat
      /\ \A j \in 1 .. Len(outbox) : outbox'[j] = outbox[j]
      /\ \A j \in 1 .. Len(es) : outbox'[Len(outbox) + j] = es[j]
  BY <1>1, <1>2, <1>3, Joined
<1>5. server'.talk \in Talk => Rooted(server', server'.talk)
  BY <1>1, <1>2, NothingIsNone DEF InSession, Numbered, Rooted
<1>6. ASSUME NEW j \in 1 .. Len(outbox'), outbox'[j].tell = "line"
      PROVE  Rooted(server', outbox'[j].talk)
  <2>1. CASE j \in 1 .. Len(outbox)
    <3>1. outbox'[j] = outbox[j] /\ outbox[j] \in Event
      BY <2>1, <1>2, <1>4
    <3>2. outbox[j].talk \in Talk /\ Rooted(server, outbox[j].talk)
      BY <2>1, <3>1, <1>6, EventParts DEF PanelInv, Spoken
    <3> QED
      BY <3>1, <3>2, <1>1, <1>2, RootedGrows
  <2>2. CASE j - Len(outbox) \in 1 .. Len(es) /\ j = Len(outbox) + (j - Len(outbox))
    <3>1. outbox'[j] = es[j - Len(outbox)]
      BY <2>2, <1>4
    <3> QED
      BY <3>1, <2>2, <1>3, <1>5, <1>6
  <2> QED
    BY <2>1, <2>2, <1>4, JoinedPlace
<1>7. /\ client.line /= Nothing => Rooted(server', client.line)
      /\ client.pending /= Nothing => Rooted(server', client.pending)
  BY <1>1, <1>2, ClientParts, RootedGrows DEF PanelInv, Spoken
<1>8. Spoken(server', outbox', client')
  BY <1>6, <1>7 DEF Spoken
<1>9. ~Silent(outbox, 0) => ~Silent(outbox', 0)
  <2>1. 0 \in 0 .. Len(outbox)
    BY <1>4
  <2> QED
    BY <2>1, <1>1, <1>2, <1>3, JoinedSilent
<1> QED
  BY <1>1, <1>3, <1>8, <1>9

(* An open or a close is answered.                                         *)
LEMMA Answered ==
  ASSUME Inv, ~lost', NEW s, NEW e \in Event, Tells(e),
         Become(s, <<e>>) \/ (\E f \in Event : Become(s, <<e, f>>))
  PROVE  ~Silent(outbox', 0)
<1>1. outbox \in Seq(Event)
  BY DEF Inv, OthersTyped
<1>2. PICK es \in Seq(Event) : ~Silent(es, 0) /\ Become(s, es)
  BY Short
<1>3. outbox' = outbox \o es
  BY <1>2 DEF Become
<1>4. 0 \in 0 .. Len(outbox)
  BY <1>1
<1> QED
  BY <1>1, <1>2, <1>3, <1>4, JoinedSilent

LEMMA OpenAnswered ==
  ASSUME Inv, ~lost', NEW target \in Target, HandleOpen(target)
  PROVE  ~Silent(outbox', 0)
<1> DEFINE s == Matched(Reached(server, target))
<1>0. Tells(Rejected)
  BY DEF Tells, Rejected
<1>1. CASE Become(server, <<Rejected>>)
  BY <1>0, <1>1, Answered, EndEvents
<1>2. CASE s.opened <= MaxSessions
           /\ \/ target \notin Npc /\ Become(s, <<Opened(s.session)>>)
              \/ target \in Npc /\ s.talk = Nothing /\ BeginTalk(s)
              \/ /\ target \in Npc /\ s.talk /= Nothing
                 /\ Become(Locked(s, s.talk), <<Opened(s.session), Line(s.talk)>>)
  <2>1. Sound(s) /\ s.session \in [id : SessionId, target : Target] /\ s.session.target = target
    BY <1>2, ReachedSound DEF Inv
  <2> HIDE DEF s
  <2>2. Opened(s.session) \in Event /\ Tells(Opened(s.session))
    BY <2>1, EventTypes DEF Opened, Tells
  <2>3. CASE Become(s, <<Opened(s.session)>>)
    BY <2>2, <2>3, Answered
  <2>4. CASE target \in Npc /\ BeginTalk(s)
    <3>1. ASSUME NEW beat \in Selectable(s),
                 LET talk == [id |-> s.session.id, target |-> s.session.target, beat |-> beat]
                 IN  Become(Locked(s, talk), <<Opened(s.session), Line(talk)>>)
          PROVE  ~Silent(outbox', 0)
      <4> DEFINE talk == [id |-> s.session.id, target |-> s.session.target, beat |-> beat]
      <4>1. beat \in Beat
        BY DialogueAssumption DEF Selectable, DialogueAssumption
      <4>2. talk \in Talk
        BY <4>1, <2>1, <2>4 DEF Talk
      <4>3. Become(Locked(s, talk), <<Opened(s.session), Line(talk)>>)
        BY <3>1
      <4> HIDE DEF talk
      <4> QED
        BY <4>2, <4>3, <2>2, Answered, EventTypes
    <3>2. CASE Become(Cleared(Shut(s, s.session.id)), <<Rejected>>)
      BY <1>0, <3>2, Answered, EndEvents
    <3> QED
      BY <2>4, <3>1, <3>2 DEF BeginTalk
  <2>5. CASE /\ target \in Npc /\ s.talk /= Nothing
             /\ Become(Locked(s, s.talk), <<Opened(s.session), Line(s.talk)>>)
    <3>1. Line(s.talk) \in Event
      BY <2>1, <2>5, EventTypes DEF Sound, ServerState
    <3> QED
      BY <3>1, <2>2, <2>5, Answered
  <2> QED
    BY <1>2, <2>3, <2>4, <2>5
<1> QED
  BY <1>1, <1>2 DEF HandleOpen

LEMMA CloseAnswered ==
  ASSUME Inv, ~lost', NEW id \in SessionId, HandleClose(id)
  PROVE  ~Silent(outbox', 0)
<1>1. Tells(Rejected) /\ Tells(Closed(id))
  BY DEF Tells, Rejected, Closed
<1> QED
  BY <1>1, Answered, EndEvents DEF HandleClose

LEMMA ReceivePanel ==
  ASSUME Inv, Inv', PanelInv, ~lost, ~lost', Receive
  PROVE  PanelInv'
<1>1. OwnerTold /\ UNCHANGED client
  BY ReceiveTold DEF PanelInv, Receive
<1>2. /\ inbox \in Seq(Request) /\ inbox # <<>> /\ inbox' = Tail(inbox)
      /\ Handle(Head(inbox))
  BY DEF Receive, Drop, Inv, OthersTyped
<1>3. /\ Head(inbox) = inbox[1] /\ Head(inbox) \in Request
      /\ \A j \in 1 .. Len(inbox) : j # 1 => j - 1 \in 1 .. Len(inbox') /\ inbox'[j - 1] = inbox[j]
  <2>1. Len(inbox') = Len(inbox) - 1 /\ \A i \in 1 .. Len(inbox') : inbox'[i] = inbox[i + 1]
    BY <1>2
  <2>2. Head(inbox) = inbox[1] /\ Head(inbox) \in Request /\ Len(inbox) \in Nat
    BY <1>2
  <2>3. ASSUME NEW j \in 1 .. Len(inbox), j # 1
        PROVE  j - 1 \in 1 .. Len(inbox') /\ inbox'[j - 1] = inbox[j]
    <3>1. j - 1 \in 1 .. Len(inbox') /\ (j - 1) + 1 = j
      BY <2>1, <2>2, <2>3
    <3> QED
      BY <2>1, <3>1
  <2> QED
    BY <2>2, <2>3
<1>4. Head(inbox).ask \in {"open", "close"} => ~Silent(outbox', 0)
  <2> DEFINE q == Head(inbox)
  <2>1. q.ask = "open" => q.target \in Target /\ HandleOpen(q.target)
    BY <1>2, <1>3, RequestParts DEF Handle
  <2>2. q.ask = "close" => q.id \in SessionId /\ HandleClose(q.id)
    BY <1>2, <1>3, RequestParts DEF Handle
  <2> QED
    BY <2>1, <2>2, OpenAnswered, CloseAnswered
<1>5. Awaited(inbox', outbox', client')
  <2> SUFFICES ASSUME client.ui.state \in {"opening", "closing"}, Silent(outbox', 0)
               PROVE  \E j \in 1 .. Len(inbox') : inbox'[j].ask \in {"open", "close"}
    BY <1>1 DEF Awaited
  <2>1. PICK j \in 1 .. Len(inbox) : inbox[j].ask \in {"open", "close"}
    BY <1>1, OwnerPanel DEF PanelInv, Awaited
  <2>2. j # 1
    BY <2>1, <1>3, <1>4
  <2> QED
    BY <2>1, <2>2, <1>3
<1> QED
  BY <1>1, <1>5, OwnerPanel DEF PanelInv

LEMMA OwnerOnly ==
  ASSUME Inv, Inv', PanelInv, ~lost, ~lost', OwnerTold, UNCHANGED <<inbox, client>>
  PROVE  PanelInv'
<1>1. Awaited(inbox', outbox', client')
  BY OwnerPanel DEF Awaited, PanelInv
<1> QED
  BY <1>1, OwnerPanel DEF PanelInv

-----------------------------------------------------------------------------
(* The client                                                              *)
(* A request is sent; it leaves the others where they are.                 *)
LEMMA Sent ==
  ASSUME Inv, ~lost', NEW request \in Request, Send(request)
  PROVE  /\ \A j \in 1 .. Len(inbox) : j \in 1 .. Len(inbox') /\ inbox'[j] = inbox[j]
         /\ \E j \in 1 .. Len(inbox') : inbox'[j] = request
<1>1. inbox \in Seq(Request) /\ inbox' = Append(inbox, request)
  BY DEF Send, Inv, OthersTyped
<1>2. Len(inbox) \in Nat /\ Len(inbox') = Len(inbox) + 1 /\ inbox'[Len(inbox) + 1] = request
  BY <1>1
<1>3. \A j \in 1 .. Len(inbox) : j \in 1 .. Len(inbox') /\ inbox'[j] = inbox[j]
  BY <1>1
<1>4. Len(inbox) + 1 \in 1 .. Len(inbox')
  BY <1>2
<1> QED
  BY <1>2, <1>3, <1>4

(* A panel that begins to wait, or asks for something else.                *)
LEMMA AskPanel ==
  ASSUME Inv, PanelInv, ~lost, ~lost', ClientOnly, NEW request \in Request, Send(request),
         client'.line = client.line, client'.pending = client.pending,
         \/ client'.ui = client.ui
         \/ client'.ui.state \in {"opening", "closing"} /\ request.ask \in {"open", "close"}
  PROVE  PanelInv'
<1>1. UNCHANGED <<server, outbox>>
  BY DEF ClientOnly
<1>2. Numbered(server) /\ Foretold(server, outbox) /\ Spoken(server, outbox, client')
  BY DEF PanelInv, Spoken
<1>3. Displayed(server, outbox, client')
  BY DEF PanelInv, Displayed, LastLine
<1>4. Awaited(inbox', outbox, client')
  BY Sent DEF PanelInv, Awaited
<1> QED
  BY <1>1, <1>2, <1>3, <1>4 DEF PanelInv

LEMMA ChoosePanel ==
  ASSUME Inv, PanelInv, ~lost, ~lost', ClientOnly, UNCHANGED client,
         NEW to \in Choosable, Choose(to)
  PROVE  PanelInv'
<1>1. client.line \in Talk /\ to \in Leads[client.line.beat]
  BY ClientParts DEF Choosable
<1>2. client.line.id \in SessionId /\ client.line.beat \in Beat
  BY <1>1 DEF Talk
<1>3. to \in Beat \cup {End}
  BY <1>1, <1>2, DialogueAssumption DEF DialogueAssumption
<1>4. [ask |-> "choose", id |-> client.line.id, beat |-> client.line.beat, to |-> to] \in Request
  BY <1>2, <1>3 DEF Request
<1> QED
  BY <1>4, AskPanel DEF Choose

LEMMA AdvancePanel ==
  ASSUME Inv, PanelInv, ~lost, ~lost', ClientOnly, UNCHANGED client,
         client.ui.state = "active", Advance
  PROVE  PanelInv'
<1>1. [ask |-> "advance", id |-> client.ui.id] \in Request
  BY ClientParts, PanelParts DEF Request
<1> QED
  BY <1>1, AskPanel DEF Advance

LEMMA ClosePanel ==
  ASSUME Inv, PanelInv, ~lost, ~lost', ClientOnly, client.ui.state = "active", BeginClose
  PROVE  PanelInv'
<1> DEFINE ui == [state |-> "closing", id |-> client.ui.id, target |-> client.ui.target]
           request == [ask |-> "close", id |-> client.ui.id]
<1>1. request \in Request /\ request.ask = "close"
  BY ClientParts, PanelParts DEF Request
<1>2. ui.state = "closing"
  OBVIOUS
<1>3. client' = [client EXCEPT !.ui = ui] /\ Send(request)
  BY ClientParts DEF BeginClose, ClientState
<1> HIDE DEF ui, request
<1>4. client'.ui = ui /\ client'.line = client.line /\ client'.pending = client.pending
  BY <1>3, ClientParts DEF ClientState
<1> QED
  BY <1>1, <1>2, <1>3, <1>4, AskPanel

LEMMA PressPanel ==
  ASSUME Inv, PanelInv, ~lost, ~lost', PressInteract
  PROVE  PanelInv'
<1>0. ClientOnly
  BY DEF PressInteract
<1>1. CASE /\ client.ui.state = "active" /\ UNCHANGED client
           /\ (\E to \in Choosable : Choose(to)) \/ Advance
  BY <1>0, <1>1, ChoosePanel, AdvancePanel
<1>2. CASE client.ui.state = "active" /\ BeginClose
  BY <1>0, <1>2, ClosePanel
<1>3. ASSUME NEW target \in Target,
             client' = [client EXCEPT !.ui = [state |-> "opening", target |-> target]],
             Send([ask |-> "open", target |-> target])
      PROVE  PanelInv'
  <2> DEFINE ui == [state |-> "opening", target |-> target]
             request == [ask |-> "open", target |-> target]
  <2>1. request \in Request /\ request.ask = "open" /\ ui.state = "opening"
    BY DEF Request
  <2>2. client' = [client EXCEPT !.ui = ui] /\ Send(request)
    BY <1>3
  <2> HIDE DEF ui, request
  <2>3. client'.ui = ui /\ client'.line = client.line /\ client'.pending = client.pending
    BY <2>2, ClientParts DEF ClientState
  <2> QED
    BY <1>0, <2>1, <2>2, <2>3, AskPanel
<1> QED
  BY <1>1, <1>2, <1>3 DEF PressInteract

LEMMA ClickPanel ==
  ASSUME Inv, PanelInv, ~lost, ~lost', Click
  PROVE  PanelInv'
BY ChoosePanel, AdvancePanel DEF Click

LEMMA EscapePanel ==
  ASSUME Inv, PanelInv, ~lost, ~lost', Escape
  PROVE  PanelInv'
BY ClosePanel DEF Escape

(* The client forgets lines, or shows the one that waits.                  *)
LEMMA LinesPanel ==
  ASSUME Inv, PanelInv, ~lost, AcceptanceFades \/ TargetMissing
  PROVE  PanelInv'
<1>1. UNCHANGED <<server, inbox, outbox>> /\ client'.ui = client.ui
  BY ClientParts DEF AcceptanceFades, TargetMissing, ClientOnly, ClientState
<1>2. /\ client'.line \in {client.line, client.pending, Nothing} /\ client'.pending = Nothing
      /\ LastLine(client') \in {LastLine(client), Nothing}
  BY ClientParts DEF AcceptanceFades, TargetMissing, LastLine, ClientState
<1>3. Spoken(server, outbox, client')
  BY <1>2 DEF PanelInv, Spoken
<1>4. Displayed(server, outbox, client')
  BY <1>1, <1>2 DEF PanelInv, Displayed
<1>5. Awaited(inbox, outbox, client')
  BY <1>1 DEF PanelInv, Awaited
<1> QED
  BY <1>1, <1>3, <1>4, <1>5 DEF PanelInv

(* What hearing one event does to the panel and its lines.                 *)
After(c, e) == [Heard(c, e) EXCEPT !.ui = PanelAfter(@, e)]

LEMMA HeardParts ==
  ASSUME NEW c \in ClientState, NEW e \in Event, NEW d, d = After(c, e)
  PROVE  /\ d.line \in {c.line, Nothing} \cup (IF e.tell = "line" THEN {e.talk} ELSE {})
         /\ d.pending \in {c.pending, Nothing} \cup (IF e.tell = "line" THEN {e.talk} ELSE {})
         /\ e.tell = "opened" => d.ui = [state |-> "active", id |-> e.id, target |-> e.target]
         /\ e.tell \in {"rejected", "closed"} => d.ui = Idle
         /\ e.tell \in {"line", "accepted"} => d.ui = c.ui
         /\ e.tell = "line" /\ Belongs(e.talk, c.ui) => LastLine(d) = e.talk
         /\ e.tell = "accepted" => LastLine(d) = LastLine(c)
<1> DEFINE h == Heard(c, e)
           u == PanelAfter(h.ui, e)
<1>1. h \in ClientState
  BY HeardTyped
<1>2. d = [h EXCEPT !.ui = u]
  BY <1>1 DEF ClientState, After
<1>3. d.line = h.line /\ d.pending = h.pending /\ d.ui = u
  <2> HIDE DEF h, u
  <2> QED
    BY <1>1, <1>2 DEF ClientState
<1>4. h.ui = c.ui
  <2>1. CASE e.tell = "opened"
    BY <2>1 DEF Heard, ClientState
  <2>2. CASE e.tell \in {"rejected", "closed"}
    BY <2>2 DEF Heard, ClientState
  <2>3. CASE e.tell = "line"
    <3>1. h = Shown(c, e.talk)
      BY <2>3 DEF Heard
    <3> HIDE DEF h
    <3> QED
      BY <3>1 DEF Shown, ClientState
  <2>4. CASE e.tell = "accepted"
    BY <2>4 DEF Heard, ClientState
  <2> QED
    BY <2>1, <2>2, <2>3, <2>4, EventParts
<1>5. CASE e.tell = "opened"
  <2>1. h.line \in {c.line, Nothing} /\ h.pending = c.pending
    BY <1>5 DEF Heard, ClientState
  <2>2. u = [state |-> "active", id |-> e.id, target |-> e.target]
    BY <1>5 DEF PanelAfter
  <2> HIDE DEF h, u
  <2> QED
    BY <1>3, <1>5, <2>1, <2>2
<1>6. CASE e.tell \in {"rejected", "closed"}
  <2>1. h.line = Nothing /\ h.pending = Nothing
    BY <1>6 DEF Heard, ClientState
  <2>2. u = Idle
    BY <1>6 DEF PanelAfter
  <2> HIDE DEF h, u
  <2> QED
    BY <1>3, <1>6, <2>1, <2>2
<1>7. CASE e.tell = "line"
  <2>1. h = Shown(c, e.talk) /\ u = c.ui
    BY <1>4, <1>7 DEF Heard, PanelAfter
  <2>2. e.talk \in Talk /\ e.talk /= Nothing
    BY <1>7, EventParts, NothingIsNone
  <2>3. h.line \in {c.line, e.talk} /\ h.pending \in {c.pending, Nothing, e.talk}
    BY <2>1 DEF Shown, ClientState
  <2>4. Belongs(e.talk, c.ui) => LastLine(h) = e.talk
    BY <2>1, <2>2 DEF Shown, LastLine, ClientState
  <2> HIDE DEF h, u
  <2> QED
    BY <1>3, <1>7, <2>1, <2>3, <2>4 DEF LastLine
<1>8. CASE e.tell = "accepted"
  <2>1. h.line = c.line /\ h.pending = c.pending
    BY <1>8 DEF Heard, ClientState
  <2>2. u = c.ui
    BY <1>4, <1>8 DEF PanelAfter
  <2> HIDE DEF h, u
  <2> QED
    BY <1>3, <1>8, <2>1, <2>2 DEF LastLine
<1> QED
  BY <1>5, <1>6, <1>7, <1>8, EventParts

(* An event is heard.                                                      *)
LEMMA HearPanel ==
  ASSUME Inv, PanelInv, ~lost, ApplyEvent
  PROVE  PanelInv'
<1> DEFINE e == Head(outbox)
           t == Tail(outbox)
           s == server
           d == client'
<1>1. /\ outbox \in Seq(Event) /\ outbox # <<>> /\ outbox' = t
      /\ UNCHANGED <<server, inbox, lost>>
      /\ d = After(client, e)
      /\ client \in ClientState
  BY ClientParts DEF ApplyEvent, Inv, OthersTyped, After
<1>2. /\ t \in Seq(Event) /\ Len(t) = Len(outbox) - 1 /\ Len(outbox) \in Nat \ {0}
      /\ e = outbox[1] /\ e \in Event
      /\ \A j \in 1 .. Len(outbox) - 1 : t[j] = outbox[j + 1]
      /\ \A n \in 0 .. Len(outbox) - 1 :
           /\ Silent(t, n) <=> Silent(outbox, n + 1)
           /\ Speechless(t, n) <=> Speechless(outbox, n + 1)
      /\ Silent(outbox, 0) <=> ~Tells(e) /\ Silent(outbox, 1)
      /\ Speechless(outbox, 0) <=> e.tell /= "line" /\ Speechless(outbox, 1)
  BY <1>1, TailSilent
<1>4. Numbered(s) /\ Foretold(s, outbox) /\ Displayed(s, outbox, client)
      /\ Awaited(inbox, outbox, client) /\ Spoken(s, outbox, client)
  BY DEF PanelInv
<1> HIDE DEF e, t, d
<1>3. /\ d.line \in {client.line, Nothing} \cup (IF e.tell = "line" THEN {e.talk} ELSE {})
      /\ d.pending \in {client.pending, Nothing} \cup (IF e.tell = "line" THEN {e.talk} ELSE {})
      /\ e.tell = "opened" => d.ui = [state |-> "active", id |-> e.id, target |-> e.target]
      /\ e.tell \in {"rejected", "closed"} => d.ui = Idle
      /\ e.tell \in {"line", "accepted"} => d.ui = client.ui
      /\ e.tell = "line" /\ Belongs(e.talk, client.ui) => LastLine(d) = e.talk
      /\ e.tell = "accepted" => LastLine(d) = LastLine(client)
  BY <1>1, <1>2, HeardParts
<1>5. \A j \in 1 .. Len(t) : j \in 0 .. Len(outbox) - 1 /\ j + 1 \in 1 .. Len(outbox)
                             /\ t[j] = outbox[j + 1]
  BY <1>2
<1>6. 1 \in 1 .. Len(outbox) /\ 0 \in 0 .. Len(outbox) - 1
      /\ (Silent(t, 0) <=> Silent(outbox, 1)) /\ (Speechless(t, 0) <=> Speechless(outbox, 1))
  <2>1. 1 \in 1 .. Len(outbox) /\ 0 \in 0 .. Len(outbox) - 1 /\ 0 + 1 = 1
    BY <1>2
  <2> QED
    BY <1>2, <2>1
<1>7. Foretold(s, t)
  <2> SUFFICES ASSUME NEW j \in 1 .. Len(t), Silent(t, j)
               PROVE  /\ t[j].tell = "opened" =>
                           /\ Shows(s, t[j].id, t[j].target)
                           /\ s.talk /= Nothing => ~Speechless(t, j)
                      /\ t[j].tell = "line" /\ Speechless(t, j) => t[j].talk = s.talk
    BY DEF Foretold
  <2>1. /\ j + 1 \in 1 .. Len(outbox) /\ t[j] = outbox[j + 1] /\ Silent(outbox, j + 1)
        /\ Speechless(t, j) <=> Speechless(outbox, j + 1)
    BY <1>2, <1>5
  <2> QED
    BY <2>1, <1>4 DEF Foretold
<1>8. Spoken(s, t, d)
  <2>1. \A j \in 1 .. Len(t) : t[j].tell = "line" => Rooted(s, t[j].talk)
    BY <1>4, <1>5 DEF Spoken
  <2>2. e.tell = "line" => Rooted(s, e.talk)
    BY <1>2, <1>4, <1>6 DEF Spoken
  <2> QED
    BY <2>1, <2>2, <1>3, <1>4 DEF Spoken
<1>9. Awaited(inbox, t, d)
  <2>1. CASE Tells(e)
    BY <2>1, <1>3 DEF Tells, Awaited, Idle
  <2>2. CASE ~Tells(e)
    <3>1. e.tell \in {"line", "accepted"}
      BY <2>2, <1>2, EventParts DEF Tells
    <3> QED
      BY <3>1, <2>2, <1>2, <1>3, <1>4, <1>6 DEF Awaited
  <2> QED
    BY <2>1, <2>2
<1>10. Displayed(s, t, d)
  <2> SUFFICES ASSUME Silent(t, 0), d.ui.state = "active"
               PROVE  /\ Shows(s, d.ui.id, d.ui.target)
                      /\ Speechless(t, 0) /\ LastLine(d) /= Nothing /\ LastLine(d).id = d.ui.id =>
                           LastLine(d) = s.talk
    BY DEF Displayed
  <2>1. Silent(outbox, 1)
    BY <1>6
  <2>2. CASE e.tell = "opened"
    <3>1. d.ui.id = e.id /\ d.ui.target = e.target
      BY <2>2, <1>3
    <3>2. Shows(s, e.id, e.target) /\ (s.talk /= Nothing => ~Speechless(outbox, 1))
      BY <2>1, <2>2, <1>2, <1>4, <1>6 DEF Foretold
    <3>3. ASSUME s.talk = Nothing, LastLine(d) /= Nothing, LastLine(d).id = e.id
          PROVE  FALSE
      <4>1. Rooted(s, LastLine(d))
        BY <3>3, <1>8 DEF Spoken, LastLine
      <4>2. LastLine(d) \in Talk
        <5>1. LastLine(d) \in {client.line, client.pending, Nothing}
          BY <2>2, <1>3 DEF LastLine
        <5> QED
          BY <3>3, <5>1, ClientParts
      <4>3. s.session = [id |-> e.id, target |-> e.target] /\ e.target \notin Npc
        BY <3>2, <3>3 DEF Shows
      <4>4. s.session /= Nothing
        <5>1. e.id \in SessionId /\ e.target \in Target
          BY <2>2, <1>2, EventParts
        <5> QED
          BY <4>3, <5>1, NothingIsNone
      <4>5. LastLine(d).target = e.target
        BY <3>3, <4>1, <4>3, <4>4 DEF Rooted
      <4> QED
        BY <4>2, <4>3, <4>5 DEF Talk
    <3> QED
      BY <3>1, <3>2, <3>3, <1>6
  <2>3. CASE e.tell \in {"rejected", "closed"}
    BY <2>3, <1>3 DEF Idle
  <2>4. CASE e.tell = "line"
    <3>1. Silent(outbox, 0) /\ d.ui = client.ui
      BY <2>1, <2>4, <1>2, <1>3 DEF Tells
    <3>2. Shows(s, client.ui.id, client.ui.target)
      BY <3>1, <1>4 DEF Displayed
    <3>3. ASSUME Speechless(t, 0) PROVE LastLine(d) = s.talk
      <4>1. e.talk = s.talk
        BY <3>3, <2>1, <2>4, <1>2, <1>4, <1>6 DEF Foretold
      <4>2. e.talk \in Talk /\ e.talk /= Nothing
        BY <2>4, <1>2, EventParts, NothingIsNone
      <4>3. e.talk.id = client.ui.id /\ e.talk.target = client.ui.target
        BY <3>2, <4>1, <4>2 DEF Shows, Inv, Sound, InSession
      <4> QED
        BY <2>4, <3>1, <4>1, <4>3, <1>3 DEF Belongs
    <3> QED
      BY <3>1, <3>2, <3>3
  <2>5. CASE e.tell = "accepted"
    <3>1. Silent(outbox, 0) /\ d.ui = client.ui /\ LastLine(d) = LastLine(client)
      BY <2>1, <2>5, <1>2, <1>3 DEF Tells
    <3>2. Speechless(t, 0) => Speechless(outbox, 0)
      BY <2>5, <1>2, <1>6
    <3> QED
      BY <3>1, <3>2, <1>4 DEF Displayed
  <2> QED
    BY <2>2, <2>3, <2>4, <2>5, <1>2, EventParts
<1> QED
  BY <1>1, <1>4, <1>7, <1>8, <1>9, <1>10 DEF PanelInv, d

-----------------------------------------------------------------------------
LEMMA InitPanel == Init => PanelInv
<1> SUFFICES ASSUME Init PROVE PanelInv
  OBVIOUS
<1>1. server.session = Nothing /\ Len(outbox) = 0
      /\ client = [ui |-> Idle, line |-> Nothing, pending |-> Nothing, accepted |-> 0]
  BY DEF Init
<1>2. client.ui.state = "idle" /\ client.line = Nothing /\ client.pending = Nothing
  BY <1>1 DEF Idle
<1> QED
  BY <1>1, <1>2 DEF PanelInv, Numbered, Foretold, Displayed, Awaited, Spoken

(* What has been thrown away stays thrown away.                            *)
LEMMA LostStays ==
  ASSUME Inv, [Next]_vars, ~lost'
  PROVE  ~lost
<1>1. ASSUME NEW s, NEW es, Become(s, es) PROVE ~lost
  BY <1>1 DEF Become
<1>2. ASSUME NEW request, Send(request) PROVE ~lost
  BY <1>2 DEF Send
<1>3. CASE PressInteract
  BY <1>2, <1>3 DEF PressInteract, Choose, Advance, BeginClose
<1>4. CASE Click
  BY <1>2, <1>4 DEF Click, Choose, Advance
<1>5. CASE Escape
  BY <1>2, <1>5 DEF Escape, BeginClose
<1>6. CASE ApplyEvent \/ AcceptanceFades \/ TargetMissing \/ StageOther \/ SettleOtherwise
  BY <1>6 DEF ApplyEvent, AcceptanceFades, TargetMissing, StageOther, SettleOtherwise
<1>7. CASE Receive
  <2> DEFINE q == Head(inbox)
  <2>1. Handle(q) /\ q \in Request
    BY <1>7 DEF Receive, Drop, Inv, OthersTyped
  <2> HIDE DEF q
  <2>2. CASE q.ask = "open"
    <3>1. HandleOpen(q.target)
      BY <2>1, <2>2 DEF Handle
    <3> QED
      BY <3>1, <1>1 DEF HandleOpen, BeginTalk
  <2>3. CASE q.ask = "close"
    <3>1. HandleClose(q.id)
      BY <2>1, <2>3 DEF Handle
    <3> QED
      BY <3>1, <1>1 DEF HandleClose
  <2>4. CASE q.ask = "advance"
    <3>1. HandleAdvance(q.id)
      BY <2>1, <2>4 DEF Handle
    <3> QED
      BY <3>1, <1>1 DEF HandleAdvance, Stage, Ignore, ApplyHeard
  <2>5. CASE q.ask = "choose"
    <3>1. HandleChoose(q.id, q.beat, q.to)
      BY <2>1, <2>5 DEF Handle
    <3> QED
      BY <3>1, <1>1 DEF HandleChoose, Stage, Ignore, ApplyChoice
  <2> QED
    BY <2>1, <2>2, <2>3, <2>4, <2>5, RequestParts
<1>8. CASE Tick
  BY <1>1, <1>8 DEF Tick
<1>9. CASE Relocate
  BY <1>1, <1>9 DEF Relocate
<1>10. CASE SettleStored
  <2> DEFINE command == server.staged
  <2>1. command.kind \in {"choice", "heard", "other"}
    BY <1>10, CommandParts DEF SettleStored, Inv, Sound, ServerState
  <2>2. \/ ApplyChoice(Settled(server), command.from, command.to)
        \/ ApplyHeard(Settled(server), command.from)
        \/ Become(Settled(server), <<>>)
    BY <1>10, <2>1 DEF SettleStored
  <2> QED
    BY <1>1, <2>2 DEF ApplyChoice, ApplyHeard
<1> QED
  BY <1>3, <1>4, <1>5, <1>6, <1>7, <1>8, <1>9, <1>10 DEF Next, vars

LEMMA StepPanel == Inv /\ PanelInv /\ [Next]_vars => PanelInv'
<1> SUFFICES ASSUME Inv, PanelInv, [Next]_vars PROVE PanelInv'
  OBVIOUS
<1>1. CASE lost'
  BY <1>1 DEF PanelInv
<1>2. CASE ~lost'
  <2>1. Inv' /\ ~lost /\ Numbered(server)
    BY <1>2, StepInv, LostStays DEF PanelInv
  <2>2. CASE PressInteract \/ Click \/ Escape
    BY <1>2, <2>1, <2>2, PressPanel, ClickPanel, EscapePanel
  <2>3. CASE ApplyEvent
    BY <2>1, <2>3, HearPanel
  <2>4. CASE AcceptanceFades \/ TargetMissing
    BY <2>1, <2>4, LinesPanel
  <2>5. CASE Receive
    BY <1>2, <2>1, <2>5, ReceivePanel
  <2>6. CASE Tick \/ Relocate \/ StageOther \/ SettleOtherwise \/ SettleStored
    <3>1. UNCHANGED <<inbox, client>>
      BY <2>6 DEF Tick, Relocate, StageOther, SettleOtherwise, SettleStored
    <3> QED
      BY <1>2, <2>1, <2>6, <3>1, TickTold, RelocateTold, OthersTold, SettleTold, OwnerOnly
  <2>7. CASE UNCHANGED vars
    BY <2>7 DEF vars, PanelInv, Numbered, Foretold, Displayed, Awaited, Spoken, Shows, Rooted,
                Silent, Speechless, LastLine
  <2> QED
    BY <2>2, <2>3, <2>4, <2>5, <2>6, <2>7 DEF Next
<1> QED
  BY <1>1, <1>2

(* When everything has been heard and nothing was thrown away, the panel   *)
(* waits for nothing, shows no session that was closed, and its line is of *)
(* the beat the conversation is at: in every dialogue, whatever is opened, *)
(* closed, refused and answered late (UIRuntimeState::apply_server and the *)
(* client's DialogueRuntime against the owner's handlers).                 *)
THEOREM PanelCurrent == Spec => []PanelIsCurrent
<1>1. Inv /\ PanelInv => PanelIsCurrent
  <2> SUFFICES ASSUME Inv, PanelInv, ~lost, inbox = <<>>, outbox = <<>>
               PROVE  /\ client.ui.state \in {"idle", "active"}
                      /\ client.ui.state = "active" =>
                           /\ server.session = [id |-> client.ui.id, target |-> client.ui.target]
                           /\ LastLine(client) /= Nothing /\ LastLine(client).id = client.ui.id =>
                                LastLine(client) = server.talk
    BY DEF PanelIsCurrent, LastLine
  <2>1. Len(inbox) = 0 /\ Len(outbox) = 0
    OBVIOUS
  <2>2. Silent(outbox, 0) /\ Speechless(outbox, 0) /\ ~(\E j \in 1 .. Len(inbox) : TRUE)
    BY <2>1 DEF Silent, Speechless
  <2>3. client.ui.state \in {"idle", "opening", "active", "closing"}
    BY ClientParts, PanelParts
  <2> QED
    BY <2>2, <2>3 DEF PanelInv, Displayed, Awaited, Shows
<1>2. Inv /\ PanelInv /\ [Next]_vars => (Inv /\ PanelInv)'
  BY StepInv, StepPanel
<1> QED
  BY InitInv, InitPanel, <1>1, <1>2, PTL DEF Spec
=============================================================================
