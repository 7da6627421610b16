----------------------------- MODULE ClientSession -----------------------------
(***************************************************************************)
(* One client: the application thread, which owns the connection state,    *)
(* the screen and the replica, and the network thread, which runs one      *)
(* session at a time.  They share bounded queues (commands down, lifecycle *)
(* events and replication frames up) and a watched counter, the disconnect *)
(* epoch.  Each attempt to connect has a number that its events carry;     *)
(* each Connect carries the disconnect epoch of the moment it was sent, so *)
(* that a later Disconnect cuts it wherever it is.                         *)
(*                                                                         *)
(* The server is any peer that answers a request at most once.  Gameplay   *)
(* input, pings, telemetry and shutdown are left out.                      *)
(***************************************************************************)
EXTENDS Integers, Sequences

CONSTANTS
  MaxAttempt,   \* bound: connection attempts
  MaxCut,       \* bound: disconnects
  MaxObserver,     \* bound: observer epochs of a session
  CmdCap,       \* CMD_CAP
  EventCap,     \* LIFECYCLE_CAP
  FrameCap      \* FRAME_CAP

SessionAssumption ==
  /\ {MaxAttempt, CmdCap, EventCap, FrameCap} \subseteq Nat \ {0}
  /\ {MaxCut, MaxObserver} \subseteq Nat
ASSUME SessionAssumption

VARIABLES
  app,        \* lifecycle, frontend and screen of the application thread
  inbox,      \* events polled and not yet applied (poll_network)
  polling,    \* the application thread is between the two halves of a poll
  replica,    \* epoch of the replica, attempts whose frames it holds
  cut,        \* disconnect_epoch
  commands,   \* to the network thread
  net,        \* the network thread and its session
  hold,       \* what it is waiting to push
  events,     \* lifecycle channel
  frames      \* replication channel

SessionVars == <<app, inbox, polling, replica, cut, commands, net, hold, events, frames>>

Attempt == 1 .. MaxAttempt
NoAttempt == 0
State == {"Disconnected", "Connecting", "Handshaking", "Connected", "Rejected"}
Request == {"enter", "create"}
Terminal == {"rejected", "disconnected"}
EventKind == Terminal \cup {"connecting", "handshaking", "sessionReady",
                            "enterRejected", "gameplayReady", "createResult"}
Event == [kind : EventKind, attempt : Attempt]
FrameMsg == [kind : {"frame"}, attempt : Attempt, epoch : 0 .. MaxObserver]
RuntimeCommand == [kind : {"connect"}, attempt : Attempt, epoch : 0 .. MaxCut]
           \cup [kind : Request, attempt : Attempt]

(* Serves no attempt; what a session keeps is reset when it starts. *)
NoSession == [at |-> "idle", attempt |-> NoAttempt, epoch |-> 0, ready |-> FALSE,
         entering |-> FALSE, owed |-> {}, observer |-> 0]
NoReplica == [epoch |-> 0, from |-> {}]

SessionTypeOK ==
  /\ app \in [screen : {"Connection", "Game"}, state : State,
              active : Attempt \cup {NoAttempt}, next : 0 .. MaxAttempt,
              session : {"Disconnected", "Pending", "Ready"},
              handoff : {"idle", "waiting", "world"}, creating : BOOLEAN]
  /\ inbox \in Seq(Event) /\ polling \in BOOLEAN
  /\ replica \in [epoch : 0 .. MaxObserver, from : SUBSET Attempt]
  /\ cut \in 0 .. MaxCut
  /\ commands \in Seq(RuntimeCommand) /\ Len(commands) <= CmdCap
  /\ net \in [at : {"idle", "starting", "connecting", "hello", "live"},
              attempt : Attempt \cup {NoAttempt}, epoch : 0 .. MaxCut,
              ready : BOOLEAN, entering : BOOLEAN, owed : SUBSET Request,
              observer : 0 .. MaxObserver]
  /\ hold \in Seq(Event \cup FrameMsg) /\ Len(hold) <= 1
  /\ events \in Seq(Event) /\ Len(events) <= EventCap
  /\ frames \in Seq(FrameMsg) /\ Len(frames) <= FrameCap

SessionInit ==
  /\ app = [screen |-> "Connection", state |-> "Disconnected", active |-> NoAttempt,
            next |-> 0, session |-> "Disconnected", handoff |-> "idle", creating |-> FALSE]
  /\ inbox = <<>> /\ polling = FALSE /\ replica = NoReplica /\ cut = 0
  /\ commands = <<>> /\ net = NoSession /\ hold = <<>> /\ events = <<>> /\ frames = <<>>

-----------------------------------------------------------------------------
(* The application thread *)

LegalIn ==
  [k \in EventKind |->
     CASE k \in {"connecting", "handshaking"} -> {"Connecting"}
       [] k \in {"sessionReady", "rejected"} -> {"Handshaking"}
       [] k = "disconnected" -> {"Connecting", "Handshaking", "Connected"}
       [] OTHER -> {"Connected"}]

Legal(a, e) == e.attempt = a.active /\ a.state \in LegalIn[e.kind]

StateAfter(state, kind) ==
  CASE kind = "connecting" -> "Connecting"
    [] kind = "handshaking" -> "Handshaking"
    [] kind = "sessionReady" -> "Connected"
    [] kind = "rejected" -> "Rejected"
    [] kind = "disconnected" -> "Disconnected"
    [] OTHER -> state

(* FrontendRuntime::disconnected *)
FrontendLost(a) ==
  [a EXCEPT !.session = "Disconnected", !.handoff = "idle", !.creating = FALSE]

(* enter_rejected, gameplay_ready: only the frontend that waits moves on *)
Handed(a, to) == IF a.handoff = "waiting" THEN [a EXCEPT !.handoff = to] ELSE a

Projected(a, kind) ==
  CASE kind = "sessionReady" -> [a EXCEPT !.session = "Ready"]
    [] kind = "gameplayReady" -> Handed(a, "world")
    [] kind = "enterRejected" -> Handed(a, "idle")
    [] kind = "createResult" -> [a EXCEPT !.creating = FALSE]
    [] kind \in Terminal -> FrontendLost(a)
    [] OTHER -> a

(* GameplayReady enters the game; it is left with the connection. *)
ScreenAfter(a, kind) ==
  IF StateAfter(a.state, kind) # "Connected" THEN "Connection"
  ELSE IF kind = "gameplayReady" THEN "Game" ELSE a.screen

AppliedEvent(e, a) ==
  IF ~Legal(a, e) THEN a
  ELSE [Projected(a, e.kind) EXCEPT !.state = StateAfter(@, e.kind),
                                    !.screen = ScreenAfter(a, e.kind)]

(* ReplicatedWorld::apply_frame: an older epoch is ignored, a newer resets. *)
AppliedFrame(f, r) ==
  IF f.epoch < r.epoch THEN r
  ELSE [epoch |-> f.epoch,
        from |-> {f.attempt} \cup IF f.epoch = r.epoch THEN r.from ELSE {}]

(* What the application is left with after each event, after each frame.   *)
AfterEvents(a, es) ==
  LET after[n \in 0 .. Len(es)] ==
        IF n = 0 THEN a ELSE AppliedEvent(es[n], after[n - 1])
  IN after
AfterFrames(r, fs) ==
  LET after[n \in 0 .. Len(fs)] ==
        IF n = 0 THEN r ELSE AppliedFrame(fs[n], after[n - 1])
  IN after

FailUnsent(a) == [FrontendLost(a) EXCEPT !.active = NoAttempt, !.state = "Disconnected"]

Send(c) == commands' = IF Len(commands) < CmdCap THEN Append(commands, c) ELSE commands
IsSent == Len(commands) < CmdCap

Stamp_Fixed == 0
Stamp == cut

RequestConnect ==
  /\ ~polling /\ app.state \in {"Disconnected", "Rejected"} /\ app.next < MaxAttempt
  /\ LET id == app.next + 1
         begun == [app EXCEPT !.next = id, !.active = id, !.state = "Connecting",
                              !.screen = "Connection", !.session = "Pending"]
     IN /\ Send([kind |-> "connect", attempt |-> id, epoch |-> Stamp])
        /\ app' = IF IsSent THEN begun ELSE FailUnsent(begun)
  /\ UNCHANGED <<inbox, polling, replica, cut, net, hold, events, frames>>

(* on_screen_changed away from the game drains the frames of the moment. *)
Cleared(left) ==
  /\ frames' = IF left THEN <<>> ELSE frames
  /\ replica' = IF left THEN NoReplica ELSE replica

RequestDisconnect ==
  /\ ~polling /\ cut < MaxCut
  /\ app' = [FrontendLost(app) EXCEPT !.active = NoAttempt, !.state = "Disconnected",
                                      !.screen = "Connection"]
  /\ cut' = IF \/ app.active # NoAttempt
               \/ app.state \in {"Connecting", "Handshaking", "Connected"}
            THEN cut + 1 ELSE cut
  /\ Cleared(app.screen = "Game")
  /\ UNCHANGED <<inbox, polling, commands, net, hold, events>>

CanAsk ==
  /\ ~polling /\ app.screen = "Connection" /\ app.session = "Ready"
  /\ app.handoff = "idle" /\ ~app.creating

EnterWorld ==
  /\ CanAsk
  /\ Send([kind |-> "enter", attempt |-> app.active])
  /\ app' = IF IsSent THEN [app EXCEPT !.handoff = "waiting"] ELSE app
  /\ UNCHANGED <<inbox, polling, replica, cut, net, hold, events, frames>>

CreateCharacter ==
  /\ CanAsk
  /\ Send([kind |-> "create", attempt |-> app.active])
  /\ app' = IF IsSent THEN [app EXCEPT !.creating = TRUE] ELSE app
  /\ UNCHANGED <<inbox, polling, replica, cut, net, hold, events, frames>>

(* world_ready: the character of the replica is presented *)
WorldReady ==
  /\ ~polling /\ app.handoff = "world" /\ app.screen = "Game" /\ replica.from # {}
  /\ app' = [app EXCEPT !.handoff = "idle"]
  /\ UNCHANGED <<inbox, polling, replica, cut, commands, net, hold, events, frames>>

PollEvents ==
  /\ ~polling
  /\ polling' = TRUE /\ inbox' = events /\ events' = <<>>
  /\ UNCHANGED <<app, replica, cut, commands, net, hold, frames>>

(* The frames first, whatever the screen; then the events polled before. *)
PollFrames ==
  LET after == AfterEvents(app, inbox)[Len(inbox)]
      left == after.screen # app.screen /\ after.screen = "Connection"
      shown == AfterFrames(replica, frames)[Len(frames)]
  IN /\ polling
     /\ app' = after /\ inbox' = <<>> /\ polling' = FALSE /\ frames' = <<>>
     /\ replica' = IF left THEN NoReplica ELSE shown
     /\ UNCHANGED <<cut, commands, net, hold, events>>

-----------------------------------------------------------------------------
(* The network thread *)

Free == hold = <<>>
Emit(kind) == hold' = <<[kind |-> kind, attempt |-> net.attempt]>>
End_Silent(kind) == net' = NoSession /\ UNCHANGED <<hold, commands>>
End(kind) == net' = NoSession /\ Emit(kind) /\ UNCHANGED commands

AppUnchanged == UNCHANGED <<app, inbox, polling, replica, cut>>
NetFrame == AppUnchanged /\ UNCHANGED <<events, frames>>

(* EventSink::emit and push_frame wait for room. *)
Room_Always(item) == TRUE
Room(item) == IF item.kind = "frame" THEN Len(frames) < FrameCap ELSE Len(events) < EventCap

Push ==
  /\ hold # <<>>
  /\ LET item == Head(hold)
         frame == item.kind = "frame"
     IN /\ Room(item)
        /\ frames' = IF frame THEN Append(frames, item) ELSE frames
        /\ events' = IF frame THEN events ELSE Append(events, item)
  /\ hold' = <<>>
  /\ AppUnchanged /\ UNCHANGED <<commands, net>>

(* The Connects behind the first are drained, with the command that ends them. *)
Drained(q) ==
  LET others == {i \in 1 .. Len(q) : q[i].kind # "connect"}
  IN IF others = {} THEN <<>>
     ELSE SubSeq(q, (CHOOSE i \in others : \A j \in others : i <= j) + 1, Len(q))

TakeCommand ==
  /\ net.at = "idle" /\ Free /\ commands # <<>>
  /\ LET c == Head(commands)
     IN IF c.kind = "connect"
        THEN /\ net' = [NoSession EXCEPT !.at = "starting", !.attempt = c.attempt,
                                    !.epoch = c.epoch]
             /\ hold' = <<[kind |-> "connecting", attempt |-> c.attempt]>>
             /\ commands' = Drained(Tail(commands))
        ELSE UNCHANGED <<net, hold>> /\ commands' = Tail(commands)
  /\ NetFrame

CutPending == cut # net.epoch

StartConnect ==
  /\ net.at = "starting" /\ Free
  /\ IF CutPending THEN End("disconnected")
     ELSE net' = [net EXCEPT !.at = "connecting"] /\ UNCHANGED <<hold, commands>>
  /\ NetFrame

(* Before a session is live the loops take commands only to discard them. *)
Discard ==
  /\ net.at \in {"connecting", "hello"} /\ Free /\ commands # <<>>
  /\ commands' = Tail(commands)
  /\ UNCHANGED <<net, hold>> /\ NetFrame

Noticing_NotLive == {"connecting", "hello"}
Noticing == {"connecting", "hello", "live"}

(* The live loop's select is biased: commands come before the control. *)
NoticeCut ==
  /\ net.at \in Noticing /\ Free /\ CutPending
  /\ net.at = "live" => commands = <<>>
  /\ End("disconnected") /\ NetFrame

Reached_Silent(kind) == net' = [net EXCEPT !.at = "hello"] /\ UNCHANGED hold
Reached(kind) == net' = [net EXCEPT !.at = "hello"] /\ Emit(kind)

Connected ==
  /\ net.at = "connecting" /\ Free
  /\ Reached("handshaking")
  /\ UNCHANGED commands /\ NetFrame

SessionReady ==
  /\ net.at = "hello" /\ Free
  /\ net' = [net EXCEPT !.at = "live"] /\ Emit("sessionReady")
  /\ UNCHANGED commands /\ NetFrame

Rejected ==
  /\ net.at = "hello" /\ Free
  /\ End("rejected") /\ NetFrame

(* Refused, timed out, lost, or ended by the server. *)
Lost ==
  /\ net.at \in {"connecting", "hello", "live"} /\ Free
  /\ net.at = "live" => commands = <<>> /\ ~CutPending
  /\ End("disconnected") /\ NetFrame

LiveCommand ==
  /\ net.at = "live" /\ Free /\ commands # <<>>
  /\ LET c == Head(commands)
         own == c.attempt = net.attempt
         enter == c.kind = "enter" /\ own /\ ~net.ready /\ ~net.entering
     IN net' = IF enter THEN [net EXCEPT !.entering = TRUE, !.owed = @ \cup {"enter"}]
               ELSE IF c.kind = "create" /\ own THEN [net EXCEPT !.owed = @ \cup {"create"}]
               ELSE net
  /\ commands' = Tail(commands)
  /\ UNCHANGED hold /\ NetFrame

LiveRead ==
  /\ net.at = "live" /\ Free /\ commands = <<>> /\ ~CutPending

Expected == net.entering /\ ~net.ready

Welcome ==
  /\ LiveRead /\ "enter" \in net.owed
  /\ IF Expected
     THEN /\ net' = [net EXCEPT !.owed = @ \ {"enter"}, !.entering = FALSE, !.ready = TRUE]
          /\ Emit("gameplayReady") /\ UNCHANGED commands
     ELSE End("disconnected")
  /\ NetFrame

RejectedEnter_StillEntering == [net EXCEPT !.owed = @ \ {"enter"}]
RejectedEnter == [net EXCEPT !.owed = @ \ {"enter"}, !.entering = FALSE]

EnterRejected ==
  /\ LiveRead /\ "enter" \in net.owed
  /\ IF Expected
     THEN net' = RejectedEnter /\ Emit("enterRejected") /\ UNCHANGED commands
     ELSE End("disconnected")
  /\ NetFrame

CreateResult ==
  /\ LiveRead /\ "create" \in net.owed
  /\ net' = [net EXCEPT !.owed = @ \ {"create"}] /\ Emit("createResult")
  /\ UNCHANGED commands /\ NetFrame

(* The server raises its observer epoch when the character changes map. *)
ReadFrame ==
  /\ LiveRead /\ net.ready
  /\ \E o \in net.observer .. net.observer + 1 :
       /\ o <= MaxObserver
       /\ net' = [net EXCEPT !.observer = o]
       /\ hold' = <<[kind |-> "frame", attempt |-> net.attempt, epoch |-> o]>>
  /\ UNCHANGED commands /\ NetFrame

-----------------------------------------------------------------------------
App == RequestConnect \/ RequestDisconnect \/ EnterWorld \/ CreateCharacter \/ WorldReady
Poll == PollEvents \/ PollFrames
Own == TakeCommand \/ StartConnect \/ Discard \/ NoticeCut \/ LiveCommand
Handshake == Connected \/ SessionReady \/ Rejected
Answer == Welcome \/ EnterRejected \/ CreateResult

SessionNext == App \/ Poll \/ Push \/ Own \/ Handshake \/ Lost \/ Answer \/ ReadFrame

SessionSpec == SessionInit /\ [][SessionNext]_SessionVars

(* The application polls once a frame; the network thread does what is     *)
(* its own to do; a handshake ends, by its timeout if not by an answer; an *)
(* owed answer comes, unless the session ends: the control stream is       *)
(* polled before the frames.  Users owe nothing.                           *)
FairSession ==
  /\ SessionSpec
  /\ WF_SessionVars(Poll) /\ WF_SessionVars(Push) /\ WF_SessionVars(Own)
  /\ WF_SessionVars(Handshake \/ (Lost /\ net.at # "live"))
  /\ SF_SessionVars(Answer)

-----------------------------------------------------------------------------
(* Properties *)

HeldEvent == IF hold # <<>> /\ Head(hold).kind = "frame" THEN <<>> ELSE hold
EventsComing == inbox \o events \o HeldEvent
OutcomeComing ==
  \E i \in 1 .. Len(EventsComing) : EventsComing[i].kind \in Terminal /\ EventsComing[i].attempt = app.active

(* A client that shows a connection has one: while its state is            *)
(* Handshaking or Connected, the network thread serves that very attempt,  *)
(* or the event that ends it is on its way.  Every way out of run_session  *)
(* must report its end.                                                    *)
ShownSessionIsServed ==
  app.state \in {"Handshaking", "Connected"} => net.attempt = app.active \/ OutcomeComing

(* The disconnect epoch cuts exactly the attempts the user has given up:   *)
(* the session served, or a Connect still queued, is of the active attempt *)
(* if and only if its stamp is the current epoch.  A stamp taken too early *)
(* kills a fresh attempt, one taken too late lets an abandoned one live.   *)
CutIsExact ==
  /\ net.at # "idle" => (net.attempt = app.active <=> net.epoch = cut)
  /\ \A i \in 1 .. Len(commands) :
       commands[i].kind = "connect" =>
         (commands[i].attempt = app.active <=> commands[i].epoch = cut)

(* No event of the active attempt is ever dropped as illegal: the order in *)
(* which the network thread reports is the one the lifecycle accepts, so   *)
(* is_legal never leaves the client waiting for what it has thrown away.   *)
ActiveEventsAreLegal ==
  LET after == AfterEvents(app, EventsComing)
  IN \A n \in 1 .. Len(EventsComing) :
       EventsComing[n].attempt = after[n - 1].active => Legal(after[n - 1], EventsComing[n])

(* Screen, lifecycle, command queue and network thread agree on the one    *)
(* session that is meant.  The run checks them as one.                     *)
SessionsAgree == SessionTypeOK /\ ShownSessionIsServed /\ CutIsExact /\ ActiveEventsAreLegal

(* What the user asked of the session is answered: an entry or a creation  *)
(* never stays pending for good.  It is answered, refused, or ended with   *)
(* its session, across the command queue and both threads.                 *)
RequestsAreAnswered ==
  /\ (app.handoff = "waiting") ~> (app.handoff # "waiting")
  /\ app.creating ~> ~app.creating

(* An abandoned session ends, in whatever phase the cut finds it and       *)
(* however full the channels are.                                          *)
CutSessionEnds == (net.at # "idle" /\ CutPending) ~> (net.at = "idle" \/ ~CutPending)

Alone == \A i \in 1 .. Len(commands) :
           commands[i].kind = "connect" => net.at = "idle" /\ Len(commands) = 1

(* An attempt to connect comes to an end, provided that each Connect finds *)
(* the network thread idle and nothing else queued.  Without that it may   *)
(* not: an idle thread drains the Connects behind the one it takes and a   *)
(* session discards those it reads, the newest attempt's among them.       *)
ConnectResolves == []Alone => (app.state = "Connecting" ~> app.state # "Connecting")

(* No wait of the client is for ever.  The run checks the three as one.    *)
WaitsEnd == RequestsAreAnswered /\ CutSessionEnds /\ ConnectResolves

(* In the game the replica holds the active session's entities only.       *)
(* Frames carry no attempt, and are applied on every screen.               *)
GameShowsActive == app.screen = "Game" => replica.from \subseteq {app.active}
==============================================================================
