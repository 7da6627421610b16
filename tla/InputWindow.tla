------------------------------ MODULE InputWindow ------------------------------
(***************************************************************************)
(* One player's movement input.  The client samples the keys once per      *)
(* simulation tick, predicts with the sample and sends it as a numbered    *)
(* command (IntentNet, Prediction); the server queues the commands in      *)
(* order, plays one per tick or collapses a late prefix (SessionInput),    *)
(* and each snapshot carries how far it has accounted.  The client keeps   *)
(* what is not accounted in a bounded window and replays it on every       *)
(* snapshot.  A full window is answered by HeldCancel: the server drops    *)
(* what is held and accounts for everything received.                      *)
(*                                                                         *)
(* Numbers restart with the input epoch, which the server bumps when the   *)
(* player is moved.  A command can be lost in three places: the client's   *)
(* channel, the server's rate window, a session whose actions are blocked. *)
(***************************************************************************)
EXTENDS Integers, Sequences, FiniteSets

CONSTANTS
  PendingCap,   \* PREDICTION_PENDING_CAP
  InputCap,     \* INPUT_CAP
  QueueCap,     \* SESSION_QUEUE_CAP
  Allowance,    \* input_messages_per_window
  GateTicks,    \* lock_ticks of a transition
  BackCap,      \* bound: snapshots queued or in flight to the client
  MaxDebt,      \* bound: unmatched_continuation_ticks saturates here
  MaxSeq,       \* bound: commands minted in one epoch
  MaxEpoch      \* bound: input epochs

InputAssumption ==
  /\ {PendingCap, QueueCap, Allowance, BackCap, MaxDebt} \subseteq Nat \ {0}
  /\ {GateTicks, MaxSeq, MaxEpoch} \subseteq Nat
  /\ InputCap \in Nat /\ InputCap > 1
ASSUME InputAssumption

VARIABLES
  client,   \* IntentNet, Prediction, and what the replica last said
  chan,     \* messages to the server: the network thread's channel, which the
            \* stream's flow control backs up, and the stream as its head
  rate,     \* messages counted in the current window of InputRate
  server,   \* SessionInput
  back,     \* snapshots on their way to the client
  lost      \* history: a message of the server's epoch was thrown away

vars == <<client, chan, rate, server, back, lost>>

Epoch == 0 .. MaxEpoch
Sequence == 0 .. MaxSeq
Command == [epoch : Epoch, seq : 1 .. MaxSeq, moving : BOOLEAN]
HeldCancel == [heldCancel |-> TRUE]
Message == Command \cup {HeldCancel}
NoBarrier == [none |-> TRUE]
\* Of a WorldAddress only the epochs that changed its map and its channel.
Place == [map : Epoch, channel : Epoch]
Snapshot == [epoch : Epoch, ack : Sequence, place : Place]

TypeOK ==
  /\ lost \in BOOLEAN
  /\ client \in [epoch : Epoch, seq : Sequence,           \* IntentNet
                 predEpoch : Epoch, lastSent : Sequence,  \* Prediction
                 pending : SUBSET Command,
                 barrier : [epoch : Epoch, target : Sequence] \cup {NoBarrier},
                 replica : [epoch : Epoch, place : Place],
                 place : Place]                           \* last_observer
  /\ IsFiniteSet(client.pending) /\ Cardinality(client.pending) <= PendingCap
  /\ chan \in Seq(Message) /\ Len(chan) <= InputCap
  /\ rate \in 0 .. Allowance
  /\ server \in [epoch : Epoch, received : Sequence, acked : Sequence,
                 queue : Seq(Command), debt : 0 .. MaxDebt, moving : BOOLEAN,
                 gate : 0 .. GateTicks, ui : BOOLEAN, place : Place]
  /\ Len(server.queue) <= QueueCap
  /\ back \in Seq(Snapshot) /\ Len(back) <= BackCap

Start == [map |-> 0, channel |-> 0]

\* A session that has just applied its first snapshot.
Init ==
  /\ lost = FALSE /\ rate = 0
  /\ chan = <<>> /\ back = <<>>
  /\ client = [epoch |-> 0, seq |-> 0, predEpoch |-> 0, lastSent |-> 0,
               pending |-> {}, barrier |-> NoBarrier, place |-> Start,
               replica |-> [epoch |-> 0, place |-> Start]]
  /\ server = [epoch |-> 0, received |-> 0, acked |-> 0, queue |-> <<>>,
               debt |-> 0, moving |-> FALSE, gate |-> 0, ui |-> FALSE, place |-> Start]

(***************************************************************************)
(* The client's render thread.                                             *)
(***************************************************************************)
\* The window is replayed in the order of its numbers, so it is the set of them.
WindowFull(c) == Cardinality(c.pending) = PendingCap
CanEnqueue(q) == InputCap - Len(q) > 1    \* one slot is kept for HeldCancel
Fading(c) == c.place /= c.replica.place

\* Mutant: a new epoch does not restart the numbers.
WithEpoch_KeepsSeq(c) == [c EXCEPT !.epoch = c.replica.epoch]

WithEpoch(c) ==
  IF c.epoch = c.replica.epoch THEN c
  ELSE [c EXCEPT !.epoch = c.replica.epoch, !.seq = 0]

Minted(c, moving) == [epoch |-> c.epoch, seq |-> c.seq + 1, moving |-> moving]

Sent(c, cmd) ==
  [c EXCEPT !.seq = cmd.seq, !.predEpoch = cmd.epoch, !.lastSent = cmd.seq,
            !.pending = @ \cup {cmd}]

\* The command is predicted with and kept even if the channel refuses it.
SendCommand(moving) ==
  LET c == WithEpoch(client)
      cmd == Minted(c, moving)
  IN  /\ ~WindowFull(c) /\ c.seq < MaxSeq
      /\ client' = Sent(c, cmd)
      /\ IF CanEnqueue(chan)
         THEN chan' = Append(chan, cmd) /\ UNCHANGED lost
         ELSE UNCHANGED chan /\ lost' = (lost \/ cmd.epoch = server.epoch)

\* A cancel finds the channel full only if another cancel is in it.
ArmHeldCancel ==
  /\ client.barrier = NoBarrier
  /\ client' = [client EXCEPT !.barrier = [epoch |-> client.predEpoch,
                                           target |-> client.lastSent]]
  /\ chan' = IF Len(chan) < InputCap THEN Append(chan, HeldCancel) ELSE chan
  /\ UNCHANGED lost

ClientTick ==
  /\ \/ WindowFull(client) /\ ArmHeldCancel
     \/ SendCommand(FALSE)
     \/ ~Fading(client) /\ SendCommand(TRUE)
  /\ UNCHANGED <<rate, server, back>>

FocusLoss ==
  /\ IF WindowFull(client) \/ ~CanEnqueue(chan)
     THEN \/ ArmHeldCancel
          \/ client.barrier /= NoBarrier /\ UNCHANGED <<client, chan, lost>>
     ELSE SendCommand(FALSE)
  /\ UNCHANGED <<rate, server, back>>

(***************************************************************************)
(* Prediction::sync_from_replica.                                          *)
(***************************************************************************)
Restarted(c) ==
  [c EXCEPT !.pending = {}, !.barrier = NoBarrier, !.lastSent = 0,
            !.predEpoch = c.replica.epoch]

\* Mutant: an acknowledgement is taken for whatever epoch a command has.
Trimmed_AnyEpoch(p, snap) == {cmd \in p : cmd.seq > snap.ack}

Trimmed(p, snap) ==
  {cmd \in p : cmd.epoch = snap.epoch /\ cmd.seq > snap.ack}

\* Mutant: off by one.
Confirmed_Beyond(b, snap) ==
  b /= NoBarrier /\ b.epoch = snap.epoch /\ snap.ack > b.target

Confirmed(b, snap) ==
  b /= NoBarrier /\ b.epoch = snap.epoch /\ snap.ack >= b.target

\* An acknowledgement of what was never sent restarts the window from it.
Synced(c, snap) ==
  IF snap.ack > c.lastSent /\ c.lastSent > 0
  THEN [Restarted(c) EXCEPT !.lastSent = snap.ack]
  ELSE IF c.predEpoch /= snap.epoch THEN Restarted(c)
  ELSE [c EXCEPT !.pending = Trimmed(@, snap),
                 !.barrier = IF Confirmed(@, snap) THEN NoBarrier ELSE @]

\* The epoch is adopted at once; prediction waits until the local map is the
\* replica's.
ApplySnapshot ==
  LET snap == Head(back)
      c == WithEpoch([client EXCEPT !.replica = [epoch |-> snap.epoch,
                                                 place |-> snap.place]])
  IN  /\ back /= <<>> /\ back' = Tail(back)
      /\ client' = IF Fading(c) THEN c ELSE Synced(c, snap)
      /\ UNCHANGED <<chan, rate, server, lost>>

\* The fade allows the swap: another map is rebuilt with a new prediction, a
\* channel of the same map keeps everything.
SwapBaseline ==
  LET c == [client EXCEPT !.place = client.replica.place]
  IN  /\ Fading(client)
      /\ client' = IF client.place.map /= client.replica.place.map
                   THEN Restarted(c) ELSE c
      /\ UNCHANGED <<chan, rate, server, back, lost>>

(***************************************************************************)
(* SessionInput.                                                           *)
(***************************************************************************)
\* Mutant: the held axis stays.
Idle_KeepsAxis(s) == [s EXCEPT !.queue = <<>>, !.debt = 0]

Idle(s) == [s EXCEPT !.queue = <<>>, !.moving = FALSE, !.debt = 0]

\* Mutant: the queue is flushed and what was in it never accounted.
Cancelled_NoAck(s) == Idle(s)

\* held_cancel, and lock_ui and unlock_ui but for the lock itself.
Cancelled(s) == [Idle(s) EXCEPT !.acked = s.received]

\* Mutant: the queue has no limit.
Accepts_Always(s, cmd) == cmd.epoch = s.epoch /\ cmd.seq = s.received + 1

Accepts(s, cmd) ==
  /\ cmd.epoch = s.epoch /\ cmd.seq = s.received + 1 /\ Len(s.queue) < QueueCap

Queued(s, cmd) == [s EXCEPT !.received = cmd.seq, !.queue = Append(@, cmd)]

\* Only what a later command of the epoch would be missing counts as lost.
Misses(msg) ==
  \/ msg = HeldCancel
  \/ msg /= HeldCancel /\ msg.epoch = server.epoch /\ msg.seq > server.received

Refuse(msg) == UNCHANGED server /\ lost' = (lost \/ Misses(msg))

Handle(msg) ==
  IF msg = HeldCancel THEN server' = Cancelled(server) /\ UNCHANGED lost
  ELSE IF Accepts(server, msg) THEN server' = Queued(server, msg) /\ UNCHANGED lost
  ELSE Refuse(msg)

Receive ==
  /\ chan /= <<>> /\ chan' = Tail(chan)
  /\ rate' = IF rate < Allowance THEN rate + 1 ELSE rate
  /\ \/ Refuse(Head(chan))                          \* player_actions_blocked
     \/ IF rate = Allowance THEN Refuse(Head(chan)) ELSE Handle(Head(chan))
  /\ UNCHANGED <<client, back>>

\* input_rate_window has passed.
NextRateWindow ==
  /\ rate > 0 /\ rate' = 0
  /\ UNCHANGED <<client, chan, server, back, lost>>

\* ack_queued_as_idle
AckedAsIdle(s) ==
  [Idle(s) EXCEPT !.acked = IF s.queue = <<>> THEN @
                            ELSE s.queue[Len(s.queue)].seq]

\* consume_one when nothing is owed, late_collapse of a prefix otherwise.
Played(s) ==
  LET n == IF s.debt = 0 THEN 1
           ELSE IF s.debt < Len(s.queue) THEN s.debt ELSE Len(s.queue)
  IN  [s EXCEPT !.queue = SubSeq(@, n + 1, Len(@)), !.moving = s.queue[n].moving,
                !.acked = s.queue[n].seq, !.debt = IF @ = 0 THEN 0 ELSE @ - n]

Continued(s) == [s EXCEPT !.debt = IF @ < MaxDebt THEN @ + 1 ELSE @]

TakeForTick(s) ==
  IF s.ui THEN AckedAsIdle(s)
  ELSE IF s.gate > 0 THEN [AckedAsIdle(s) EXCEPT !.gate = @ - 1]
  ELSE IF s.queue = <<>> THEN Continued(s)
  ELSE Played(s)

\* Mutant: what was received is reported for what is accounted.
Published_Received(q, s) ==
  IF Len(q) < BackCap
  THEN Append(q, [epoch |-> s.epoch, ack |-> s.received, place |-> s.place]) ELSE q

\* publish_snapshots; a full pipe is skipped.
Published(q, s) ==
  IF Len(q) < BackCap
  THEN Append(q, [epoch |-> s.epoch, ack |-> s.acked, place |-> s.place]) ELSE q

\* A session that is blocked at the time of the tick (an uncertain commit, a lost
\* lease, a deadline that has passed) accounts for its queue as idle.
ServerTick ==
  /\ server' \in {AckedAsIdle(server), TakeForTick(server)}
  /\ back' = Published(back, server')
  /\ UNCHANGED <<client, chan, rate, lost>>

\* Mutant: what was received in the old epoch is remembered.
Bumped_KeepsReceived(s) ==
  [Idle(s) EXCEPT !.epoch = @ + 1, !.acked = 0, !.gate = 0, !.ui = FALSE]

Bumped(s) ==
  [Idle(s) EXCEPT !.epoch = @ + 1, !.received = 0, !.acked = 0, !.gate = 0, !.ui = FALSE]

Respawn ==
  /\ server.epoch < MaxEpoch
  /\ server' = Bumped(server) /\ lost' = FALSE
  /\ UNCHANGED <<client, chan, rate, back>>

\* finalize_map_transition and handle_dev_set_channel: snapshots of the old
\* baseline that are still in the pipe are purged, those on the stream arrive.
Relocate ==
  /\ server.epoch < MaxEpoch
  /\ \E part \in {"map", "channel"}, sent \in 0 .. Len(back) :
       /\ server' = [Bumped(server) EXCEPT !.gate = GateTicks,
                                           !.place[part] = server.epoch + 1]
       /\ back' = Published(SubSeq(back, 1, sent), server')
  /\ lost' = FALSE
  /\ UNCHANGED <<client, chan, rate>>

\* A dialogue opens or is cleared.
SetUiLock ==
  /\ server' = [Cancelled(server) EXCEPT !.ui = ~server.ui]
  /\ UNCHANGED <<client, chan, rate, back, lost>>

Next ==
  \/ ClientTick \/ FocusLoss \/ ApplySnapshot \/ SwapBaseline
  \/ Receive \/ NextRateWindow
  \/ ServerTick \/ Respawn \/ Relocate \/ SetUiLock

Spec == Init /\ [][Next]_vars

\* The render loop, the two network tasks and the simulation loop run on.
\* Players, dialogues and moves are not scheduled, and a session may stay blocked.
FairSpec ==
  /\ Spec
  /\ WF_vars(ClientTick) /\ WF_vars(ApplySnapshot) /\ WF_vars(SwapBaseline)
  /\ WF_vars(Receive) /\ WF_vars(NextRateWindow) /\ WF_vars(ServerTick)

(***************************************************************************)
(* Properties.                                                             *)
(***************************************************************************)
Coming == {i \in 1 .. Len(chan) : chan[i] /= HeldCancel /\ chan[i].epoch = server.epoch}

\* As long as nothing was thrown away, the commands of the session's epoch on
\* their way to it continue exactly what it has received, in order and up to
\* the one the client minted last: no epoch change, cancel, dialogue lock or
\* gate makes a session refuse a command for a gap.
StreamIsWhole ==
  ~lost =>
    /\ \A i, k \in Coming : i < k => chan[i].seq < chan[k].seq
    /\ {chan[i].seq : i \in Coming} =
         server.received + 1 ..
           (IF client.epoch = server.epoch THEN client.seq ELSE server.received)

Consecutive(cmds, first) == \A i \in 1 .. Len(cmds) : cmds[i].seq = first + i - 1

\* What the server has received and not accounted for is what is queued: a
\* command is never dropped from the queue without being acknowledged, and an
\* acknowledged one is never played.
QueueFollowsAck ==
  /\ Consecutive(server.queue, server.acked + 1)
  /\ server.received = server.acked + Len(server.queue)

\* Movement the server carries on from tick to tick was asked for in this epoch
\* and by a command it has accounted for; none survives a move of the player, a
\* dialogue lock or a transition gate.
HeldMovementIsCurrent ==
  server.moving => server.acked > 0 /\ server.gate = 0 /\ ~server.ui

\* Whatever the server may still play of the client's epoch is in the window
\* the client replays, so prediction and authority agree on the commands that
\* are open.  While the client fades to another map its window is about the
\* old one, and what it sends then is idle.
OpenCommandsAreReplayed ==
  LET open == {server.queue[i] : i \in 1 .. Len(server.queue)} \cup {chan[i] : i \in Coming}
  IN  client.predEpoch = server.epoch =>
        \A cmd \in open : cmd.moving => cmd \in client.pending

\* Client, stream and session account for every command alike.  The run checks
\* them as one.
InputIsSound ==
  /\ TypeOK /\ StreamIsWhole /\ QueueFollowsAck /\ HeldMovementIsCurrent
  /\ OpenCommandsAreReplayed

\* A snapshot that reaches prediction leaves commands of one epoch in the window:
\* none of an earlier epoch is replayed on the state of the new one, and none
\* is left behind to fill the window.
WindowIsOfOneEpoch ==
  [][ApplySnapshot /\ ~Fading(client') =>
       \A cmd \in client'.pending : cmd.epoch = client'.replica.epoch]_vars

\* If no message is thrown away, a HeldCancel is confirmed, unless the epoch
\* it was sent in ends first.
BarrierIsLifted ==
  (client.barrier /= NoBarrier) ~>
    (client.barrier = NoBarrier \/ lost \/ client.barrier.epoch < server.epoch)

\* The claim of ADR-0031: a full window is not a silent stall, the client can
\* go on sending.
WindowReopens == WindowFull(client) ~> ~WindowFull(client)
================================================================================
