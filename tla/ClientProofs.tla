--------------------------- MODULE ClientProofs ---------------------------
(***************************************************************************)
(* Proofs about the two halves of the client.                              *)
(*                                                                         *)
(* InputWindow, for every size of the window, of the channel and of the    *)
(* queue, every allowance of messages, every length of a transition gate,  *)
(* and any number of epochs and of commands in each.  Its invariant is     *)
(* written over a client c, a channel q, a session s, snapshots b and the  *)
(* history l, so that the lemmas can speak of the halves of a step.        *)
(*                                                                         *)
(* ClientSession, for every capacity of its three queues and any number of *)
(* attempts, of disconnects and of observer epochs.                        *)
(* Its invariant is written over the application a, the events es still to *)
(* be applied, the network thread n and the commands q.                    *)
(***************************************************************************)
EXTENDS InputWindow, ClientSession, FiniteSetTheorems, WellFoundedInduction, TLAPS

ClientState ==
  [epoch : Epoch, seq : Sequence, predEpoch : Epoch, lastSent : Sequence,
   pending : SUBSET Command,
   barrier : [epoch : Epoch, target : Sequence] \cup {NoBarrier},
   replica : [epoch : Epoch, place : Place], place : Place]

ServerState ==
  [epoch : Epoch, received : Sequence, acked : Sequence, queue : Seq(Command),
   debt : 0 .. MaxDebt, moving : BOOLEAN, gate : 0 .. GateTicks, ui : BOOLEAN,
   place : Place]

ClientTyped(c) ==
  c \in ClientState /\ IsFiniteSet(c.pending) /\ Cardinality(c.pending) <= PendingCap

ServerTyped(s) == s \in ServerState /\ Len(s.queue) <= QueueCap

Typed(c, q, s, b) ==
  /\ ClientTyped(c) /\ ServerTyped(s)
  /\ q \in Seq(Message) /\ Len(q) <= InputCap
  /\ b \in Seq(Snapshot) /\ Len(b) <= BackCap

(* Epochs reach the client in order: none is ahead of the session's.       *)
Chained(c, s, b) ==
  /\ c.epoch = c.replica.epoch /\ c.predEpoch <= c.epoch /\ c.epoch <= s.epoch
  /\ \A i \in 1 .. Len(b) : c.epoch <= b[i].epoch /\ b[i].epoch <= s.epoch
  /\ \A i, k \in 1 .. Len(b) : i < k => b[i].epoch <= b[k].epoch

(* The place does not change within an epoch.                              *)
Placed(c, s, b) ==
  /\ c.epoch = s.epoch => c.replica.place = s.place
  /\ \A i \in 1 .. Len(b) :
       /\ b[i].epoch = s.epoch => b[i].place = s.place
       /\ b[i].epoch = c.epoch => b[i].place = c.replica.place
  /\ \A i, k \in 1 .. Len(b) : b[i].epoch = b[k].epoch => b[i].place = b[k].place

(* The commands on their way are numbered upwards in each epoch, beyond    *)
(* what the session has received and up to what the client has minted.     *)
Numbered(c, q, s) ==
  /\ \A i \in 1 .. Len(q) : q[i] /= HeldCancel =>
       /\ q[i].epoch <= c.epoch
       /\ q[i].epoch = c.epoch => q[i].seq <= c.seq
       /\ q[i].epoch = s.epoch => q[i].seq > s.received
  /\ \A i, k \in 1 .. Len(q) :
       i < k /\ q[i] /= HeldCancel /\ q[k] /= HeldCancel /\ q[i].epoch = q[k].epoch =>
         q[i].seq < q[k].seq
  /\ c.epoch < s.epoch => s.received = 0
  /\ c.epoch = s.epoch => s.received <= c.seq
  /\ c.predEpoch < c.epoch => c.seq = 0
  /\ c.predEpoch = c.epoch => c.lastSent \in {0, c.seq}

(* Nothing is acknowledged that the session has not accounted for, or that *)
(* the client has not minted.                                              *)
Acknowledged(c, s, b) ==
  \A i \in 1 .. Len(b) :
    /\ b[i].epoch = s.epoch => b[i].ack <= s.acked
    /\ b[i].epoch = c.epoch => b[i].ack <= c.seq
    /\ b[i].epoch > c.epoch => b[i].ack = 0

Accounted(s) ==
  /\ \A i \in 1 .. Len(s.queue) : s.queue[i].epoch = s.epoch /\ s.queue[i].seq = s.acked + i
  /\ s.received = s.acked + Len(s.queue)
  /\ s.moving => s.acked > 0 /\ s.gate = 0 /\ ~s.ui

(* Every number between what is received and what is minted is on its way. *)
Whole(c, q, s, l) ==
  ~l /\ c.epoch = s.epoch =>
    \A n \in Nat : s.received < n /\ n <= c.seq =>
      \E i \in 1 .. Len(q) : q[i] /= HeldCancel /\ q[i].epoch = s.epoch /\ q[i].seq = n

(* Movement that is open is in the window, and was predicted on the map    *)
(* and channel the replica is at.                                          *)
Replayed(c, q, s) ==
  c.epoch = s.epoch =>
    /\ \A i \in 1 .. Len(s.queue) :
         s.queue[i].moving => s.queue[i] \in c.pending /\ c.place = c.replica.place
    /\ \A i \in 1 .. Len(q) :
         q[i] /= HeldCancel /\ q[i].epoch = s.epoch /\ q[i].moving =>
           q[i] \in c.pending /\ c.place = c.replica.place

Linked(c, q, s, b, l) ==
  /\ Typed(c, q, s, b) /\ Chained(c, s, b) /\ Placed(c, s, b) /\ Numbered(c, q, s)
  /\ Acknowledged(c, s, b) /\ Accounted(s) /\ Whole(c, q, s, l) /\ Replayed(c, q, s)

InputInv ==
  /\ Linked(client, chan, server, back, lost)
  /\ rate \in 0 .. Allowance /\ lost \in BOOLEAN

-----------------------------------------------------------------------------
(***************************************************************************)
(* Numbers                                                                 *)
(***************************************************************************)
LEMMA Bounds ==
  /\ PendingCap \in Nat /\ QueueCap \in Nat /\ Allowance \in Nat /\ BackCap \in Nat
  /\ PendingCap > 0 /\ QueueCap > 0 /\ Allowance > 0 /\ BackCap > 0
  /\ MaxDebt \in Nat /\ GateTicks \in Nat /\ MaxSeq \in Nat /\ MaxEpoch \in Nat
  /\ InputCap \in Nat /\ InputCap > 1
BY InputAssumption DEF InputAssumption

LEMMA MessageParts ==
  ASSUME NEW m \in Message, m /= HeldCancel
  PROVE  /\ m \in Command /\ m.epoch \in Epoch /\ m.epoch \in Nat
         /\ m.seq \in 1 .. MaxSeq /\ m.seq \in Nat /\ m.seq > 0 /\ m.moving \in BOOLEAN
BY Bounds DEF Message, Command, Epoch

LEMMA ClientNumbers ==
  ASSUME NEW c \in ClientState
  PROVE  /\ c.epoch \in Nat /\ c.seq \in Nat /\ c.predEpoch \in Nat /\ c.lastSent \in Nat
         /\ c.replica.epoch \in Nat /\ c.epoch \in Epoch /\ c.seq \in Sequence
         /\ c.predEpoch \in Epoch /\ c.lastSent \in Sequence /\ c.replica.epoch \in Epoch
         /\ c.replica.place \in Place /\ c.place \in Place /\ c.pending \subseteq Command
BY Bounds DEF ClientState, Epoch, Sequence

LEMMA ServerNumbers ==
  ASSUME NEW s \in ServerState
  PROVE  /\ s.epoch \in Nat /\ s.received \in Nat /\ s.acked \in Nat /\ s.debt \in Nat
         /\ s.gate \in Nat /\ s.epoch \in Epoch /\ s.received \in Sequence
         /\ s.acked \in Sequence /\ s.queue \in Seq(Command) /\ s.place \in Place
BY Bounds DEF ServerState, Epoch, Sequence

LEMMA SnapshotParts ==
  ASSUME NEW b \in Seq(Snapshot), NEW i \in 1 .. Len(b)
  PROVE  /\ b[i] \in Snapshot /\ b[i].epoch \in Nat /\ b[i].ack \in Nat
         /\ b[i].epoch \in Epoch /\ b[i].ack \in Sequence /\ b[i].place \in Place
<1>1. b[i] \in Snapshot
  OBVIOUS
<1>2. \A x \in Snapshot : /\ x.epoch \in Nat /\ x.ack \in Nat
                          /\ x.epoch \in Epoch /\ x.ack \in Sequence /\ x.place \in Place
  BY Bounds DEF Snapshot, Epoch, Sequence
<1> QED
  BY <1>1, <1>2

(* What has been accounted for has been received.                          *)
LEMMA AckedIsReceived ==
  ASSUME NEW s \in ServerState, Accounted(s)
  PROVE  /\ Len(s.queue) \in Nat /\ s.acked <= s.received
         /\ s.received = 0 => s.acked = 0 /\ Len(s.queue) = 0
<1>1. Len(s.queue) \in Nat /\ s.acked \in Nat /\ s.received = s.acked + Len(s.queue)
  BY ServerNumbers DEF Accounted
<1> QED
  BY <1>1

(* The invariant is what the run checks, and more.                         *)
LEMMA InvIsSound == InputInv => InputIsSound
<1> SUFFICES ASSUME InputInv PROVE InputIsSound
  OBVIOUS
<1>1. Typed(client, chan, server, back) /\ rate \in 0 .. Allowance /\ lost \in BOOLEAN
  BY DEF InputInv, Linked
<1>2. TypeOK
  BY <1>1 DEF Typed, ClientTyped, ServerTyped, ClientState, ServerState, TypeOK
<1>3. /\ client.epoch \in Nat /\ server.epoch \in Nat /\ client.predEpoch \in Nat
      /\ client.seq \in Nat /\ server.received \in Nat
      /\ \A i \in 1 .. Len(chan) : chan[i] /= HeldCancel =>
           chan[i].epoch \in Nat /\ chan[i].seq \in Nat
  <2>1. client \in ClientState /\ server \in ServerState /\ chan \in Seq(Message)
    BY <1>1 DEF Typed, ClientTyped, ServerTyped
  <2>2. \A i \in 1 .. Len(chan) : chan[i] \in Message
    BY <2>1
  <2> QED
    BY <2>1, <2>2, ClientNumbers, ServerNumbers, MessageParts
<1>4. StreamIsWhole
  <2> SUFFICES ASSUME ~lost
               PROVE  /\ \A i, k \in Coming : i < k => chan[i].seq < chan[k].seq
                      /\ {chan[i].seq : i \in Coming} =
                           server.received + 1 ..
                             (IF client.epoch = server.epoch THEN client.seq ELSE server.received)
    BY DEF StreamIsWhole
  <2>1. \A i, k \in Coming : i < k => chan[i].seq < chan[k].seq
    BY DEF InputInv, Linked, Numbered, Coming
  <2>2. CASE client.epoch = server.epoch
    <3>1. \A i \in Coming : chan[i].seq > server.received /\ chan[i].seq <= client.seq
      BY <2>2 DEF InputInv, Linked, Numbered, Coming
    <3>2. \A n \in server.received + 1 .. client.seq : \E i \in Coming : chan[i].seq = n
      <4> TAKE n \in server.received + 1 .. client.seq
      <4>1. n \in Nat /\ server.received < n /\ n <= client.seq
        BY <1>3
      <4> QED
        BY <2>2, <4>1 DEF InputInv, Linked, Whole, Coming
    <3>3. \A i \in Coming : chan[i].seq \in server.received + 1 .. client.seq
      BY <1>3, <3>1 DEF Coming
    <3> QED
      BY <2>1, <2>2, <3>2, <3>3
  <2>3. CASE client.epoch /= server.epoch
    <3>1. client.epoch < server.epoch
      BY <1>3, <2>3 DEF InputInv, Linked, Chained
    <3>2. Coming = {}
      BY <1>3, <3>1 DEF InputInv, Linked, Numbered, Coming
    <3>3. server.received + 1 .. server.received = {}
      BY <1>3
    <3> QED
      BY <2>1, <2>3, <3>2, <3>3
  <2> QED
    BY <2>2, <2>3
<1>5. QueueFollowsAck
  <2>1. \A i \in 1 .. Len(server.queue) : server.queue[i].seq = server.acked + i
    BY DEF InputInv, Linked, Accounted
  <2>2. server.acked \in Nat
    BY <1>1, InputAssumption
       DEF Typed, ServerTyped, ServerState, Sequence, InputAssumption
  <2>3. \A i \in 1 .. Len(server.queue) : server.acked + i = server.acked + 1 + i - 1
    BY <2>2
  <2> QED
    BY <2>1, <2>3 DEF InputInv, Linked, Accounted, QueueFollowsAck, Consecutive
<1>6. HeldMovementIsCurrent
  BY DEF InputInv, Linked, Accounted, HeldMovementIsCurrent
<1>7. OpenCommandsAreReplayed
  <2> SUFFICES ASSUME client.predEpoch = server.epoch,
                      NEW cmd \in {server.queue[i] : i \in 1 .. Len(server.queue)}
                                  \cup {chan[i] : i \in Coming},
                      cmd.moving
               PROVE  cmd \in client.pending
    BY DEF OpenCommandsAreReplayed
  <2>1. client.epoch = server.epoch
    BY <1>3 DEF InputInv, Linked, Chained
  <2> QED
    BY <2>1 DEF InputInv, Linked, Replayed, Coming
<1> QED
  BY <1>2, <1>4, <1>5, <1>6, <1>7 DEF InputIsSound

-----------------------------------------------------------------------------
(***************************************************************************)
(* The client sends                                                        *)
(***************************************************************************)
LEMMA SentTyped ==
  ASSUME NEW c, ClientTyped(c), ~WindowFull(c), c.seq < MaxSeq, NEW moving \in BOOLEAN
  PROVE  ClientTyped(Sent(c, Minted(c, moving))) /\ Minted(c, moving) \in Command
<1> DEFINE n == c.seq + 1
           cmd == [epoch |-> c.epoch, seq |-> n, moving |-> moving]
           p == c.pending \cup {cmd}
           c1 == [c EXCEPT !.seq = n, !.predEpoch = c.epoch]
           c2 == [c1 EXCEPT !.lastSent = n, !.pending = p]
<1>0. c \in ClientState /\ IsFiniteSet(c.pending) /\ Cardinality(c.pending) <= PendingCap
  BY DEF ClientTyped
<1>1. n \in 1 .. MaxSeq /\ n \in Sequence /\ c.epoch \in Epoch
  BY <1>0, ClientNumbers, Bounds DEF Sequence
<1>2. cmd \in Command /\ Minted(c, moving) = cmd
  BY <1>1 DEF Command, Minted
<1>3. Sent(c, cmd) = c2
  BY <1>0 DEF Sent, ClientState
<1>4. p \in SUBSET Command
  BY <1>0, <1>2, ClientNumbers
<1>5. IsFiniteSet(p) /\ Cardinality(p) <= PendingCap
  <2>1. Cardinality(c.pending) \in Nat /\ Cardinality(c.pending) < PendingCap
    BY <1>0, FS_CardinalityType, Bounds DEF WindowFull
  <2>2. IsFiniteSet(p) /\ Cardinality(p) \in {Cardinality(c.pending), Cardinality(c.pending) + 1}
    BY <1>0, <2>1, FS_AddElement
  <2> QED
    BY <2>1, <2>2, Bounds
<1> HIDE DEF n, cmd, p
<1>6. c1 \in ClientState
  BY <1>0, <1>1 DEF ClientState
<1> HIDE DEF c1
<1>7. c2 \in ClientState /\ c2.pending = p
  BY <1>4, <1>1, <1>6 DEF ClientState
<1> HIDE DEF c2
<1> QED
  BY <1>2, <1>3, <1>5, <1>7 DEF ClientTyped

LEMMA SentFields ==
  ASSUME NEW c \in ClientState, NEW cmd
  PROVE  LET t == Sent(c, cmd) IN
         /\ t.seq = cmd.seq /\ t.predEpoch = cmd.epoch /\ t.lastSent = cmd.seq
         /\ t.pending = c.pending \cup {cmd}
         /\ t.epoch = c.epoch /\ t.replica = c.replica /\ t.place = c.place
         /\ t.barrier = c.barrier
BY DEF Sent, ClientState

LEMMA AppendParts ==
  ASSUME NEW S, NEW q \in Seq(S), NEW m \in S
  PROVE  /\ Append(q, m) \in Seq(S) /\ Len(Append(q, m)) = Len(q) + 1 /\ Len(q) \in Nat
         /\ \A i \in 1 .. Len(q) : Append(q, m)[i] = q[i]
         /\ Append(q, m)[Len(q) + 1] = m
OBVIOUS

(* A command that the channel takes.                                       *)
LEMMA SendQueued ==
  ASSUME NEW c, NEW q, NEW s, NEW b, NEW l, Linked(c, q, s, b, l),
         ~WindowFull(c), c.seq < MaxSeq, NEW moving \in BOOLEAN, moving => ~Fading(c),
         CanEnqueue(q)
  PROVE  Linked(Sent(c, Minted(c, moving)), Append(q, Minted(c, moving)), s, b, l)
<1> DEFINE cmd == Minted(c, moving)
           d == Sent(c, cmd)
           r == Append(q, cmd)
<1> SUFFICES Linked(d, r, s, b, l)
  OBVIOUS
<1>1. c \in ClientState /\ s \in ServerState /\ q \in Seq(Message) /\ b \in Seq(Snapshot)
  BY DEF Linked, Typed, ClientTyped, ServerTyped
<1>2. ClientTyped(d) /\ cmd \in Command
  BY SentTyped DEF Linked, Typed
<1>3. cmd.epoch = c.epoch /\ cmd.seq = c.seq + 1 /\ cmd.moving = moving
  BY DEF Minted
<1>4. cmd \in Message /\ cmd /= HeldCancel
  <2>1. "epoch" \in DOMAIN cmd /\ DOMAIN HeldCancel = {"heldCancel"}
    BY DEF Minted, HeldCancel
  <2> QED
    BY <1>2, <2>1 DEF Message
<1> HIDE DEF cmd
<1>5. /\ d.seq = c.seq + 1 /\ d.predEpoch = c.epoch /\ d.lastSent = c.seq + 1
      /\ d.pending = c.pending \cup {cmd}
      /\ d.epoch = c.epoch /\ d.replica = c.replica /\ d.place = c.place
  BY <1>1, <1>3, SentFields
<1>6. /\ r \in Seq(Message) /\ Len(r) = Len(q) + 1 /\ Len(q) \in Nat
      /\ \A i \in 1 .. Len(q) : r[i] = q[i]
      /\ r[Len(q) + 1] = cmd
  BY <1>1, <1>4, AppendParts
<1>7. \A i \in 1 .. Len(r) : i \in 1 .. Len(q) \/ i = Len(q) + 1
  BY <1>6
<1> HIDE DEF d, r
<1>8. c.seq \in Nat /\ c.epoch \in Nat /\ s.epoch \in Nat /\ s.received \in Nat
  BY <1>1, ClientNumbers, ServerNumbers
<1>9. Typed(d, r, s, b)
  <2>1. Len(r) <= InputCap
    BY <1>6, Bounds DEF CanEnqueue
  <2> QED
    BY <1>2, <1>6, <2>1 DEF Linked, Typed
<1>10. Chained(d, s, b)
  BY <1>5, <1>8 DEF Linked, Chained
<1>11. Placed(d, s, b)
  BY <1>5 DEF Linked, Placed
<1>12. Numbered(d, r, s)
  <2>1. ASSUME NEW i \in 1 .. Len(q), q[i] /= HeldCancel
        PROVE  /\ r[i].epoch <= d.epoch
               /\ r[i].epoch = d.epoch => r[i].seq <= d.seq /\ r[i].seq < cmd.seq
               /\ r[i].epoch = s.epoch => r[i].seq > s.received
    <3>1. q[i] \in Message
      BY <1>1
    <3>2. q[i].seq \in Nat
      BY <2>1, <3>1, MessageParts
    <3>3. /\ q[i].epoch <= c.epoch
          /\ q[i].epoch = c.epoch => q[i].seq <= c.seq
          /\ q[i].epoch = s.epoch => q[i].seq > s.received
      BY <2>1 DEF Linked, Numbered
    <3> QED
      BY <1>3, <1>5, <1>6, <1>8, <3>2, <3>3
  <2>2. /\ cmd.epoch <= d.epoch /\ cmd.seq <= d.seq
        /\ cmd.epoch = s.epoch => cmd.seq > s.received
    <3>1. c.epoch = s.epoch => s.received <= c.seq
      BY DEF Linked, Numbered
    <3> QED
      BY <1>3, <1>5, <1>8, <3>1
  <2>3. \A i \in 1 .. Len(r) : r[i] /= HeldCancel =>
          /\ r[i].epoch <= d.epoch
          /\ r[i].epoch = d.epoch => r[i].seq <= d.seq
          /\ r[i].epoch = s.epoch => r[i].seq > s.received
    BY <1>6, <1>7, <2>1, <2>2
  <2>4. \A i, k \in 1 .. Len(r) :
          i < k /\ r[i] /= HeldCancel /\ r[k] /= HeldCancel /\ r[i].epoch = r[k].epoch =>
            r[i].seq < r[k].seq
    <3> SUFFICES ASSUME NEW i \in 1 .. Len(r), NEW k \in 1 .. Len(r), i < k,
                        r[i] /= HeldCancel, r[k] /= HeldCancel, r[i].epoch = r[k].epoch
                 PROVE  r[i].seq < r[k].seq
      OBVIOUS
    <3>1. i \in 1 .. Len(q) /\ r[i] = q[i]
      BY <1>6
    <3>2. CASE k \in 1 .. Len(q)
      <4>1. r[k] = q[k]
        BY <1>6, <3>2
      <4> QED
        BY <3>1, <3>2, <4>1 DEF Linked, Numbered
    <3>3. CASE k = Len(q) + 1
      <4>1. r[k] = cmd /\ r[i].epoch = d.epoch
        BY <1>3, <1>5, <1>6, <3>3
      <4> QED
        BY <2>1, <3>1, <4>1
    <3> QED
      BY <1>7, <3>2, <3>3
  <2>5. /\ d.epoch < s.epoch => s.received = 0
        /\ d.epoch = s.epoch => s.received <= d.seq
    BY <1>5, <1>8 DEF Linked, Numbered
  <2>6. d.predEpoch = d.epoch /\ d.lastSent = d.seq /\ d.epoch \in Nat
    BY <1>5, <1>8
  <2> QED
    BY <2>3, <2>4, <2>5, <2>6 DEF Numbered
<1>13. Acknowledged(d, s, b)
  <2>1. ASSUME NEW i \in 1 .. Len(b), b[i].epoch = d.epoch
        PROVE  b[i].ack <= d.seq
    <3>1. b[i].ack \in Nat /\ b[i].ack <= c.seq
      BY <1>1, <1>5, <2>1, SnapshotParts DEF Linked, Acknowledged
    <3> QED
      BY <1>5, <1>8, <3>1
  <2> QED
    BY <1>5, <2>1 DEF Linked, Acknowledged
<1>14. Whole(d, r, s, l)
  <2> SUFFICES ASSUME ~l, d.epoch = s.epoch, NEW n \in Nat, s.received < n, n <= d.seq
               PROVE  \E i \in 1 .. Len(r) : r[i] /= HeldCancel /\ r[i].epoch = s.epoch
                                             /\ r[i].seq = n
    BY DEF Whole
  <2>1. CASE n <= c.seq
    <3>1. PICK i \in 1 .. Len(q) : q[i] /= HeldCancel /\ q[i].epoch = s.epoch /\ q[i].seq = n
      BY <1>5, <2>1 DEF Linked, Whole
    <3> QED
      BY <1>6, <3>1
  <2>2. CASE n = c.seq + 1
    BY <1>3, <1>4, <1>5, <1>6, <2>2
  <2> QED
    BY <1>5, <1>8, <2>1, <2>2
<1>15. Replayed(d, r, s)
  <2> SUFFICES ASSUME d.epoch = s.epoch
               PROVE  /\ \A i \in 1 .. Len(s.queue) :
                           s.queue[i].moving =>
                             s.queue[i] \in d.pending /\ d.place = d.replica.place
                      /\ \A i \in 1 .. Len(r) :
                           r[i] /= HeldCancel /\ r[i].epoch = s.epoch /\ r[i].moving =>
                             r[i] \in d.pending /\ d.place = d.replica.place
    BY DEF Replayed
  <2>1. \A i \in 1 .. Len(s.queue) :
          s.queue[i].moving => s.queue[i] \in d.pending /\ d.place = d.replica.place
    BY <1>5 DEF Linked, Replayed
  <2>2. cmd.moving => cmd \in d.pending /\ d.place = d.replica.place
    BY <1>3, <1>5 DEF Fading
  <2>3. \A i \in 1 .. Len(q) :
          q[i] /= HeldCancel /\ q[i].epoch = s.epoch /\ q[i].moving =>
            q[i] \in d.pending /\ d.place = d.replica.place
    BY <1>5 DEF Linked, Replayed
  <2> QED
    BY <1>6, <1>7, <2>1, <2>2, <2>3
<1> QED
  BY <1>9, <1>10, <1>11, <1>12, <1>13, <1>14, <1>15 DEF Linked

(* One that it refuses: a command of the session's epoch is lost.          *)
LEMMA SendRefused ==
  ASSUME NEW c, NEW q, NEW s, NEW b, NEW l, NEW lost2, Linked(c, q, s, b, l),
         ~WindowFull(c), c.seq < MaxSeq, NEW moving \in BOOLEAN,
         c.epoch = s.epoch => lost2
  PROVE  Linked(Sent(c, Minted(c, moving)), q, s, b, lost2)
<1> DEFINE cmd == Minted(c, moving)
           d == Sent(c, cmd)
<1> SUFFICES Linked(d, q, s, b, lost2)
  OBVIOUS
<1>1. c \in ClientState /\ s \in ServerState /\ q \in Seq(Message) /\ b \in Seq(Snapshot)
  BY DEF Linked, Typed, ClientTyped, ServerTyped
<1>2. ClientTyped(d) /\ cmd.epoch = c.epoch /\ cmd.seq = c.seq + 1
  BY SentTyped DEF Linked, Typed, Minted
<1> HIDE DEF cmd
<1>3. /\ d.seq = c.seq + 1 /\ d.predEpoch = c.epoch /\ d.lastSent = c.seq + 1
      /\ d.pending = c.pending \cup {cmd}
      /\ d.epoch = c.epoch /\ d.replica = c.replica /\ d.place = c.place
  BY <1>1, <1>2, SentFields
<1> HIDE DEF d
<1>4. c.seq \in Nat /\ c.epoch \in Nat /\ s.epoch \in Nat /\ s.received \in Nat
  BY <1>1, ClientNumbers, ServerNumbers
<1>5. Typed(d, q, s, b)
  BY <1>2 DEF Linked, Typed
<1>6. Chained(d, s, b)
  BY <1>3, <1>4 DEF Linked, Chained
<1>7. Placed(d, s, b)
  BY <1>3 DEF Linked, Placed
<1>8. Numbered(d, q, s)
  <2>1. ASSUME NEW i \in 1 .. Len(q), q[i] /= HeldCancel, q[i].epoch = d.epoch
        PROVE  q[i].seq <= d.seq
    <3>1. q[i] \in Message
      BY <1>1
    <3>2. q[i].seq \in Nat /\ q[i].seq <= c.seq
      BY <1>3, <2>1, <3>1, MessageParts DEF Linked, Numbered
    <3> QED
      BY <1>3, <1>4, <3>2
  <2>2. /\ d.epoch < s.epoch => s.received = 0
        /\ d.epoch = s.epoch => s.received <= d.seq
    BY <1>3, <1>4 DEF Linked, Numbered
  <2>3. d.predEpoch = d.epoch /\ d.lastSent = d.seq /\ d.epoch \in Nat
    BY <1>3, <1>4
  <2> QED
    BY <1>3, <2>1, <2>2, <2>3 DEF Linked, Numbered
<1>9. Acknowledged(d, s, b)
  <2>1. ASSUME NEW i \in 1 .. Len(b), b[i].epoch = d.epoch
        PROVE  b[i].ack <= d.seq
    <3>1. b[i].ack \in Nat /\ b[i].ack <= c.seq
      BY <1>1, <1>3, <2>1, SnapshotParts DEF Linked, Acknowledged
    <3> QED
      BY <1>3, <1>4, <3>1
  <2> QED
    BY <1>3, <2>1 DEF Linked, Acknowledged
<1>10. Whole(d, q, s, lost2)
  BY <1>3 DEF Whole
<1>11. Replayed(d, q, s)
  BY <1>3 DEF Linked, Replayed
<1> QED
  BY <1>5, <1>6, <1>7, <1>8, <1>9, <1>10, <1>11 DEF Linked

(* The barrier is no part of the invariant but for its type.               *)
LEMMA BarrierKept ==
  ASSUME NEW c, NEW q, NEW s, NEW b, NEW l, Linked(c, q, s, b, l),
         NEW x \in [epoch : Epoch, target : Sequence] \cup {NoBarrier}
  PROVE  Linked([c EXCEPT !.barrier = x], q, s, b, l)
<1> DEFINE d == [c EXCEPT !.barrier = x]
<1> SUFFICES Linked(d, q, s, b, l)
  OBVIOUS
<1>1. c \in ClientState
  BY DEF Linked, Typed, ClientTyped
<1>2. /\ d \in ClientState
      /\ d.epoch = c.epoch /\ d.seq = c.seq /\ d.predEpoch = c.predEpoch
      /\ d.lastSent = c.lastSent /\ d.pending = c.pending /\ d.replica = c.replica
      /\ d.place = c.place
  BY <1>1 DEF ClientState
<1> HIDE DEF d
<1>3. Typed(d, q, s, b)
  BY <1>2 DEF Linked, Typed, ClientTyped
<1>4. Chained(d, s, b) /\ Placed(d, s, b)
  BY <1>2 DEF Linked, Chained, Placed
<1>5. Numbered(d, q, s)
  BY <1>2 DEF Linked, Numbered
<1>6. Acknowledged(d, s, b)
  BY <1>2 DEF Linked, Acknowledged
<1>7. Whole(d, q, s, l) /\ Replayed(d, q, s)
  BY <1>2 DEF Linked, Whole, Replayed
<1> QED
  BY <1>3, <1>4, <1>5, <1>6, <1>7 DEF Linked

LEMMA CancelQueued ==
  ASSUME NEW c, NEW q, NEW s, NEW b, NEW l, Linked(c, q, s, b, l), Len(q) < InputCap
  PROVE  Linked(c, Append(q, HeldCancel), s, b, l)
<1> DEFINE r == Append(q, HeldCancel)
<1> SUFFICES Linked(c, r, s, b, l)
  OBVIOUS
<1>1. q \in Seq(Message) /\ HeldCancel \in Message
  BY DEF Linked, Typed, Message
<1>2. /\ r \in Seq(Message) /\ Len(r) = Len(q) + 1 /\ Len(q) \in Nat
      /\ \A i \in 1 .. Len(q) : r[i] = q[i]
      /\ r[Len(q) + 1] = HeldCancel
  BY <1>1, AppendParts
<1> HIDE DEF r
<1>3. \A i \in 1 .. Len(r) : r[i] /= HeldCancel => i \in 1 .. Len(q) /\ r[i] = q[i]
  BY <1>2
<1>4. Len(r) <= InputCap
  BY <1>2, Bounds
<1>5. Typed(c, r, s, b)
  BY <1>2, <1>4 DEF Linked, Typed
<1>6. Numbered(c, r, s)
  BY <1>3 DEF Linked, Numbered
<1>7. Whole(c, r, s, l)
  <2> SUFFICES ASSUME ~l, c.epoch = s.epoch, NEW n \in Nat, s.received < n, n <= c.seq
               PROVE  \E i \in 1 .. Len(r) : r[i] /= HeldCancel /\ r[i].epoch = s.epoch
                                             /\ r[i].seq = n
    BY DEF Whole
  <2>1. PICK i \in 1 .. Len(q) : q[i] /= HeldCancel /\ q[i].epoch = s.epoch /\ q[i].seq = n
    BY DEF Linked, Whole
  <2> QED
    BY <1>2, <2>1
<1>8. Replayed(c, r, s)
  BY <1>3 DEF Linked, Replayed
<1> QED
  BY <1>5, <1>6, <1>7, <1>8 DEF Linked

-----------------------------------------------------------------------------
(***************************************************************************)
(* The client hears a snapshot                                             *)
(***************************************************************************)
(* The epoch and the place of a snapshot, as the client adopts them.       *)
Adopted(c, snap) ==
  WithEpoch([c EXCEPT !.replica = [epoch |-> snap.epoch, place |-> snap.place]])

LEMMA AdoptedFields ==
  ASSUME NEW c \in ClientState, NEW snap \in Snapshot
  PROVE  LET d == Adopted(c, snap) IN
         /\ d \in ClientState /\ d.epoch = snap.epoch
         /\ d.replica = [epoch |-> snap.epoch, place |-> snap.place]
         /\ d.seq = IF c.epoch = snap.epoch THEN c.seq ELSE 0
         /\ d.predEpoch = c.predEpoch /\ d.lastSent = c.lastSent /\ d.pending = c.pending
         /\ d.place = c.place
<1> DEFINE x == [epoch |-> snap.epoch, place |-> snap.place]
           e == [c EXCEPT !.replica = x]
<1>1. x \in [epoch : Epoch, place : Place] /\ x.epoch = snap.epoch /\ snap.epoch \in Epoch
  BY DEF Snapshot
<1>2. 0 \in Sequence
  BY Bounds DEF Sequence
<1> HIDE DEF x
<1>3. /\ e \in ClientState /\ e.replica = x /\ e.epoch = c.epoch /\ e.seq = c.seq
      /\ e.predEpoch = c.predEpoch /\ e.lastSent = c.lastSent /\ e.pending = c.pending
      /\ e.place = c.place
  BY <1>1 DEF ClientState
<1>4. Adopted(c, snap) = WithEpoch(e)
  BY DEF Adopted, x
<1> HIDE DEF e
<1>5. CASE c.epoch = snap.epoch
  <2>1. WithEpoch(e) = e
    BY <1>1, <1>3, <1>5 DEF WithEpoch
  <2> QED
    BY <1>3, <1>4, <1>5, <2>1 DEF x
<1>6. CASE c.epoch /= snap.epoch
  <2> DEFINE d1 == [e EXCEPT !.epoch = snap.epoch]
             d == [d1 EXCEPT !.seq = 0]
  <2>1. WithEpoch(e) = d
    BY <1>1, <1>3, <1>6 DEF WithEpoch, ClientState
  <2>2. /\ d1 \in ClientState /\ d1.epoch = snap.epoch /\ d1.replica = x
        /\ d1.predEpoch = c.predEpoch /\ d1.lastSent = c.lastSent /\ d1.pending = c.pending
        /\ d1.place = c.place
    BY <1>1, <1>3 DEF ClientState
  <2> HIDE DEF d1
  <2>3. /\ d \in ClientState /\ d.epoch = snap.epoch /\ d.replica = x /\ d.seq = 0
        /\ d.predEpoch = c.predEpoch /\ d.lastSent = c.lastSent /\ d.pending = c.pending
        /\ d.place = c.place
    BY <1>2, <2>2 DEF ClientState
  <2> HIDE DEF d
  <2> QED
    BY <1>4, <1>6, <2>1, <2>3 DEF x
<1> QED
  BY <1>5, <1>6

LEMMA TailParts ==
  ASSUME NEW S, NEW q \in Seq(S), q /= <<>>
  PROVE  /\ Tail(q) \in Seq(S) /\ Len(Tail(q)) = Len(q) - 1 /\ Len(q) \in Nat /\ Len(q) > 0
         /\ Head(q) = q[1] /\ Head(q) \in S
         /\ \A i \in 1 .. Len(Tail(q)) : i + 1 \in 1 .. Len(q) /\ Tail(q)[i] = q[i + 1]
OBVIOUS

LEMMA AdoptedLinked ==
  ASSUME NEW c, NEW q, NEW s, NEW b, NEW l, Linked(c, q, s, b, l), b /= <<>>
  PROVE  /\ Linked(Adopted(c, Head(b)), q, s, Tail(b), l)
         /\ Head(b) \in Snapshot
         /\ Head(b).epoch = Adopted(c, Head(b)).epoch
         /\ Head(b).ack <= Adopted(c, Head(b)).seq
         /\ Head(b).epoch = s.epoch => Head(b).ack <= s.acked
<1> DEFINE snap == Head(b)
           d == Adopted(c, snap)
           t == Tail(b)
<1>1. c \in ClientState /\ s \in ServerState /\ q \in Seq(Message) /\ b \in Seq(Snapshot)
  BY DEF Linked, Typed, ClientTyped, ServerTyped
<1>2. /\ t \in Seq(Snapshot) /\ Len(t) = Len(b) - 1 /\ Len(b) \in Nat /\ Len(b) > 0
      /\ snap = b[1] /\ snap \in Snapshot /\ 1 \in 1 .. Len(b)
      /\ \A i \in 1 .. Len(t) : i + 1 \in 1 .. Len(b) /\ t[i] = b[i + 1]
  BY <1>1, TailParts
<1>3. /\ d \in ClientState /\ d.epoch = snap.epoch
      /\ d.replica = [epoch |-> snap.epoch, place |-> snap.place]
      /\ d.seq = (IF c.epoch = snap.epoch THEN c.seq ELSE 0)
      /\ d.predEpoch = c.predEpoch /\ d.lastSent = c.lastSent /\ d.pending = c.pending
      /\ d.place = c.place
  BY <1>1, <1>2, AdoptedFields
<1> HIDE DEF d, snap, t
<1>4. /\ c.epoch \in Nat /\ s.epoch \in Nat /\ snap.epoch \in Nat /\ snap.ack \in Nat
      /\ c.seq \in Nat /\ c.predEpoch \in Nat /\ s.received \in Nat
      /\ c.epoch <= snap.epoch /\ snap.epoch <= s.epoch /\ c.predEpoch <= c.epoch
  BY <1>1, <1>2, ClientNumbers, ServerNumbers, SnapshotParts DEF Linked, Chained
<1>5. /\ snap.epoch = s.epoch => snap.ack <= s.acked
      /\ snap.epoch = c.epoch => snap.ack <= c.seq
      /\ snap.epoch > c.epoch => snap.ack = 0
  BY <1>2 DEF Linked, Acknowledged
<1>6. snap.ack <= d.seq
  BY <1>3, <1>4, <1>5
<1>7. Typed(d, q, s, t)
  <2>1. Len(t) <= BackCap
    BY <1>2, Bounds DEF Linked, Typed
  <2> QED
    BY <1>2, <1>3, <2>1 DEF Linked, Typed, ClientTyped
<1>8. Chained(d, s, t)
  <2>1. \A i \in 1 .. Len(t) : d.epoch <= t[i].epoch /\ t[i].epoch <= s.epoch
    <3> TAKE i \in 1 .. Len(t)
    <3>1. i + 1 \in 1 .. Len(b) /\ t[i] = b[i + 1] /\ 1 < i + 1
      BY <1>2
    <3>2. b[1].epoch <= b[i + 1].epoch /\ b[i + 1].epoch <= s.epoch
      BY <1>2, <3>1 DEF Linked, Chained
    <3> QED
      BY <1>2, <1>3, <3>1, <3>2
  <2>2. \A i, k \in 1 .. Len(t) : i < k => t[i].epoch <= t[k].epoch
    <3> TAKE i, k \in 1 .. Len(t)
    <3>1. i < k => i + 1 < k + 1
      BY <1>2
    <3> QED
      BY <1>2, <3>1 DEF Linked, Chained
  <2>3. d.epoch = d.replica.epoch /\ d.predEpoch <= d.epoch /\ d.epoch <= s.epoch
    BY <1>3, <1>4
  <2> QED
    BY <2>1, <2>2, <2>3 DEF Chained
<1>9. Placed(d, s, t)
  <2>1. d.epoch = s.epoch => d.replica.place = s.place
    <3>1. b[1].epoch = s.epoch => b[1].place = s.place
      BY <1>2 DEF Linked, Placed
    <3>2. d.epoch = b[1].epoch /\ d.replica.place = b[1].place
      BY <1>2, <1>3
    <3> QED
      BY <3>1, <3>2
  <2>2. \A i \in 1 .. Len(t) :
          /\ t[i].epoch = s.epoch => t[i].place = s.place
          /\ t[i].epoch = d.epoch => t[i].place = d.replica.place
    <3> TAKE i \in 1 .. Len(t)
    <3>1. i + 1 \in 1 .. Len(b) /\ t[i] = b[i + 1]
      BY <1>2
    <3>2. b[i + 1].epoch = b[1].epoch => b[i + 1].place = b[1].place
      BY <1>2, <3>1 DEF Linked, Placed
    <3>3. d.epoch = b[1].epoch /\ d.replica.place = b[1].place
      BY <1>2, <1>3
    <3> QED
      BY <3>1, <3>2, <3>3 DEF Linked, Placed
  <2>3. \A i, k \in 1 .. Len(t) : t[i].epoch = t[k].epoch => t[i].place = t[k].place
    BY <1>2 DEF Linked, Placed
  <2> QED
    BY <2>1, <2>2, <2>3 DEF Placed
<1>10. CASE c.epoch = snap.epoch
  <2>1. d.epoch = c.epoch /\ d.seq = c.seq /\ d.replica.place = c.replica.place
    BY <1>2, <1>3, <1>10 DEF Linked, Placed
  <2>2. Numbered(d, q, s)
    BY <1>3, <2>1 DEF Linked, Numbered
  <2>3. Acknowledged(d, s, t)
    BY <1>2, <2>1 DEF Linked, Acknowledged
  <2>4. Whole(d, q, s, l) /\ Replayed(d, q, s)
    BY <1>3, <2>1 DEF Linked, Whole, Replayed
  <2> QED
    BY <1>2, <1>3, <1>5, <1>6, <1>7, <1>8, <1>9, <2>2, <2>3, <2>4 DEF Linked, d, snap, t
<1>11. CASE c.epoch < snap.epoch
  <2>1. d.seq = 0 /\ s.received = 0 /\ d.predEpoch < d.epoch
    BY <1>3, <1>4, <1>11 DEF Linked, Numbered
  <2>2. ASSUME NEW i \in 1 .. Len(q), q[i] /= HeldCancel
        PROVE  q[i].epoch < d.epoch /\ q[i].epoch \in Nat
    <3>1. q[i] \in Message
      BY <1>1
    <3>2. q[i].epoch \in Nat /\ q[i].epoch <= c.epoch
      BY <2>2, <3>1, MessageParts DEF Linked, Numbered
    <3> QED
      BY <1>3, <1>4, <1>11, <3>2
  <2>3. Numbered(d, q, s)
    <3>1. \A i \in 1 .. Len(q) : q[i] /= HeldCancel =>
            q[i].epoch <= d.epoch /\ q[i].epoch /= d.epoch
      BY <1>3, <1>4, <2>2
    <3>2. d.predEpoch /= d.epoch /\ s.received <= d.seq
      BY <1>3, <1>4, <2>1
    <3> QED
      BY <2>1, <3>1, <3>2 DEF Linked, Numbered
  <2>4. Acknowledged(d, s, t)
    <3> SUFFICES ASSUME NEW i \in 1 .. Len(t)
                 PROVE  /\ t[i].epoch = s.epoch => t[i].ack <= s.acked
                        /\ t[i].epoch = d.epoch => t[i].ack <= d.seq
                        /\ t[i].epoch > d.epoch => t[i].ack = 0
      BY DEF Acknowledged
    <3>1. i + 1 \in 1 .. Len(b) /\ t[i] = b[i + 1]
      BY <1>2
    <3>2. t[i].epoch \in Nat /\ d.epoch <= t[i].epoch
      BY <1>8, <1>1, <3>1, SnapshotParts DEF Chained
    <3>3. t[i].ack = 0
      BY <1>3, <1>4, <1>11, <3>1, <3>2 DEF Linked, Acknowledged
    <3> QED
      BY <2>1, <3>1, <3>3 DEF Linked, Acknowledged
  <2>5. Whole(d, q, s, l)
    <3>1. \A n \in Nat : ~(s.received < n /\ n <= d.seq)
      BY <2>1
    <3> QED
      BY <3>1 DEF Whole
  <2>6. Replayed(d, q, s)
    <3>1. Len(s.queue) = 0
      BY <1>1, <2>1, AckedIsReceived DEF Linked
    <3>2. d.epoch = s.epoch => \A i \in 1 .. Len(q) : q[i] /= HeldCancel => q[i].epoch /= s.epoch
      BY <1>4, <2>2
    <3> QED
      BY <3>1, <3>2 DEF Replayed
  <2> QED
    BY <1>2, <1>3, <1>5, <1>6, <1>7, <1>8, <1>9, <2>3, <2>4, <2>5, <2>6 DEF Linked, d, snap, t
<1> QED
  BY <1>4, <1>10, <1>11

(* The window starts again, when no movement of the epoch is open in it.   *)
LEMMA RestartedLinked ==
  ASSUME NEW c, NEW q, NEW s, NEW b, NEW l, Linked(c, q, s, b, l),
         NEW place \in Place,
         c.epoch = s.epoch =>
           /\ \A i \in 1 .. Len(s.queue) : ~s.queue[i].moving
           /\ \A i \in 1 .. Len(q) : ~(q[i] /= HeldCancel /\ q[i].epoch = s.epoch /\ q[i].moving)
  PROVE  Linked(Restarted([c EXCEPT !.place = place]), q, s, b, l)
<1> DEFINE c0 == [c EXCEPT !.place = place]
           c1 == [c0 EXCEPT !.pending = {}, !.barrier = NoBarrier]
           d == [c1 EXCEPT !.lastSent = 0, !.predEpoch = c.epoch]
<1>1. c \in ClientState /\ c.epoch = c.replica.epoch /\ c.epoch \in Epoch /\ c.epoch \in Nat
  BY ClientNumbers DEF Linked, Typed, ClientTyped, Chained
<1>2. 0 \in Sequence
  BY Bounds DEF Sequence
<1>3. Restarted(c0) = d
  BY <1>1 DEF Restarted, ClientState
<1>4. /\ c0 \in ClientState /\ c0.epoch = c.epoch /\ c0.seq = c.seq /\ c0.replica = c.replica
  BY <1>1 DEF ClientState
<1> HIDE DEF c0
<1>5. /\ c1 \in ClientState /\ c1.epoch = c.epoch /\ c1.seq = c.seq /\ c1.replica = c.replica
      /\ c1.pending = {}
  BY <1>4 DEF ClientState
<1> HIDE DEF c1
<1>6. /\ d \in ClientState /\ d.epoch = c.epoch /\ d.seq = c.seq /\ d.replica = c.replica
      /\ d.pending = {} /\ d.lastSent = 0 /\ d.predEpoch = c.epoch
  BY <1>1, <1>2, <1>5 DEF ClientState
<1> SUFFICES Linked(d, q, s, b, l)
  BY <1>3 DEF c0
<1> HIDE DEF d
<1>7. Typed(d, q, s, b)
  <2>1. IsFiniteSet(d.pending) /\ Cardinality(d.pending) = 0
    BY <1>6, FS_EmptySet
  <2> QED
    BY <1>6, <2>1, Bounds DEF Linked, Typed, ClientTyped
<1>8. Chained(d, s, b) /\ Placed(d, s, b)
  BY <1>1, <1>6 DEF Linked, Chained, Placed
<1>9. Numbered(d, q, s)
  BY <1>1, <1>6 DEF Linked, Numbered
<1>10. Acknowledged(d, s, b)
  BY <1>6 DEF Linked, Acknowledged
<1>11. Whole(d, q, s, l) /\ Replayed(d, q, s)
  BY <1>6 DEF Linked, Whole, Replayed
<1> QED
  BY <1>7, <1>8, <1>9, <1>10, <1>11 DEF Linked

(* A snapshot that reaches prediction.  It acknowledges nothing beyond the *)
(* last command: the window is never restarted for that, and what it       *)
(* trims is accounted for.                                                 *)
LEMMA SyncedLinked ==
  ASSUME NEW c, NEW q, NEW s, NEW b, NEW l, Linked(c, q, s, b, l),
         NEW snap \in Snapshot, snap.epoch = c.epoch, snap.ack <= c.seq,
         snap.epoch = s.epoch => snap.ack <= s.acked
  PROVE  /\ Linked(Synced(c, snap), q, s, b, l)
         /\ \A cmd \in Synced(c, snap).pending : cmd.epoch = snap.epoch
         /\ Synced(c, snap).replica = c.replica
<1>1. c \in ClientState /\ s \in ServerState /\ q \in Seq(Message) /\ b \in Seq(Snapshot)
  BY DEF Linked, Typed, ClientTyped, ServerTyped
<1>2. /\ c.epoch \in Nat /\ c.predEpoch \in Nat /\ c.seq \in Nat /\ c.lastSent \in Nat
      /\ snap.ack \in Nat /\ c.predEpoch <= c.epoch /\ c.epoch = c.replica.epoch
      /\ s.epoch \in Nat /\ s.received \in Nat /\ s.acked \in Nat /\ c.place \in Place
  BY <1>1, ClientNumbers, ServerNumbers, Bounds DEF Snapshot, Sequence, Linked, Chained
<1>3. ~(snap.ack > c.lastSent /\ c.lastSent > 0)
  <2>1. CASE c.predEpoch = c.epoch
    <3>1. c.lastSent \in {0, c.seq}
      BY <2>1 DEF Linked, Numbered
    <3> QED
      BY <1>2, <3>1
  <2>2. CASE c.predEpoch < c.epoch
    <3>1. c.seq = 0
      BY <2>2 DEF Linked, Numbered
    <3> QED
      BY <1>2, <3>1
  <2> QED
    BY <1>2, <2>1, <2>2
<1>4. CASE c.predEpoch /= snap.epoch
  <2>1. Synced(c, snap) = Restarted(c)
    BY <1>3, <1>4 DEF Synced
  <2>2. c = [c EXCEPT !.place = c.place]
    BY <1>1 DEF ClientState
  <2>3. c.seq = 0
    <3>1. c.predEpoch < c.epoch
      BY <1>2, <1>4
    <3> QED
      BY <3>1 DEF Linked, Numbered
  <2>4. ASSUME c.epoch = s.epoch
        PROVE  /\ \A i \in 1 .. Len(s.queue) : ~s.queue[i].moving
               /\ \A i \in 1 .. Len(q) :
                    ~(q[i] /= HeldCancel /\ q[i].epoch = s.epoch /\ q[i].moving)
    <3>1. s.received = 0
      BY <1>2, <2>3, <2>4 DEF Linked, Numbered
    <3>2. Len(s.queue) = 0
      BY <1>1, <3>1, AckedIsReceived DEF Linked
    <3>3. ASSUME NEW i \in 1 .. Len(q), q[i] /= HeldCancel, q[i].epoch = s.epoch
          PROVE  FALSE
      <4>1. q[i] \in Message
        BY <1>1
      <4>2. q[i].seq \in Nat /\ q[i].seq > 0
        BY <3>3, <4>1, MessageParts
      <4>3. q[i].seq <= c.seq
        BY <2>4, <3>3 DEF Linked, Numbered
      <4> QED
        BY <2>3, <4>2, <4>3
    <3> QED
      BY <3>2, <3>3
  <2>5. Linked(Restarted(c), q, s, b, l)
    BY <1>2, <2>2, <2>4, RestartedLinked
  <2>6. Restarted(c).pending = {} /\ Restarted(c).replica = c.replica
    BY <1>1 DEF Restarted, ClientState
  <2> QED
    BY <2>1, <2>5, <2>6
<1>5. CASE c.predEpoch = snap.epoch
  <2> DEFINE p == Trimmed(c.pending, snap)
             x == IF Confirmed(c.barrier, snap) THEN NoBarrier ELSE c.barrier
             d0 == [c EXCEPT !.barrier = x]
             d == [d0 EXCEPT !.pending = p]
  <2>1. Synced(c, snap) = d
    BY <1>1, <1>3, <1>5 DEF Synced, ClientState
  <2>2. x \in [epoch : Epoch, target : Sequence] \cup {NoBarrier}
    BY <1>1 DEF ClientState
  <2>3. p \in SUBSET c.pending /\ \A cmd \in p : cmd.epoch = snap.epoch
    BY DEF Trimmed
  <2>4. \A cmd \in c.pending : cmd.epoch = snap.epoch /\ cmd.seq > snap.ack => cmd \in p
    BY DEF Trimmed
  <2> HIDE DEF x, p
  <2>5. Linked(d0, q, s, b, l)
    BY <2>2, BarrierKept
  <2>6. /\ d0.epoch = c.epoch /\ d0.seq = c.seq /\ d0.predEpoch = c.predEpoch
        /\ d0.lastSent = c.lastSent /\ d0.pending = c.pending /\ d0.replica = c.replica
        /\ d0.place = c.place /\ d0 \in ClientState
    BY <1>1, <2>2 DEF ClientState
  <2> HIDE DEF d0
  <2>7. /\ d.epoch = c.epoch /\ d.seq = c.seq /\ d.predEpoch = c.predEpoch
        /\ d.lastSent = c.lastSent /\ d.pending = p /\ d.replica = c.replica
        /\ d.place = c.place /\ d \in ClientState
    BY <1>1, <2>3, <2>6, ClientNumbers DEF ClientState
  <2> HIDE DEF d
  <2>8. Typed(d, q, s, b)
    <3>1. IsFiniteSet(c.pending) /\ Cardinality(c.pending) <= PendingCap
      BY DEF Linked, Typed, ClientTyped
    <3>2. IsFiniteSet(p) /\ Cardinality(p) <= Cardinality(c.pending)
      BY <2>3, <3>1, FS_Subset
    <3>3. Cardinality(p) \in Nat /\ Cardinality(c.pending) \in Nat
      BY <3>1, <3>2, FS_CardinalityType
    <3> QED
      BY <2>7, <3>1, <3>2, <3>3, Bounds DEF Linked, Typed, ClientTyped
  <2>9. Chained(d, s, b) /\ Placed(d, s, b)
    BY <2>7 DEF Linked, Chained, Placed
  <2>10. Numbered(d, q, s)
    BY <2>7 DEF Linked, Numbered
  <2>11. Acknowledged(d, s, b) /\ Whole(d, q, s, l)
    BY <2>7 DEF Linked, Acknowledged, Whole
  <2>12. Replayed(d, q, s)
    <3> SUFFICES ASSUME c.epoch = s.epoch
                 PROVE  /\ \A i \in 1 .. Len(s.queue) :
                             s.queue[i].moving =>
                               s.queue[i] \in p /\ d.place = d.replica.place
                        /\ \A i \in 1 .. Len(q) :
                             q[i] /= HeldCancel /\ q[i].epoch = s.epoch /\ q[i].moving =>
                               q[i] \in p /\ d.place = d.replica.place
      BY <2>7 DEF Replayed
    <3>1. snap.ack <= s.acked /\ snap.epoch = s.epoch
      OBVIOUS
    <3>2. ASSUME NEW i \in 1 .. Len(s.queue), s.queue[i].moving
          PROVE  s.queue[i] \in p /\ d.place = d.replica.place
      <4>1. s.queue[i].epoch = s.epoch /\ s.queue[i].seq = s.acked + i
        BY DEF Linked, Accounted
      <4>2. s.queue[i].seq > snap.ack
        BY <1>2, <3>1, <4>1
      <4> QED
        BY <2>4, <2>7, <3>1, <3>2, <4>1, <4>2 DEF Linked, Replayed
    <3>3. ASSUME NEW i \in 1 .. Len(q), q[i] /= HeldCancel, q[i].epoch = s.epoch, q[i].moving
          PROVE  q[i] \in p /\ d.place = d.replica.place
      <4>1. q[i] \in Message
        BY <1>1
      <4>2. q[i].seq \in Nat /\ q[i].seq > s.received
        BY <3>3, <4>1, MessageParts DEF Linked, Numbered
      <4>3. s.acked <= s.received
        BY <1>1, AckedIsReceived DEF Linked
      <4>4. q[i].seq > snap.ack
        BY <1>2, <3>1, <4>2, <4>3
      <4> QED
        BY <2>4, <2>7, <3>1, <3>3, <4>4 DEF Linked, Replayed
    <3> QED
      BY <3>2, <3>3
  <2>13. Linked(d, q, s, b, l)
    BY <2>8, <2>9, <2>10, <2>11, <2>12 DEF Linked
  <2> QED
    BY <2>1, <2>3, <2>7, <2>13 DEF d, p
<1> QED
  BY <1>4, <1>5

(* The local map follows the replica.  What is open is then idle.          *)
LEMMA SwappedLinked ==
  ASSUME NEW c, NEW q, NEW s, NEW b, NEW l, Linked(c, q, s, b, l), Fading(c)
  PROVE  LET d == [c EXCEPT !.place = c.replica.place]
         IN  Linked(d, q, s, b, l) /\ Linked(Restarted(d), q, s, b, l)
<1> DEFINE d == [c EXCEPT !.place = c.replica.place]
<1>1. c \in ClientState /\ c.replica.place \in Place /\ c.place /= c.replica.place
  BY ClientNumbers DEF Linked, Typed, ClientTyped, Fading
<1>2. c.epoch = s.epoch =>
        /\ \A i \in 1 .. Len(s.queue) : ~s.queue[i].moving
        /\ \A i \in 1 .. Len(q) : ~(q[i] /= HeldCancel /\ q[i].epoch = s.epoch /\ q[i].moving)
  BY <1>1 DEF Linked, Replayed
<1>3. Linked(Restarted(d), q, s, b, l)
  BY <1>1, <1>2, RestartedLinked
<1>4. /\ d \in ClientState
      /\ d.epoch = c.epoch /\ d.seq = c.seq /\ d.predEpoch = c.predEpoch
      /\ d.lastSent = c.lastSent /\ d.pending = c.pending /\ d.replica = c.replica
  BY <1>1 DEF ClientState
<1> HIDE DEF d
<1>5. Typed(d, q, s, b)
  BY <1>4 DEF Linked, Typed, ClientTyped
<1>6. Chained(d, s, b) /\ Placed(d, s, b)
  BY <1>4 DEF Linked, Chained, Placed
<1>7. Numbered(d, q, s)
  BY <1>4 DEF Linked, Numbered
<1>8. Acknowledged(d, s, b) /\ Whole(d, q, s, l)
  BY <1>4 DEF Linked, Acknowledged, Whole
<1>9. Replayed(d, q, s)
  BY <1>2, <1>4 DEF Replayed
<1>10. Linked(d, q, s, b, l)
  BY <1>5, <1>6, <1>7, <1>8, <1>9 DEF Linked
<1> QED
  BY <1>3, <1>10 DEF d

-----------------------------------------------------------------------------
(***************************************************************************)
(* The session takes a message                                             *)
(***************************************************************************)
(* What is refused is lost if a later command of the epoch would miss it.  *)
LEMMA HeadDropped ==
  ASSUME NEW c, NEW q, NEW s, NEW b, NEW l, NEW lost2, Linked(c, q, s, b, l), q /= <<>>,
         l => lost2,
         Head(q) /= HeldCancel /\ Head(q).epoch = s.epoch /\ Head(q).seq > s.received => lost2
  PROVE  Linked(c, Tail(q), s, b, lost2)
<1> DEFINE m == Head(q)
           t == Tail(q)
<1>1. c \in ClientState /\ s \in ServerState /\ q \in Seq(Message)
  BY DEF Linked, Typed, ClientTyped, ServerTyped
<1>2. /\ t \in Seq(Message) /\ Len(t) = Len(q) - 1 /\ Len(q) \in Nat /\ Len(q) > 0
      /\ m = q[1] /\ m \in Message
      /\ \A i \in 1 .. Len(t) : i + 1 \in 1 .. Len(q) /\ t[i] = q[i + 1]
  BY <1>1, TailParts
<1> HIDE DEF m, t
<1>3. Typed(c, t, s, b)
  <2>1. Len(t) <= InputCap
    BY <1>2, Bounds DEF Linked, Typed
  <2> QED
    BY <1>2, <2>1 DEF Linked, Typed
<1>4. Numbered(c, t, s)
  <2>1. \A i \in 1 .. Len(t) : t[i] /= HeldCancel =>
          /\ t[i].epoch <= c.epoch
          /\ t[i].epoch = c.epoch => t[i].seq <= c.seq
          /\ t[i].epoch = s.epoch => t[i].seq > s.received
    BY <1>2 DEF Linked, Numbered
  <2>2. \A i, k \in 1 .. Len(t) :
          i < k /\ t[i] /= HeldCancel /\ t[k] /= HeldCancel /\ t[i].epoch = t[k].epoch =>
            t[i].seq < t[k].seq
    <3> TAKE i, k \in 1 .. Len(t)
    <3>1. /\ i + 1 \in 1 .. Len(q) /\ k + 1 \in 1 .. Len(q)
          /\ t[i] = q[i + 1] /\ t[k] = q[k + 1] /\ (i < k => i + 1 < k + 1)
      BY <1>2
    <3> QED
      BY <3>1 DEF Linked, Numbered
  <2> QED
    BY <2>1, <2>2 DEF Linked, Numbered
<1>5. Whole(c, t, s, lost2)
  <2> SUFFICES ASSUME ~lost2, c.epoch = s.epoch, NEW n \in Nat, s.received < n, n <= c.seq
               PROVE  \E i \in 1 .. Len(t) : t[i] /= HeldCancel /\ t[i].epoch = s.epoch
                                             /\ t[i].seq = n
    BY DEF Whole
  <2>1. PICK i \in 1 .. Len(q) : q[i] /= HeldCancel /\ q[i].epoch = s.epoch /\ q[i].seq = n
    BY DEF Linked, Whole
  <2>2. i /= 1
    BY <1>2, <2>1 DEF m
  <2>3. i - 1 \in 1 .. Len(t) /\ t[i - 1] = q[i]
    <3>1. i - 1 \in 1 .. Len(t)
      BY <1>2, <2>1, <2>2
    <3>2. t[i - 1] = q[(i - 1) + 1] /\ (i - 1) + 1 = i
      BY <1>2, <3>1
    <3> QED
      BY <3>1, <3>2
  <2> QED
    BY <2>1, <2>3
<1>6. Replayed(c, t, s)
  BY <1>2 DEF Linked, Replayed
<1> QED
  BY <1>3, <1>4, <1>5, <1>6 DEF Linked, t

(* A command that is accepted is the next one.                             *)
LEMMA HeadQueued ==
  ASSUME NEW c, NEW q, NEW s, NEW b, NEW l, Linked(c, q, s, b, l), q /= <<>>,
         Head(q) /= HeldCancel, Accepts(s, Head(q))
  PROVE  Linked(c, Tail(q), Queued(s, Head(q)), b, l)
<1> DEFINE m == Head(q)
           t == Tail(q)
           w == Append(s.queue, m)
           u == Queued(s, m)
<1>1. /\ c \in ClientState /\ s \in ServerState /\ q \in Seq(Message) /\ b \in Seq(Snapshot)
      /\ s.queue \in Seq(Command)
  BY ServerNumbers DEF Linked, Typed, ClientTyped, ServerTyped
<1>2. /\ t \in Seq(Message) /\ Len(t) = Len(q) - 1 /\ Len(q) \in Nat /\ Len(q) > 0
      /\ m = q[1] /\ m \in Message /\ 1 \in 1 .. Len(q)
      /\ \A i \in 1 .. Len(t) : i + 1 \in 1 .. Len(q) /\ t[i] = q[i + 1]
  BY <1>1, TailParts
<1>3. m \in Command /\ m.seq \in Sequence
  BY <1>2, MessageParts, Bounds DEF Sequence
<1>4. m.epoch = s.epoch /\ m.seq = s.received + 1 /\ Len(s.queue) < QueueCap
  BY DEF Accepts
<1>5. /\ w \in Seq(Command) /\ Len(w) = Len(s.queue) + 1 /\ Len(s.queue) \in Nat
      /\ \A i \in 1 .. Len(s.queue) : w[i] = s.queue[i]
      /\ w[Len(s.queue) + 1] = m
  BY <1>1, <1>3, AppendParts
<1>6. u = [s EXCEPT !.received = m.seq, !.queue = w]
  BY <1>1 DEF Queued, ServerState
<1> SUFFICES Linked(c, t, u, b, l)
  OBVIOUS
<1>q. Head(q) = m
  OBVIOUS
<1> HIDE DEF m, t, w, u
<1>7. /\ u \in ServerState /\ u.received = s.received + 1 /\ u.queue = w
      /\ u.epoch = s.epoch /\ u.acked = s.acked /\ u.moving = s.moving /\ u.gate = s.gate
      /\ u.ui = s.ui /\ u.place = s.place
  BY <1>1, <1>3, <1>4, <1>5, <1>6 DEF ServerState
<1>8. /\ s.received \in Nat /\ s.acked \in Nat /\ s.epoch \in Nat /\ c.epoch \in Nat
      /\ c.seq \in Nat
  BY <1>1, ServerNumbers, ClientNumbers
<1>9. /\ m /= HeldCancel /\ c.epoch <= s.epoch /\ s.epoch <= c.epoch
  BY <1>2, <1>4, <1>q DEF Linked, Numbered, Chained
<1>10. c.epoch = s.epoch /\ m.seq <= c.seq
  BY <1>2, <1>4, <1>8, <1>9 DEF Linked, Numbered
<1>11. Typed(c, t, u, b)
  <2>1. Len(t) <= InputCap
    BY <1>2, Bounds DEF Linked, Typed
  <2>2. Len(w) <= QueueCap
    BY <1>4, <1>5, Bounds
  <2> QED
    BY <1>2, <1>7, <2>1, <2>2 DEF Linked, Typed, ServerTyped
<1>12. Chained(c, u, b) /\ Placed(c, u, b)
  BY <1>7 DEF Linked, Chained, Placed
<1>13. ASSUME NEW i \in 1 .. Len(t), t[i] /= HeldCancel, t[i].epoch = s.epoch
       PROVE  t[i].seq > s.received + 1
  <2>1. i + 1 \in 1 .. Len(q) /\ t[i] = q[i + 1] /\ 1 < i + 1
    BY <1>2
  <2>2. q[1].seq < q[i + 1].seq
    BY <1>2, <1>4, <1>9, <1>13, <2>1 DEF Linked, Numbered
  <2> QED
    BY <1>2, <1>4, <2>1, <2>2
<1>14. Numbered(c, t, u)
  <2>1. \A i \in 1 .. Len(t) : t[i] /= HeldCancel =>
          /\ t[i].epoch <= c.epoch
          /\ t[i].epoch = c.epoch => t[i].seq <= c.seq
          /\ t[i].epoch = u.epoch => t[i].seq > u.received
    BY <1>2, <1>7, <1>13 DEF Linked, Numbered
  <2>2. \A i, k \in 1 .. Len(t) :
          i < k /\ t[i] /= HeldCancel /\ t[k] /= HeldCancel /\ t[i].epoch = t[k].epoch =>
            t[i].seq < t[k].seq
    <3> TAKE i, k \in 1 .. Len(t)
    <3>1. /\ i + 1 \in 1 .. Len(q) /\ k + 1 \in 1 .. Len(q)
          /\ t[i] = q[i + 1] /\ t[k] = q[k + 1] /\ (i < k => i + 1 < k + 1)
      BY <1>2
    <3> QED
      BY <3>1 DEF Linked, Numbered
  <2>3. ~(c.epoch < u.epoch) /\ u.received <= c.seq
    BY <1>4, <1>7, <1>8, <1>10
  <2> QED
    BY <2>1, <2>2, <2>3 DEF Linked, Numbered
<1>15. Acknowledged(c, u, b)
  BY <1>7 DEF Linked, Acknowledged
<1>16. Accounted(u)
  <2>1. s.received = s.acked + Len(s.queue)
    BY DEF Linked, Accounted
  <2>n. s.received + 1 = s.acked + (Len(s.queue) + 1)
    <3> DEFINE n == Len(s.queue)
    <3>1. n \in Nat /\ s.received = s.acked + n
      BY <1>5, <2>1
    <3> HIDE DEF n
    <3>2. s.received + 1 = s.acked + (n + 1)
      BY <1>8, <3>1
    <3> QED
      BY <3>2 DEF n
  <2>2. u.received = u.acked + Len(u.queue)
    BY <1>5, <1>7, <2>n
  <2>3. ASSUME NEW i \in 1 .. Len(w)
        PROVE  w[i].epoch = s.epoch /\ w[i].seq = s.acked + i
    <3>1. CASE i \in 1 .. Len(s.queue)
      BY <1>5, <3>1 DEF Linked, Accounted
    <3>2. CASE i = Len(s.queue) + 1
      BY <1>4, <1>5, <2>n, <3>2
    <3> QED
      BY <1>5, <3>1, <3>2
  <2> QED
    BY <1>7, <2>2, <2>3 DEF Linked, Accounted
<1>17. Whole(c, t, u, l)
  <2> SUFFICES ASSUME ~l, NEW n \in Nat, u.received < n, n <= c.seq
               PROVE  \E i \in 1 .. Len(t) : t[i] /= HeldCancel /\ t[i].epoch = u.epoch
                                             /\ t[i].seq = n
    BY DEF Whole
  <2>1. s.received < n
    BY <1>7, <1>8
  <2>2. PICK i \in 1 .. Len(q) : q[i] /= HeldCancel /\ q[i].epoch = s.epoch /\ q[i].seq = n
    BY <1>10, <2>1 DEF Linked, Whole
  <2>3. i /= 1
    BY <1>2, <1>4, <1>7, <1>8, <2>2
  <2>4. i - 1 \in 1 .. Len(t) /\ t[i - 1] = q[i]
    <3>1. i - 1 \in 1 .. Len(t)
      BY <1>2, <2>2, <2>3
    <3>2. t[i - 1] = q[(i - 1) + 1] /\ (i - 1) + 1 = i
      BY <1>2, <3>1
    <3> QED
      BY <3>1, <3>2
  <2> QED
    BY <1>7, <2>2, <2>4
<1>18. Replayed(c, t, u)
  <2>1. \A i \in 1 .. Len(t) :
          t[i] /= HeldCancel /\ t[i].epoch = u.epoch /\ t[i].moving =>
            t[i] \in c.pending /\ c.place = c.replica.place
    BY <1>2, <1>7, <1>10 DEF Linked, Replayed
  <2>2. m.moving => m \in c.pending /\ c.place = c.replica.place
    BY <1>2, <1>4, <1>9, <1>10 DEF Linked, Replayed
  <2>3. \A i \in 1 .. Len(w) : i \in 1 .. Len(s.queue) \/ i = Len(s.queue) + 1
    BY <1>5
  <2>4. \A i \in 1 .. Len(w) :
          w[i].moving => w[i] \in c.pending /\ c.place = c.replica.place
    BY <1>5, <1>10, <2>2, <2>3 DEF Linked, Replayed
  <2> QED
    BY <1>7, <2>1, <2>4 DEF Replayed
<1> QED
  BY <1>11, <1>12, <1>14, <1>15, <1>16, <1>17, <1>18 DEF Linked

-----------------------------------------------------------------------------
(***************************************************************************)
(* The session plays, cancels and moves                                    *)
(***************************************************************************)
(* Commands leave the queue at its front and are accounted for.            *)
LEMMA Consumed ==
  ASSUME NEW c, NEW q, NEW s, NEW b, NEW l, Linked(c, q, s, b, l), NEW t,
         ServerTyped(t), Accounted(t), t.epoch = s.epoch, t.received = s.received,
         t.place = s.place, s.acked <= t.acked,
         \A i \in 1 .. Len(t.queue) :
           \E k \in 1 .. Len(s.queue) : t.queue[i] = s.queue[k]
  PROVE  Linked(c, q, t, b, l)
<1>1. Typed(c, q, t, b)
  BY DEF Linked, Typed
<1>2. Chained(c, t, b) /\ Placed(c, t, b)
  BY DEF Linked, Chained, Placed
<1>3. Numbered(c, q, t)
  BY DEF Linked, Numbered
<1>4. Acknowledged(c, t, b)
  <2>1. s.acked \in Nat /\ t.acked \in Nat
    BY ServerNumbers DEF Linked, Typed, ServerTyped
  <2>2. ASSUME NEW i \in 1 .. Len(b), b[i].epoch = t.epoch
        PROVE  b[i].ack <= t.acked
    <3>1. b[i].ack \in Nat /\ b[i].ack <= s.acked
      BY <2>2, SnapshotParts DEF Linked, Typed, Acknowledged
    <3> QED
      BY <2>1, <3>1
  <2> QED
    BY <2>2 DEF Linked, Acknowledged
<1>5. Whole(c, q, t, l)
  BY DEF Linked, Whole
<1>6. Replayed(c, q, t)
  BY DEF Linked, Replayed
<1> QED
  BY <1>1, <1>2, <1>3, <1>4, <1>5, <1>6 DEF Linked

LEMMA IdleFields ==
  ASSUME NEW s \in ServerState
  PROVE  LET t == Idle(s) IN
         /\ t \in ServerState /\ t.queue = <<>> /\ Len(t.queue) = 0 /\ ~t.moving /\ t.debt = 0
         /\ t.epoch = s.epoch /\ t.received = s.received /\ t.acked = s.acked
         /\ t.gate = s.gate /\ t.ui = s.ui /\ t.place = s.place
<1> DEFINE t1 == [s EXCEPT !.queue = <<>>]
           t == [t1 EXCEPT !.moving = FALSE, !.debt = 0]
<1>1. Idle(s) = t
  BY DEF Idle, ServerState
<1>2. <<>> \in Seq(Command) /\ Len(<<>>) = 0 /\ 0 \in 0 .. MaxDebt
  BY Bounds
<1>3. /\ t1 \in ServerState /\ t1.queue = <<>> /\ t1.epoch = s.epoch
      /\ t1.received = s.received /\ t1.acked = s.acked /\ t1.gate = s.gate
      /\ t1.ui = s.ui /\ t1.place = s.place
  BY <1>2 DEF ServerState
<1> HIDE DEF t1
<1>4. /\ t \in ServerState /\ t.queue = <<>> /\ ~t.moving /\ t.debt = 0 /\ t.epoch = s.epoch
      /\ t.received = s.received /\ t.acked = s.acked /\ t.gate = s.gate
      /\ t.ui = s.ui /\ t.place = s.place
  BY <1>2, <1>3 DEF ServerState
<1> HIDE DEF t
<1> QED
  BY <1>1, <1>2, <1>4

(* Everything received is accounted for at once.                           *)
Flushed(s, t) ==
  /\ t \in ServerState /\ Len(t.queue) = 0 /\ ~t.moving
  /\ t.epoch = s.epoch /\ t.received = s.received /\ t.acked = s.received
  /\ t.place = s.place

LEMMA FlushedLinked ==
  ASSUME NEW c, NEW q, NEW s, NEW b, NEW l, Linked(c, q, s, b, l), NEW t, Flushed(s, t)
  PROVE  Linked(c, q, t, b, l)
<1>1. s \in ServerState /\ Accounted(s)
  BY DEF Linked, Typed, ServerTyped
<1>2. s.acked <= t.acked /\ t.acked \in Nat
  BY <1>1, AckedIsReceived, ServerNumbers DEF Flushed
<1>3. ServerTyped(t)
  BY Bounds DEF Flushed, ServerTyped
<1>4. Accounted(t)
  BY <1>2 DEF Flushed, Accounted
<1>5. 1 .. Len(t.queue) = {}
  BY DEF Flushed
<1> QED
  BY <1>2, <1>3, <1>4, <1>5, Consumed DEF Flushed

LEMMA CancelledFlushed ==
  ASSUME NEW s \in ServerState, NEW ui \in BOOLEAN
  PROVE  Flushed(s, Cancelled(s)) /\ Flushed(s, [Cancelled(s) EXCEPT !.ui = ui])
<1> DEFINE e == Idle(s)
           t == [e EXCEPT !.acked = s.received]
           u == [t EXCEPT !.ui = ui]
<1>1. /\ e \in ServerState /\ Len(e.queue) = 0 /\ ~e.moving /\ e.epoch = s.epoch
      /\ e.received = s.received /\ e.place = s.place
  BY IdleFields
<1>2. Cancelled(s) = t
  BY DEF Cancelled
<1>3. s.received \in Sequence
  BY ServerNumbers
<1> HIDE DEF e
<1>4. Flushed(s, t)
  BY <1>1, <1>3 DEF Flushed, ServerState
<1> HIDE DEF t
<1>5. Flushed(s, u)
  BY <1>4 DEF Flushed, ServerState
<1> QED
  BY <1>2, <1>4, <1>5

LEMMA AckedAsIdleFlushed ==
  ASSUME NEW s \in ServerState, Accounted(s), NEW gate \in 0 .. GateTicks
  PROVE  Flushed(s, AckedAsIdle(s)) /\ Flushed(s, [AckedAsIdle(s) EXCEPT !.gate = gate])
<1> DEFINE e == Idle(s)
           a == IF s.queue = <<>> THEN s.acked ELSE s.queue[Len(s.queue)].seq
           t == [e EXCEPT !.acked = a]
           u == [t EXCEPT !.gate = gate]
<1>1. /\ e \in ServerState /\ Len(e.queue) = 0 /\ ~e.moving /\ e.epoch = s.epoch
      /\ e.received = s.received /\ e.place = s.place /\ e.acked = s.acked
  BY IdleFields
<1>2. AckedAsIdle(s) = t
  BY <1>1 DEF AckedAsIdle, ServerState
<1>3. s.received \in Sequence /\ s.acked \in Nat /\ s.queue \in Seq(Command)
  BY ServerNumbers
<1>4. a = s.received
  <2>1. CASE s.queue = <<>>
    BY <1>3, <2>1 DEF Accounted
  <2>2. CASE s.queue /= <<>>
    <3>1. Len(s.queue) \in 1 .. Len(s.queue)
      BY <1>3, <2>2
    <3> QED
      BY <2>2, <3>1 DEF Accounted
  <2> QED
    BY <2>1, <2>2
<1> HIDE DEF e, a
<1>5. Flushed(s, t)
  BY <1>1, <1>3, <1>4 DEF Flushed, ServerState
<1> HIDE DEF t
<1>6. Flushed(s, u)
  BY <1>5 DEF Flushed, ServerState
<1> QED
  BY <1>2, <1>5, <1>6

(* Played commands leave in order, the last of them with its movement.     *)
LEMMA PlayedLinked ==
  ASSUME NEW c, NEW q, NEW s, NEW b, NEW l, Linked(c, q, s, b, l),
         s.queue /= <<>>, s.gate = 0, ~s.ui
  PROVE  Linked(c, q, Played(s), b, l)
<1> DEFINE n == IF s.debt = 0 THEN 1
                ELSE IF s.debt < Len(s.queue) THEN s.debt ELSE Len(s.queue)
           w == SubSeq(s.queue, n + 1, Len(s.queue))
           debt == IF s.debt = 0 THEN 0 ELSE s.debt - n
           t1 == [s EXCEPT !.queue = w, !.moving = s.queue[n].moving]
           t == [t1 EXCEPT !.acked = s.queue[n].seq, !.debt = debt]
<1>1. s \in ServerState /\ Accounted(s) /\ Len(s.queue) <= QueueCap
  BY DEF Linked, Typed, ServerTyped
<1>2. /\ s.queue \in Seq(Command) /\ Len(s.queue) \in Nat /\ Len(s.queue) > 0
      /\ s.debt \in Nat /\ s.debt <= MaxDebt /\ s.acked \in Nat /\ s.received \in Nat
      /\ s.received \in 0 .. MaxSeq
  BY <1>1, ServerNumbers DEF ServerState, Sequence
<1>3. n \in 1 .. Len(s.queue) /\ n \in Nat /\ n > 0
  BY <1>2
<1>4. Played(s) = t
  BY <1>1 DEF Played, ServerState
<1>5. debt \in 0 .. MaxDebt
  BY <1>2, <1>3, Bounds
<1> HIDE DEF n
<1>6. /\ w \in Seq(Command) /\ Len(w) = Len(s.queue) - n
      /\ \A i \in 1 .. Len(w) : i + n \in 1 .. Len(s.queue) /\ w[i] = s.queue[i + n]
  <2>1. n + 1 \in 1 .. Len(s.queue) + 1
    BY <1>2, <1>3
  <2>2. w \in Seq(Command) /\ Len(w) = Len(s.queue) - n
    BY <1>2, <1>3, <2>1
  <2>3. ASSUME NEW i \in 1 .. Len(w)
        PROVE  i + n \in 1 .. Len(s.queue) /\ w[i] = s.queue[i + n]
    <3>1. i + n \in 1 .. Len(s.queue) /\ (n + 1) + i - 1 = i + n
      BY <1>2, <1>3, <2>2
    <3>2. w[i] = s.queue[(n + 1) + i - 1]
      BY <1>2, <1>3, <2>2
    <3> QED
      BY <3>1, <3>2
  <2> QED
    BY <2>2, <2>3
<1>7. s.queue[n] \in Command /\ s.queue[n].seq = s.acked + n
        /\ s.received = s.acked + Len(s.queue)
  BY <1>1, <1>2, <1>3 DEF Accounted
<1>8. s.queue[n].moving \in BOOLEAN /\ s.queue[n].seq \in Sequence /\ s.queue[n].seq > 0
  <2>1. s.queue[n].seq \in 1 .. MaxSeq /\ s.queue[n].moving \in BOOLEAN
    BY <1>7 DEF Command
  <2> QED
    BY <2>1, Bounds DEF Sequence
<1> HIDE DEF w, debt
<1>9. /\ t1 \in ServerState /\ t1.queue = w /\ t1.epoch = s.epoch
      /\ t1.received = s.received /\ t1.place = s.place /\ t1.gate = s.gate /\ t1.ui = s.ui
  BY <1>1, <1>6, <1>8 DEF ServerState
<1> HIDE DEF t1
<1>10. /\ t \in ServerState /\ t.queue = w /\ t.epoch = s.epoch /\ t.received = s.received
       /\ t.place = s.place /\ t.gate = s.gate /\ t.ui = s.ui
       /\ t.acked = s.queue[n].seq
  BY <1>5, <1>8, <1>9 DEF ServerState
<1> HIDE DEF t
<1>11. t.acked = s.acked + n /\ s.acked <= t.acked /\ t.acked > 0
  BY <1>2, <1>3, <1>7, <1>8, <1>10
<1>12. ServerTyped(t)
  BY <1>1, <1>2, <1>3, <1>6, <1>10, Bounds DEF ServerTyped
<1>13. Accounted(t)
  <2>1. ASSUME NEW i \in 1 .. Len(w)
        PROVE  w[i].epoch = s.epoch /\ w[i].seq = t.acked + i
    <3>1. i + n \in 1 .. Len(s.queue) /\ w[i] = s.queue[i + n]
      BY <1>6
    <3>2. s.queue[i + n].epoch = s.epoch /\ s.queue[i + n].seq = s.acked + (i + n)
      BY <1>1, <3>1 DEF Accounted
    <3> QED
      BY <1>2, <1>3, <1>6, <1>11, <3>1, <3>2
  <2>2. t.received = t.acked + Len(t.queue)
    BY <1>2, <1>3, <1>6, <1>7, <1>10, <1>11
  <2> QED
    BY <1>10, <1>11, <2>1, <2>2 DEF Accounted
<1> QED
  BY <1>4, <1>6, <1>10, <1>11, <1>12, <1>13, Consumed

LEMMA TakenLinked ==
  ASSUME NEW c, NEW q, NEW s, NEW b, NEW l, Linked(c, q, s, b, l)
  PROVE  Linked(c, q, TakeForTick(s), b, l) /\ Linked(c, q, AckedAsIdle(s), b, l)
<1>1. s \in ServerState /\ Accounted(s) /\ Len(s.queue) <= QueueCap
  BY DEF Linked, Typed, ServerTyped
<1>2. s.gate \in Nat /\ s.debt \in Nat /\ s.gate \in 0 .. GateTicks /\ s.debt \in 0 .. MaxDebt
  BY <1>1, ServerNumbers DEF ServerState
<1>3. Linked(c, q, AckedAsIdle(s), b, l)
  BY <1>1, <1>2, AckedAsIdleFlushed, FlushedLinked
<1>4. CASE s.ui
  BY <1>3, <1>4 DEF TakeForTick
<1>5. CASE ~s.ui /\ s.gate > 0
  <2> DEFINE gate == s.gate - 1
  <2>1. gate \in 0 .. GateTicks
    BY <1>2, <1>5, Bounds
  <2>2. AckedAsIdle(s).gate = s.gate
    <3>1. Idle(s) \in ServerState /\ Idle(s).gate = s.gate
      BY <1>1, IdleFields
    <3> QED
      BY <3>1 DEF AckedAsIdle, ServerState
  <2>3. TakeForTick(s) = [AckedAsIdle(s) EXCEPT !.gate = gate]
    BY <1>5, <2>2 DEF TakeForTick
  <2> HIDE DEF gate
  <2> QED
    BY <1>1, <1>3, <2>1, <2>3, AckedAsIdleFlushed, FlushedLinked
<1>6. CASE ~s.ui /\ s.gate = 0 /\ s.queue = <<>>
  <2> DEFINE debt == IF s.debt < MaxDebt THEN s.debt + 1 ELSE s.debt
             t == [s EXCEPT !.debt = debt]
  <2>1. debt \in 0 .. MaxDebt
    BY <1>2, Bounds
  <2>2. TakeForTick(s) = t
    BY <1>1, <1>2, <1>6 DEF TakeForTick, Continued, ServerState
  <2> HIDE DEF debt
  <2>3. /\ t \in ServerState /\ t.queue = s.queue /\ t.epoch = s.epoch
        /\ t.received = s.received /\ t.acked = s.acked /\ t.place = s.place
        /\ t.moving = s.moving /\ t.gate = s.gate /\ t.ui = s.ui
    BY <1>1, <2>1 DEF ServerState
  <2> HIDE DEF t
  <2>4. ServerTyped(t) /\ Accounted(t)
    BY <1>1, <2>3 DEF ServerTyped, Accounted
  <2>5. s.acked <= t.acked
    BY <1>1, <2>3, ServerNumbers
  <2> QED
    BY <1>3, <2>2, <2>3, <2>4, <2>5, Consumed
<1>7. CASE ~s.ui /\ s.gate = 0 /\ s.queue /= <<>>
  <2>1. TakeForTick(s) = Played(s)
    BY <1>7 DEF TakeForTick
  <2> QED
    BY <1>3, <1>7, <2>1, PlayedLinked
<1> QED
  BY <1>2, <1>3, <1>4, <1>5, <1>6, <1>7

(* A snapshot tells what the session has accounted for.                    *)
LEMMA PublishedLinked ==
  ASSUME NEW c, NEW q, NEW s, NEW b, NEW l, Linked(c, q, s, b, l)
  PROVE  Linked(c, q, s, Published(b, s), l)
<1>1. CASE Len(b) < BackCap
  <2> DEFINE x == [epoch |-> s.epoch, ack |-> s.acked, place |-> s.place]
             r == Append(b, x)
  <2>1. /\ c \in ClientState /\ s \in ServerState /\ b \in Seq(Snapshot) /\ Accounted(s)
    BY DEF Linked, Typed, ClientTyped, ServerTyped
  <2>2. x \in Snapshot /\ x.epoch = s.epoch /\ x.ack = s.acked /\ x.place = s.place
    BY <2>1, ServerNumbers DEF Snapshot
  <2>3. Published(b, s) = r
    BY <1>1 DEF Published
  <2> SUFFICES Linked(c, q, s, r, l)
    BY <2>3
  <2> HIDE DEF x
  <2>4. /\ r \in Seq(Snapshot) /\ Len(r) = Len(b) + 1 /\ Len(b) \in Nat
        /\ \A i \in 1 .. Len(b) : r[i] = b[i]
        /\ r[Len(b) + 1] = x
    BY <2>1, <2>2, AppendParts
  <2> HIDE DEF r
  <2>5. \A i \in 1 .. Len(r) : i \in 1 .. Len(b) \/ i = Len(b) + 1
    BY <2>4
  <2>6. /\ c.epoch \in Nat /\ s.epoch \in Nat /\ c.epoch <= s.epoch /\ s.acked \in Nat
        /\ s.received \in Nat /\ s.acked <= s.received /\ c.seq \in Nat
        /\ s.received = 0 => s.acked = 0
    BY <2>1, ClientNumbers, ServerNumbers, AckedIsReceived DEF Linked, Chained
  <2>7. Typed(c, q, s, r)
    <3>1. Len(r) <= BackCap
      BY <1>1, <2>4, Bounds
    <3> QED
      BY <2>4, <3>1 DEF Linked, Typed
  <2>8. Chained(c, s, r)
    <3>1. \A i \in 1 .. Len(r) : c.epoch <= r[i].epoch /\ r[i].epoch <= s.epoch
      BY <2>2, <2>4, <2>5, <2>6 DEF Linked, Chained
    <3>2. \A i, k \in 1 .. Len(r) : i < k => r[i].epoch <= r[k].epoch
      <4> SUFFICES ASSUME NEW i \in 1 .. Len(r), NEW k \in 1 .. Len(r), i < k
                   PROVE  r[i].epoch <= r[k].epoch
        OBVIOUS
      <4>1. i \in 1 .. Len(b) /\ r[i] = b[i]
        BY <2>4
      <4>2. CASE k \in 1 .. Len(b)
        BY <2>4, <4>1, <4>2 DEF Linked, Chained
      <4>3. CASE k = Len(b) + 1
        <5>1. r[k].epoch = s.epoch
          BY <2>2, <2>4, <4>3
        <5> QED
          BY <3>1, <5>1
      <4> QED
        BY <2>5, <4>2, <4>3
    <3> QED
      BY <3>1, <3>2 DEF Linked, Chained
  <2>9. Placed(c, s, r)
    <3>1. \A i \in 1 .. Len(r) :
            /\ r[i].epoch = s.epoch => r[i].place = s.place
            /\ r[i].epoch = c.epoch => r[i].place = c.replica.place
      BY <2>2, <2>4, <2>5 DEF Linked, Placed
    <3>2. \A i, k \in 1 .. Len(r) : r[i].epoch = r[k].epoch => r[i].place = r[k].place
      <4> SUFFICES ASSUME NEW i \in 1 .. Len(r), NEW k \in 1 .. Len(r), r[i].epoch = r[k].epoch
                   PROVE  r[i].place = r[k].place
        OBVIOUS
      <4>1. CASE i \in 1 .. Len(b) /\ k \in 1 .. Len(b)
        BY <2>4, <4>1 DEF Linked, Placed
      <4>2. CASE i = Len(b) + 1 \/ k = Len(b) + 1
        <5>1. r[i].epoch = s.epoch /\ r[k].epoch = s.epoch
          BY <2>2, <2>4, <4>2
        <5> QED
          BY <3>1, <5>1
      <4> QED
        BY <2>5, <4>1, <4>2
    <3> QED
      BY <3>1, <3>2 DEF Linked, Placed
  <2>10. Acknowledged(c, s, r)
    <3>1. x.epoch = c.epoch => x.ack <= c.seq
      BY <2>2, <2>6 DEF Linked, Numbered
    <3>2. x.epoch > c.epoch => x.ack = 0
      BY <2>2, <2>6 DEF Linked, Numbered
    <3>3. x.ack <= s.acked
      BY <2>2, <2>6
    <3> QED
      BY <2>4, <2>5, <3>1, <3>2, <3>3 DEF Linked, Acknowledged
  <2> QED
    BY <2>7, <2>8, <2>9, <2>10 DEF Linked
<1>2. CASE ~(Len(b) < BackCap)
  BY <1>2 DEF Published
<1> QED
  BY <1>1, <1>2

(* Snapshots of the pipe are purged from behind.                           *)
LEMMA PurgedLinked ==
  ASSUME NEW c, NEW q, NEW s, NEW b, NEW l, Linked(c, q, s, b, l), NEW sent \in 0 .. Len(b)
  PROVE  Linked(c, q, s, SubSeq(b, 1, sent), l)
<1> DEFINE r == SubSeq(b, 1, sent)
<1> SUFFICES Linked(c, q, s, r, l)
  OBVIOUS
<1>1. b \in Seq(Snapshot) /\ Len(b) \in Nat /\ Len(b) <= BackCap
  BY DEF Linked, Typed
<1>2. /\ r \in Seq(Snapshot) /\ Len(r) = sent
      /\ \A i \in 1 .. Len(r) : i \in 1 .. Len(b) /\ r[i] = b[i]
  BY <1>1
<1> HIDE DEF r
<1>3. Typed(c, q, s, r)
  BY <1>1, <1>2, Bounds DEF Linked, Typed
<1>4. Chained(c, s, r)
  BY <1>2 DEF Linked, Chained
<1>5. Placed(c, s, r)
  BY <1>2 DEF Linked, Placed
<1>6. Acknowledged(c, s, r)
  BY <1>2 DEF Linked, Acknowledged
<1> QED
  BY <1>3, <1>4, <1>5, <1>6 DEF Linked

(* The player is moved: a new epoch, of which nobody has heard.            *)
LEMMA BumpedLinked ==
  ASSUME NEW c, NEW q, NEW s, NEW b, NEW l, Linked(c, q, s, b, l), s.epoch < MaxEpoch,
         NEW t \in ServerState, t.epoch = s.epoch + 1, t.received = 0, t.acked = 0,
         Len(t.queue) = 0, ~t.moving
  PROVE  Linked(c, q, t, b, FALSE)
<1>1. /\ c \in ClientState /\ s \in ServerState /\ q \in Seq(Message) /\ b \in Seq(Snapshot)
  BY DEF Linked, Typed, ClientTyped, ServerTyped
<1>2. /\ c.epoch \in Nat /\ s.epoch \in Nat /\ c.epoch <= s.epoch /\ s.epoch < t.epoch
      /\ c.epoch < t.epoch /\ t.epoch \in Nat
  BY <1>1, ClientNumbers, ServerNumbers DEF Linked, Chained
<1>3. ASSUME NEW i \in 1 .. Len(b)
      PROVE  b[i].epoch < t.epoch /\ b[i].epoch <= t.epoch /\ b[i].epoch /= t.epoch
  <2>1. b[i].epoch \in Nat /\ b[i].epoch <= s.epoch
    BY <1>1, SnapshotParts DEF Linked, Chained
  <2> QED
    BY <1>2, <2>1
<1>4. ASSUME NEW i \in 1 .. Len(q), q[i] /= HeldCancel
      PROVE  q[i].epoch /= t.epoch
  <2>1. q[i] \in Message
    BY <1>1
  <2>2. q[i].epoch \in Nat /\ q[i].epoch <= c.epoch
    BY <1>4, <2>1, MessageParts DEF Linked, Numbered
  <2> QED
    BY <1>2, <2>2
<1>5. Typed(c, q, t, b)
  BY Bounds DEF Linked, Typed, ServerTyped
<1>6. Chained(c, t, b)
  BY <1>2, <1>3 DEF Linked, Chained
<1>7. Placed(c, t, b)
  BY <1>2, <1>3 DEF Linked, Placed
<1>8. Numbered(c, q, t)
  BY <1>2, <1>4 DEF Linked, Numbered
<1>9. Acknowledged(c, t, b)
  BY <1>3 DEF Linked, Acknowledged
<1>10. Accounted(t)
  <2>1. 1 .. Len(t.queue) = {}
    OBVIOUS
  <2> QED
    BY <2>1 DEF Accounted
<1>11. Whole(c, q, t, FALSE) /\ Replayed(c, q, t)
  BY <1>2 DEF Whole, Replayed
<1> QED
  BY <1>5, <1>6, <1>7, <1>8, <1>9, <1>10, <1>11 DEF Linked

LEMMA BumpedFields ==
  ASSUME NEW s \in ServerState, s.epoch < MaxEpoch
  PROVE  LET t == Bumped(s) IN
         /\ t \in ServerState /\ t.epoch = s.epoch + 1 /\ t.received = 0 /\ t.acked = 0
         /\ Len(t.queue) = 0 /\ ~t.moving /\ t.place = s.place
<1> DEFINE e == Idle(s)
           n == s.epoch + 1
           t1 == [e EXCEPT !.epoch = n, !.received = 0]
           t2 == [t1 EXCEPT !.acked = 0, !.gate = 0]
           t == [t2 EXCEPT !.ui = FALSE]
<1>1. /\ e \in ServerState /\ Len(e.queue) = 0 /\ ~e.moving /\ e.epoch = s.epoch
      /\ e.place = s.place
  BY IdleFields
<1>2. n \in Epoch /\ 0 \in Sequence /\ 0 \in 0 .. GateTicks
  BY ServerNumbers, Bounds DEF Epoch, Sequence
<1>3. Bumped(s) = t
  BY <1>1 DEF Bumped, ServerState
<1> HIDE DEF e, n
<1>4. /\ t1 \in ServerState /\ t1.epoch = n /\ t1.received = 0 /\ Len(t1.queue) = 0
      /\ ~t1.moving /\ t1.place = s.place
  BY <1>1, <1>2 DEF ServerState
<1> HIDE DEF t1
<1>5. /\ t2 \in ServerState /\ t2.epoch = n /\ t2.received = 0 /\ t2.acked = 0
      /\ Len(t2.queue) = 0 /\ ~t2.moving /\ t2.place = s.place
  BY <1>2, <1>4 DEF ServerState
<1> HIDE DEF t2
<1>6. /\ t \in ServerState /\ t.epoch = n /\ t.received = 0 /\ t.acked = 0
      /\ Len(t.queue) = 0 /\ ~t.moving /\ t.place = s.place
  BY <1>5 DEF ServerState
<1> QED
  BY <1>3, <1>6 DEF n

-----------------------------------------------------------------------------
(***************************************************************************)
(* The actions                                                             *)
(***************************************************************************)
LEMMA InitInv == Init => InputInv
<1> SUFFICES ASSUME Init PROVE InputInv
  OBVIOUS
<1>1. Start \in Place /\ 0 \in Epoch /\ 0 \in Sequence
  BY Bounds DEF Start, Place, Epoch, Sequence
<1>2. client \in ClientState
  BY <1>1 DEF Init, ClientState
<1>3. server \in ServerState
  BY <1>1, Bounds DEF Init, ServerState
<1>4. Typed(client, chan, server, back)
  <2>1. /\ Len(server.queue) = 0 /\ Len(chan) = 0 /\ Len(back) = 0
        /\ chan \in Seq(Message) /\ back \in Seq(Snapshot)
    BY DEF Init
  <2>2. IsFiniteSet(client.pending) /\ Cardinality(client.pending) = 0
    BY FS_EmptySet DEF Init
  <2> QED
    BY <1>2, <1>3, <2>1, <2>2, Bounds DEF Typed, ClientTyped, ServerTyped
<1>5. Chained(client, server, back) /\ Placed(client, server, back)
  BY DEF Init, Chained, Placed
<1>6. Numbered(client, chan, server) /\ Acknowledged(client, server, back)
  BY DEF Init, Numbered, Acknowledged
<1>7. Accounted(server) /\ Replayed(client, chan, server)
  BY DEF Init, Accounted, Replayed
<1>8. Whole(client, chan, server, lost)
  <2>1. \A n \in Nat : ~(0 < n /\ n <= 0)
    OBVIOUS
  <2> QED
    BY <2>1 DEF Init, Whole
<1>9. rate \in 0 .. Allowance /\ lost \in BOOLEAN
  <2>1. 0 \in 0 .. Allowance
    BY Bounds
  <2>2. rate = 0 /\ lost = FALSE
    BY DEF Init
  <2> QED
    BY <2>1, <2>2
<1> QED
  BY <1>4, <1>5, <1>6, <1>7, <1>8, <1>9 DEF InputInv, Linked

LEMMA SendStep ==
  ASSUME InputInv, NEW moving \in BOOLEAN, SendCommand(moving), moving => ~Fading(client),
         UNCHANGED <<rate, server, back>>
  PROVE  InputInv'
<1> DEFINE cmd == Minted(client, moving)
<1>1. Linked(client, chan, server, back, lost)
  BY DEF InputInv
<1>2. WithEpoch(client) = client
  BY <1>1 DEF Linked, Chained, WithEpoch
<1>3. /\ ~WindowFull(client) /\ client.seq < MaxSeq
      /\ client' = Sent(client, cmd)
      /\ IF CanEnqueue(chan)
         THEN chan' = Append(chan, cmd) /\ UNCHANGED lost
         ELSE UNCHANGED chan /\ lost' = (lost \/ cmd.epoch = server.epoch)
  BY <1>2 DEF SendCommand
<1>4. cmd.epoch = client.epoch
  BY DEF Minted
<1>5. CASE CanEnqueue(chan)
  <2>1. Linked(Sent(client, cmd), Append(chan, cmd), server, back, lost)
    BY <1>1, <1>3, <1>5, SendQueued
  <2> QED
    BY <1>3, <1>5, <2>1 DEF InputInv
<1>6. CASE ~CanEnqueue(chan)
  <2> DEFINE l == lost \/ cmd.epoch = server.epoch
  <2>1. (client.epoch = server.epoch) => l
    BY <1>4
  <2>2. Linked(Sent(client, cmd), chan, server, back, l)
    BY <1>1, <1>3, <2>1, SendRefused
  <2> QED
    BY <1>3, <1>6, <2>2 DEF InputInv
<1> QED
  BY <1>5, <1>6

LEMMA ArmStep ==
  ASSUME InputInv, ArmHeldCancel, UNCHANGED <<rate, server, back>>
  PROVE  InputInv'
<1> DEFINE x == [epoch |-> client.predEpoch, target |-> client.lastSent]
           d == [client EXCEPT !.barrier = x]
<1>1. Linked(client, chan, server, back, lost)
  BY DEF InputInv
<1>2. x \in [epoch : Epoch, target : Sequence] \cup {NoBarrier}
  BY <1>1, ClientNumbers DEF Linked, Typed, ClientTyped
<1>3. client' = d
  BY DEF ArmHeldCancel
<1> HIDE DEF x
<1>4. Linked(d, chan, server, back, lost)
  BY <1>1, <1>2, BarrierKept
<1> HIDE DEF d
<1>5. Linked(d, chan', server, back, lost)
  <2>1. CASE Len(chan) < InputCap
    BY <1>4, <2>1, CancelQueued DEF ArmHeldCancel
  <2>2. CASE ~(Len(chan) < InputCap)
    BY <1>4, <2>2 DEF ArmHeldCancel
  <2> QED
    BY <2>1, <2>2
<1> QED
  BY <1>3, <1>5 DEF InputInv, ArmHeldCancel

LEMMA ClientTickStep ==
  ASSUME InputInv, ClientTick
  PROVE  InputInv'
<1>1. FALSE \in BOOLEAN /\ TRUE \in BOOLEAN
  OBVIOUS
<1> QED
  BY <1>1, ArmStep, SendStep DEF ClientTick

LEMMA FocusLossStep ==
  ASSUME InputInv, FocusLoss
  PROVE  InputInv'
<1>1. UNCHANGED <<rate, server, back>>
  BY DEF FocusLoss
<1>2. CASE ArmHeldCancel
  BY <1>1, <1>2, ArmStep
<1>3. CASE SendCommand(FALSE)
  BY <1>1, <1>3, SendStep
<1>4. CASE UNCHANGED <<client, chan, lost>>
  BY <1>1, <1>4 DEF InputInv
<1> QED
  BY <1>2, <1>3, <1>4 DEF FocusLoss

(* What a snapshot leaves of the client.                                   *)
LEMMA SnapshotStep ==
  ASSUME InputInv, ApplySnapshot
  PROVE  /\ InputInv'
         /\ ~Fading(client') =>
              \A cmd \in client'.pending : cmd.epoch = client'.replica.epoch
<1> DEFINE snap == Head(back)
           c == Adopted(client, snap)
<1>1. Linked(client, chan, server, back, lost)
  BY DEF InputInv
<1>2. /\ Linked(c, chan, server, Tail(back), lost) /\ snap \in Snapshot
      /\ snap.epoch = c.epoch /\ snap.ack <= c.seq
      /\ snap.epoch = server.epoch => snap.ack <= server.acked
  BY <1>1, AdoptedLinked DEF ApplySnapshot
<1>3. /\ client' = IF Fading(c) THEN c ELSE Synced(c, snap)
      /\ back' = Tail(back) /\ UNCHANGED <<chan, rate, server, lost>>
  BY DEF ApplySnapshot, Adopted
<1> HIDE DEF c, snap
<1>4. CASE Fading(c)
  BY <1>2, <1>3, <1>4 DEF InputInv, Fading
<1>5. CASE ~Fading(c)
  <2>1. /\ Linked(Synced(c, snap), chan, server, Tail(back), lost)
        /\ \A cmd \in Synced(c, snap).pending : cmd.epoch = snap.epoch
        /\ Synced(c, snap).replica = c.replica
    BY <1>2, SyncedLinked
  <2>2. c.replica.epoch = snap.epoch
    BY <1>2 DEF Linked, Chained
  <2> QED
    BY <1>3, <1>5, <2>1, <2>2 DEF InputInv
<1> QED
  BY <1>4, <1>5

LEMMA SwapStep ==
  ASSUME InputInv, SwapBaseline
  PROVE  InputInv'
BY SwappedLinked DEF SwapBaseline, InputInv

LEMMA ReceiveStep ==
  ASSUME InputInv, Receive
  PROVE  InputInv'
<1> DEFINE m == Head(chan)
           t == Tail(chan)
<1>1. /\ Linked(client, chan, server, back, lost) /\ chan /= <<>>
      /\ chan' = t /\ UNCHANGED <<client, back>> /\ rate \in 0 .. Allowance
      /\ lost \in BOOLEAN
  BY DEF InputInv, Receive
<1>2. rate' \in 0 .. Allowance
  BY <1>1, Bounds DEF Receive
<1>3. CASE Refuse(m)
  <2> DEFINE l == lost \/ Misses(m)
  <2>1. /\ lost => l
        /\ m /= HeldCancel /\ m.epoch = server.epoch /\ m.seq > server.received => l
    BY DEF Misses
  <2>2. Linked(client, t, server, back, l)
    BY <1>1, <2>1, HeadDropped
  <2>3. l \in BOOLEAN
    BY DEF Misses
  <2>4. server' = server /\ lost' = l
    BY <1>3 DEF Refuse
  <2> HIDE DEF l, t
  <2> QED
    BY <1>1, <1>2, <2>2, <2>3, <2>4 DEF InputInv
<1>4. CASE m = HeldCancel /\ server' = Cancelled(server) /\ UNCHANGED lost
  <2>1. Linked(client, t, server, back, lost)
    BY <1>1, <1>4, HeadDropped
  <2>2. Flushed(server, Cancelled(server))
    <3>1. server \in ServerState /\ FALSE \in BOOLEAN
      BY <1>1 DEF Linked, Typed, ServerTyped
    <3> QED
      BY <3>1, CancelledFlushed
  <2>3. Linked(client, t, Cancelled(server), back, lost)
    BY <2>1, <2>2, FlushedLinked
  <2> QED
    BY <1>1, <1>2, <1>4, <2>3 DEF InputInv
<1>5. CASE m /= HeldCancel /\ Accepts(server, m) /\ server' = Queued(server, m) /\ UNCHANGED lost
  <2>1. Linked(client, t, Queued(server, m), back, lost)
    BY <1>1, <1>5, HeadQueued
  <2> QED
    BY <1>1, <1>2, <1>5, <2>1 DEF InputInv
<1> QED
  BY <1>3, <1>4, <1>5 DEF Receive, Handle

LEMMA WindowStep ==
  ASSUME InputInv, NextRateWindow
  PROVE  InputInv'
BY Bounds DEF InputInv, NextRateWindow

LEMMA ServerTickStep ==
  ASSUME InputInv, ServerTick
  PROVE  InputInv'
<1>1. PICK s \in {AckedAsIdle(server), TakeForTick(server)} :
        /\ server' = s /\ back' = Published(back, s)
        /\ UNCHANGED <<client, chan, rate, lost>>
  BY DEF ServerTick
<1>2. Linked(client, chan, s, back, lost)
  BY TakenLinked DEF InputInv
<1>3. Linked(client, chan, s, Published(back, s), lost)
  BY <1>2, PublishedLinked
<1> QED
  BY <1>1, <1>3 DEF InputInv

LEMMA RespawnStep ==
  ASSUME InputInv, Respawn
  PROVE  InputInv'
<1>1. server \in ServerState /\ server.epoch < MaxEpoch
  BY DEF InputInv, Linked, Typed, ServerTyped, Respawn
<1>2. Linked(client, chan, Bumped(server), back, FALSE)
  BY <1>1, BumpedFields, BumpedLinked DEF InputInv
<1> QED
  BY <1>2 DEF InputInv, Respawn

LEMMA RelocateStep ==
  ASSUME InputInv, Relocate
  PROVE  InputInv'
<1>1. server \in ServerState /\ server.epoch < MaxEpoch
  BY DEF InputInv, Linked, Typed, ServerTyped, Relocate
<1>2. PICK part \in {"map", "channel"}, sent \in 0 .. Len(back) :
        /\ server' = [Bumped(server) EXCEPT !.gate = GateTicks, !.place[part] = server.epoch + 1]
        /\ back' = Published(SubSeq(back, 1, sent), server')
  BY DEF Relocate
<1> DEFINE u == Bumped(server)
           n == server.epoch + 1
           p == [u.place EXCEPT ![part] = n]
           g == [u EXCEPT !.gate = GateTicks]
           s == [g EXCEPT !.place = p]
<1>3. /\ u \in ServerState /\ u.epoch = n /\ u.received = 0 /\ u.acked = 0
      /\ Len(u.queue) = 0 /\ ~u.moving
  BY <1>1, BumpedFields
<1>4. n \in Epoch /\ u.place \in Place
  BY <1>1, <1>3, ServerNumbers, Bounds DEF Epoch
<1>5. server' = s
  BY <1>2, <1>3 DEF ServerState
<1> HIDE DEF u, n
<1>6. p \in Place
  BY <1>4 DEF Place
<1> HIDE DEF p
<1>7. /\ s \in ServerState /\ s.epoch = n /\ s.received = 0 /\ s.acked = 0
      /\ Len(s.queue) = 0 /\ ~s.moving
  <2>1. GateTicks \in 0 .. GateTicks
    BY Bounds
  <2>2. /\ g \in ServerState /\ g.epoch = n /\ g.received = 0 /\ g.acked = 0
        /\ g.queue = u.queue /\ g.moving = u.moving
    BY <1>3, <2>1 DEF ServerState
  <2> HIDE DEF g
  <2>3. /\ s \in ServerState /\ s.epoch = n /\ s.received = 0 /\ s.acked = 0
        /\ s.queue = u.queue /\ s.moving = u.moving
    BY <1>6, <2>2 DEF ServerState
  <2> HIDE DEF s
  <2> QED
    BY <1>3, <2>3
<1> HIDE DEF s
<1>8. Linked(client, chan, server, SubSeq(back, 1, sent), lost)
  BY PurgedLinked DEF InputInv
<1>9. Linked(client, chan, s, SubSeq(back, 1, sent), FALSE)
  BY <1>1, <1>7, <1>8, BumpedLinked DEF n
<1>10. Linked(client, chan, s, Published(SubSeq(back, 1, sent), s), FALSE)
  BY <1>9, PublishedLinked
<1>11. back' = Published(SubSeq(back, 1, sent), s)
  BY <1>2, <1>5
<1>12. lost' = FALSE /\ UNCHANGED <<client, chan, rate>>
  BY DEF Relocate
<1> QED
  BY <1>5, <1>10, <1>11, <1>12 DEF InputInv

LEMMA UiLockStep ==
  ASSUME InputInv, SetUiLock
  PROVE  InputInv'
<1> DEFINE ui == ~server.ui
<1>1. server \in ServerState
  BY DEF InputInv, Linked, Typed, ServerTyped
<1>2. ui \in BOOLEAN /\ server' = [Cancelled(server) EXCEPT !.ui = ui]
  BY DEF SetUiLock
<1> HIDE DEF ui
<1>3. Flushed(server, [Cancelled(server) EXCEPT !.ui = ui])
  BY <1>1, <1>2, CancelledFlushed
<1>4. Linked(client, chan, [Cancelled(server) EXCEPT !.ui = ui], back, lost)
  BY <1>3, FlushedLinked DEF InputInv
<1> QED
  BY <1>2, <1>4 DEF InputInv, SetUiLock

LEMMA StepInv == InputInv /\ [Next]_vars => InputInv'
<1> SUFFICES ASSUME InputInv, [Next]_vars PROVE InputInv'
  OBVIOUS
<1>1. CASE ClientTick \/ FocusLoss
  BY <1>1, ClientTickStep, FocusLossStep
<1>2. CASE ApplySnapshot \/ SwapBaseline
  BY <1>2, SnapshotStep, SwapStep
<1>3. CASE Receive \/ NextRateWindow
  BY <1>3, ReceiveStep, WindowStep
<1>4. CASE ServerTick \/ Respawn
  BY <1>4, ServerTickStep, RespawnStep
<1>5. CASE Relocate \/ SetUiLock
  BY <1>5, RelocateStep, UiLockStep
<1>6. CASE UNCHANGED vars
  BY <1>6 DEF vars, InputInv
<1> QED
  BY <1>1, <1>2, <1>3, <1>4, <1>5, <1>6 DEF Next

(* Client, stream and session account for every command alike, with queues *)
(* of any size: no command is refused for a gap nobody made, none leaves   *)
(* the queue (SessionInput) without being acknowledged or is played after  *)
(* it was, no movement outlives a move, a lock or a gate, and whatever the *)
(* server may still play is in the window the client replays (Prediction). *)
THEOREM InputSound == Spec => []InputIsSound
BY InitInv, StepInv, InvIsSound, PTL DEF Spec

(* A snapshot that reaches prediction (sync_from_replica) leaves commands  *)
(* of one epoch in the window, its own.                                    *)
THEOREM WindowOfOneEpoch == Spec => WindowIsOfOneEpoch
<1>1. InputInv /\ [Next]_vars =>
        [ApplySnapshot /\ ~Fading(client') =>
           \A cmd \in client'.pending : cmd.epoch = client'.replica.epoch]_vars
  BY SnapshotStep
<1> QED
  BY <1>1, InitInv, StepInv, PTL DEF Spec, WindowIsOfOneEpoch

-----------------------------------------------------------------------------
(***************************************************************************)
(* The session of the client                                               *)
(***************************************************************************)

(* The lifecycle that the phase of the network thread amounts to.          *)
Served(at) ==
  CASE at \in {"starting", "connecting"} -> "Connecting"
    [] at = "hello" -> "Handshaking"
    [] at = "live" -> "Connected"

IsConnect(c) == c.kind = "connect"
IsServing(n) == n.at # "idle"
Shown == {"Handshaking", "Connected"}
Over == {"Disconnected", "Rejected"}

(* line[n] is the state of the lifecycle after the first n of the events    *)
(* es, each event of the active attempt being legal when it is applied.     *)
Along(state, active, es, line) ==
  /\ line \in [0 .. Len(es) -> State] /\ line[0] = state
  /\ \A n \in 1 .. Len(es) :
       /\ es[n].attempt # active => line[n] = line[n - 1]
       /\ es[n].attempt = active =>
            line[n - 1] \in LegalIn[es[n].kind]
              /\ line[n] = StateAfter(line[n - 1], es[n].kind)

(* Once all that is coming is applied, the application shows what the       *)
(* network thread does.                                                     *)
Fits(last, active, n, q) ==
  /\ IsServing(n) /\ n.attempt = active => last = Served(n.at)
  /\ ~IsServing(n) \/ n.attempt # active => last \notin Shown
  /\ \A i \in 1 .. Len(q) : IsConnect(q[i]) /\ q[i].attempt = active => last = "Connecting"

(* Attempts are taken up in the order of their numbers, and nothing is      *)
(* reported of one before it is taken up.                                   *)
Ordered(a, es, n, q) ==
  /\ a.active <= a.next /\ n.attempt <= a.next
  /\ \A k \in 1 .. Len(es) : es[k].attempt <= a.next
  /\ \A i \in 1 .. Len(q) : IsConnect(q[i]) =>
       /\ q[i].attempt <= a.next /\ n.attempt < q[i].attempt
       /\ \A k \in 1 .. Len(es) : es[k].attempt < q[i].attempt
       /\ \A j \in 1 .. Len(q) : i < j /\ IsConnect(q[j]) => q[i].attempt < q[j].attempt

(* A session or a Connect is of the active attempt exactly when no          *)
(* Disconnect has been asked for since its stamp.                           *)
Stamped(active, c, n, q) ==
  /\ n.epoch <= c
  /\ IsServing(n) => (n.attempt = active <=> n.epoch = c)
  /\ \A i \in 1 .. Len(q) : IsConnect(q[i]) =>
       q[i].epoch <= c /\ (q[i].attempt = active <=> q[i].epoch = c)

(* An attempt is served by a session that runs; a frontend that is not      *)
(* disconnected has one; events are held back only in the middle of a poll. *)
Shaped(a, n, in, p) ==
  /\ IsServing(n) <=> n.attempt # NoAttempt
  /\ a.session # "Disconnected" => a.active # NoAttempt
  /\ ~p => in = <<>>

Agree(a, c, es, n, q) ==
  /\ \E line : Along(a.state, a.active, es, line) /\ Fits(line[Len(es)], a.active, n, q)
  /\ Ordered(a, es, n, q) /\ Stamped(a.active, c, n, q)

AgreeInv ==
  /\ SessionTypeOK /\ Agree(app, cut, EventsComing, net, commands) /\ Shaped(app, net, inbox, polling)

AppState ==
  [screen : {"Connection", "Game"}, state : State,
   active : Attempt \cup {NoAttempt}, next : 0 .. MaxAttempt,
   session : {"Disconnected", "Pending", "Ready"},
   handoff : {"idle", "waiting", "world"}, creating : BOOLEAN]
NetState ==
  [at : {"idle", "starting", "connecting", "hello", "live"},
   attempt : Attempt \cup {NoAttempt}, epoch : 0 .. MaxCut,
   ready : BOOLEAN, entering : BOOLEAN, owed : SUBSET Request, observer : 0 .. MaxObserver]

-----------------------------------------------------------------------------

LEMMA LeastNumber ==
  ASSUME NEW T \in SUBSET Nat, T # {}
  PROVE  \E x \in T : \A y \in T : x <= y
<1> DEFINE F == {0 .. x : x \in T}
<1>1. IsWellFoundedOn(StrictSubsetOrdering(Nat), FiniteSubsetsOf(Nat))
  BY FS_StrictSubsetOrderingWellFounded
<1>2. F \subseteq FiniteSubsetsOf(Nat) /\ F # {}
  <2>1. \A x \in Nat : IsFiniteSet(0 .. x) /\ 0 .. x \in SUBSET Nat
    BY FS_Interval
  <2> QED
    BY <2>1 DEF FiniteSubsetsOf
<1>3. PICK m \in F : \A f \in F : <<f, m>> \notin StrictSubsetOrdering(Nat)
  BY <1>1, <1>2, WFMin
<1>4. PICK x \in T : m = 0 .. x
  OBVIOUS
<1>5. ASSUME NEW y \in T, y < x PROVE FALSE
  <2>1. 0 .. y \subseteq 0 .. x /\ 0 .. y # 0 .. x /\ 0 .. x \subseteq Nat
    BY <1>5
  <2>2. <<0 .. y, 0 .. x>> \in StrictSubsetOrdering(Nat)
    BY <2>1 DEF StrictSubsetOrdering
  <2> QED
    BY <1>3, <1>4, <2>2
<1> QED
  BY <1>5

LEMMA SessionBounds ==
  /\ MaxAttempt \in Nat /\ MaxCut \in Nat /\ MaxObserver \in Nat
  /\ CmdCap \in Nat /\ EventCap \in Nat /\ FrameCap \in Nat
  /\ MaxAttempt > 0 /\ CmdCap > 0 /\ EventCap > 0 /\ FrameCap > 0
BY SessionAssumption DEF SessionAssumption

LEMMA AttemptNumbers ==
  /\ \A k \in Attempt : k \in Nat /\ k > 0 /\ k # NoAttempt
  /\ \A k \in Attempt \cup {NoAttempt} : k \in Nat
  /\ NoAttempt \in Nat
BY SessionBounds DEF Attempt, NoAttempt

(* is_legal, kind by kind                                                  *)
LEMMA LegalKinds ==
  /\ LegalIn["connecting"] = {"Connecting"} /\ LegalIn["handshaking"] = {"Connecting"}
  /\ LegalIn["sessionReady"] = {"Handshaking"} /\ LegalIn["rejected"] = {"Handshaking"}
  /\ LegalIn["disconnected"] = {"Connecting", "Handshaking", "Connected"}
  /\ LegalIn["enterRejected"] = {"Connected"} /\ LegalIn["gameplayReady"] = {"Connected"}
  /\ LegalIn["createResult"] = {"Connected"}
BY DEF LegalIn, EventKind, Terminal

LEMMA Kinds ==
  ASSUME NEW k \in EventKind
  PROVE  k \in {"connecting", "handshaking", "sessionReady", "rejected", "disconnected",
                "enterRejected", "gameplayReady", "createResult"}
BY DEF EventKind, Terminal

LEMMA NeverOver ==
  ASSUME NEW k \in EventKind
  PROVE  LegalIn[k] \cap Over = {}
BY Kinds, LegalKinds DEF Over

LEMMA OnlyTerminalHides ==
  ASSUME NEW k \in EventKind, NEW s \in Shown, s \in LegalIn[k], k \notin Terminal
  PROVE  StateAfter(s, k) \in Shown
BY Kinds, LegalKinds DEF Shown, Terminal, StateAfter

LEMMA StateAfterState ==
  ASSUME NEW k \in EventKind, NEW s \in State
  PROVE  StateAfter(s, k) \in State
BY Kinds DEF State, StateAfter

LEMMA EventParts ==
  ASSUME NEW e \in Event
  PROVE  /\ e.kind \in EventKind /\ e.attempt \in Attempt /\ e.attempt \in Nat
         /\ e.attempt # NoAttempt /\ e.kind # "frame"
BY AttemptNumbers DEF Event, EventKind, Terminal

LEMMA CommandParts ==
  ASSUME NEW c \in RuntimeCommand
  PROVE  /\ c.attempt \in Attempt /\ c.attempt \in Nat /\ c.attempt # NoAttempt
         /\ IsConnect(c) => c.epoch \in 0 .. MaxCut /\ c.epoch \in Nat
BY AttemptNumbers, SessionBounds DEF RuntimeCommand, IsConnect, Request

LEMMA NetParts ==
  ASSUME NEW n \in NetState
  PROVE  n.attempt \in Nat /\ n.epoch \in Nat /\ n.attempt \in Attempt \cup {NoAttempt}
BY AttemptNumbers, SessionBounds DEF NetState

LEMMA AppParts ==
  ASSUME NEW a \in AppState
  PROVE  /\ a.active \in Attempt \cup {NoAttempt} /\ a.active \in Nat /\ a.next \in Nat
         /\ a.state \in State
BY AttemptNumbers, SessionBounds DEF AppState

LEMMA Elements ==
  ASSUME NEW E, NEW s \in Seq(E), NEW i \in 1 .. Len(s)
  PROVE  s[i] \in E
OBVIOUS

-----------------------------------------------------------------------------
(***************************************************************************)
(* The line of states along the events                                     *)
(***************************************************************************)

(* A recursion over the numbers to N has its values.                       *)
LEMMA EventsRun ==
  ASSUME NEW a, NEW es, Len(es) \in Nat
  PROVE  LET after == AfterEvents(a, es)
         IN  after = [n \in 0 .. Len(es) |->
                        IF n = 0 THEN a ELSE AppliedEvent(es[n], after[n - 1])]
<1> DEFINE Run(n, g) ==
             g = [k \in 0 .. n |-> IF k = 0 THEN a ELSE AppliedEvent(es[k], g[k - 1])]
           T == {n \in Nat : ~\E g : Run(n, g)}
<1>1. ASSUME T # {} PROVE FALSE
  <2>1. T \in SUBSET Nat
    OBVIOUS
  <2> HIDE DEF T
  <2>2. PICK x \in T : \A y \in T : x <= y
    BY <1>1, <2>1, LeastNumber
  <2>3. x \in Nat /\ ~\E g : Run(x, g)
    BY <2>2 DEF T
  <2>4. CASE x = 0
    <3>1. Run(0, [k \in 0 .. 0 |-> a])
      OBVIOUS
    <3> QED
      BY <2>3, <2>4, <3>1
  <2>5. CASE x # 0
    <3>1. x - 1 \in Nat /\ ~(x <= x - 1)
      BY <2>3, <2>5
    <3>2. x - 1 \notin T
      BY <2>2, <3>1
    <3>3. PICK g : Run(x - 1, g)
      BY <3>1, <3>2 DEF T
    <3> DEFINE h == [k \in 0 .. x |-> IF k = x THEN AppliedEvent(es[x], g[x - 1]) ELSE g[k]]
    <3>4. \A k \in 0 .. x - 1 : g[k] = IF k = 0 THEN a ELSE AppliedEvent(es[k], g[k - 1])
      BY <3>3
    <3>5. \A k \in 0 .. x : k = x \/ k \in 0 .. x - 1
      BY <2>3
    <3>6. ASSUME NEW k \in 0 .. x
          PROVE  h[k] = IF k = 0 THEN a ELSE AppliedEvent(es[k], h[k - 1])
      <4>1. CASE k = x
        <5>1. h[k - 1] = g[k - 1] /\ k # 0
          BY <2>3, <2>5, <4>1
        <5> QED
          BY <4>1, <5>1
      <4>2. CASE k # x /\ k = 0
        BY <4>2, <3>4, <2>3, <3>5
      <4>3. CASE k # x /\ k # 0
        <5>1. k \in 0 .. x - 1 /\ k - 1 \in 0 .. x /\ k - 1 # x
          BY <4>3, <2>3
        <5>2. h[k] = g[k] /\ h[k - 1] = g[k - 1]
          BY <4>3, <5>1
        <5> HIDE DEF h
        <5> QED
          BY <4>3, <5>1, <5>2, <3>4
      <4> QED
        BY <4>1, <4>2, <4>3
    <3>7. h = [k \in 0 .. x |-> h[k]]
      OBVIOUS
    <3> HIDE DEF h
    <3>8. Run(x, h)
      BY <3>6, <3>7
    <3> QED
      BY <2>3, <3>8
  <2> QED
    BY <2>4, <2>5
<1>2. \E g : Run(Len(es), g)
  BY <1>1
<1> QED
  BY <1>2 DEF AfterEvents

LEMMA AlongStates ==
  ASSUME NEW st, NEW act, NEW es \in Seq(Event), NEW line, Along(st, act, es, line)
  PROVE  /\ Len(es) \in Nat /\ line[0] = st /\ line[Len(es)] \in State
         /\ \A n \in 0 .. Len(es) : line[n] \in State
<1>1. Len(es) \in Nat
  OBVIOUS
<1>3. Len(es) \in 0 .. Len(es)
  BY <1>1
<1> QED
  BY <1>1, <1>3 DEF Along

LEMMA AlongStep ==
  ASSUME NEW st, NEW act, NEW es \in Seq(Event), NEW line, Along(st, act, es, line),
         NEW n \in 1 .. Len(es)
  PROVE  /\ n \in 0 .. Len(es) /\ n - 1 \in 0 .. Len(es)
         /\ es[n] \in Event /\ es[n].kind \in EventKind
         /\ line[n] \in State /\ line[n - 1] \in State
         /\ es[n].attempt # act => line[n] = line[n - 1]
         /\ es[n].attempt = act =>
              line[n - 1] \in LegalIn[es[n].kind]
                /\ line[n] = StateAfter(line[n - 1], es[n].kind)
<1>1. n \in 0 .. Len(es) /\ n - 1 \in 0 .. Len(es) /\ es[n] \in Event
  BY AlongStates, Elements
<1> QED
  BY <1>1, AlongStates, EventParts DEF Along

(* What holds of the first state and is kept by each event holds along.    *)
LEMMA AlongKeeps ==
  ASSUME NEW st, NEW act, NEW es \in Seq(Event), NEW line, Along(st, act, es, line),
         NEW P, st \in P,
         \A n \in 1 .. Len(es) : line[n - 1] \in P => line[n] \in P
  PROVE  \A n \in 0 .. Len(es) : line[n] \in P
<1> DEFINE T == {n \in 0 .. Len(es) : line[n] \notin P}
<1> SUFFICES ASSUME T # {} PROVE FALSE
  OBVIOUS
<1>1. T \in SUBSET Nat
  OBVIOUS
<1> HIDE DEF T
<1>2. PICK x \in T : \A y \in T : x <= y
  BY <1>1, LeastNumber
<1>3. x \in 0 .. Len(es) /\ line[x] \notin P
  BY <1>2 DEF T
<1>4. x # 0
  BY <1>3, AlongStates
<1>5. x \in 1 .. Len(es) /\ x - 1 \in 0 .. Len(es) /\ ~(x <= x - 1)
  BY <1>3, <1>4, AlongStates
<1>6. x - 1 \notin T
  BY <1>2, <1>5
<1>7. line[x - 1] \in P
  BY <1>5, <1>6 DEF T
<1> QED
  BY <1>3, <1>5, <1>7

LEMMA AlongAppend ==
  ASSUME NEW st \in State, NEW act, NEW es \in Seq(Event), NEW line,
         Along(st, act, es, line),
         NEW e \in Event, e.attempt = act => line[Len(es)] \in LegalIn[e.kind]
  PROVE  \E next :
           /\ Along(st, act, Append(es, e), next)
           /\ next[Len(Append(es, e))] =
                IF e.attempt = act THEN StateAfter(line[Len(es)], e.kind) ELSE line[Len(es)]
<1> DEFINE L == Len(es)
           last == IF e.attempt = act THEN StateAfter(line[L], e.kind) ELSE line[L]
           next == [n \in 0 .. L + 1 |-> IF n = L + 1 THEN last ELSE line[n]]
           fs == Append(es, e)
<1>1. L \in Nat /\ fs \in Seq(Event) /\ Len(fs) = L + 1 /\ fs[L + 1] = e
  OBVIOUS
<1>2. \A n \in 1 .. L : fs[n] = es[n]
  OBVIOUS
<1>3. last \in State
  BY AlongStates, StateAfterState, EventParts
<1> HIDE DEF last
<1>4. \A n \in 0 .. L + 1 : n = L + 1 \/ n \in 0 .. L
  BY <1>1
<1>5. next \in [0 .. L + 1 -> State]
  BY <1>3, <1>4, AlongStates
<1>6. next[0] = st /\ next[L + 1] = last /\ next[L] = line[L]
  <2>1. {0, L, L + 1} \subseteq 0 .. L + 1 /\ 0 # L + 1 /\ L # L + 1
    BY <1>1
  <2>2. line[0] = st
    BY AlongStates
  <2> QED
    BY <2>1, <2>2
<1>7. ASSUME NEW n \in 1 .. L + 1
      PROVE  /\ fs[n].attempt # act => next[n] = next[n - 1]
             /\ fs[n].attempt = act =>
                  next[n - 1] \in LegalIn[fs[n].kind]
                    /\ next[n] = StateAfter(next[n - 1], fs[n].kind)
  <2>1. CASE n = L + 1
    BY <1>1, <1>6, <2>1 DEF last
  <2>2. CASE n # L + 1
    <3>1. n \in 1 .. L /\ n - 1 \in 0 .. L /\ n \in 0 .. L
      BY <1>1, <2>2
    <3>2. next[n] = line[n] /\ next[n - 1] = line[n - 1]
      BY <1>1, <3>1, <2>2
    <3>3. fs[n] = es[n]
      BY <1>2, <3>1
    <3> HIDE DEF next, fs
    <3> QED
      BY <3>1, <3>2, <3>3, AlongStep
  <2> QED
    BY <2>1, <2>2
<1> HIDE DEF next, fs
<1>8. Along(st, act, fs, next)
  BY <1>1, <1>5, <1>6, <1>7 DEF Along
<1>9. next[Len(fs)] = last
  BY <1>1, <1>6
<1> QED
  BY <1>8, <1>9 DEF last, fs

LEMMA AlongRest ==
  ASSUME NEW st, NEW act, NEW in \in Seq(Event), NEW es \in Seq(Event), NEW line,
         Along(st, act, in \o es, line)
  PROVE  /\ Along(line[Len(in)], act, es, [n \in 0 .. Len(es) |-> line[n + Len(in)]])
         /\ Len(in \o es) = Len(es) + Len(in)
<1> DEFINE I == Len(in)
           rest == [n \in 0 .. Len(es) |-> line[n + I]]
           all == in \o es
<1>1. all \in Seq(Event) /\ Len(all) = I + Len(es) /\ I \in Nat /\ Len(es) \in Nat
  OBVIOUS
<1>2. \A n \in 1 .. Len(es) : all[n + I] = es[n]
  OBVIOUS
<1> HIDE DEF all, I
<1>3. \A n \in 0 .. Len(es) : n + I \in 0 .. Len(all)
  BY <1>1
<1>4. rest \in [0 .. Len(es) -> State] /\ rest[0] = line[I]
  <2>1. Along(st, act, all, line)
    BY DEF all
  <2>2. \A k \in 0 .. Len(all) : line[k] \in State
    BY <1>1, <2>1, AlongStates
  <2>3. \A n \in 0 .. Len(es) : line[n + I] \in State
    BY <1>3, <2>2
  <2> QED
    BY <1>1, <2>3
<1>5. ASSUME NEW n \in 1 .. Len(es)
      PROVE  /\ es[n].attempt # act => rest[n] = rest[n - 1]
             /\ es[n].attempt = act =>
                  rest[n - 1] \in LegalIn[es[n].kind]
                    /\ rest[n] = StateAfter(rest[n - 1], es[n].kind)
  <2>1. n + I \in 1 .. Len(all) /\ (n + I) - 1 = (n - 1) + I /\ n - 1 \in 0 .. Len(es)
          /\ n \in 0 .. Len(es)
    BY <1>1
  <2>2. rest[n] = line[n + I] /\ rest[n - 1] = line[(n + I) - 1] /\ all[n + I] = es[n]
    BY <2>1, <1>2
  <2>3. Along(st, act, all, line)
    BY DEF all
  <2> DEFINE k == n + I
  <2> HIDE DEF rest, k
  <2>4. k \in 1 .. Len(all)
    BY <2>1 DEF k
  <2>5. /\ all[k].attempt # act => line[k] = line[k - 1]
        /\ all[k].attempt = act =>
             line[k - 1] \in LegalIn[all[k].kind]
               /\ line[k] = StateAfter(line[k - 1], all[k].kind)
    <3>1. all \in Seq(Event)
      BY <1>1
    <3> QED
      BY <3>1, <2>3, <2>4, AlongStep
  <2> QED
    BY <2>2, <2>5 DEF k
<1> HIDE DEF rest
<1>6. Along(line[I], act, es, rest)
  BY <1>4, <1>5 DEF Along
<1> QED
  BY <1>1, <1>6 DEF rest, I, all

(* An attempt of which nothing is reported                                 *)
LEMMA AlongSilent ==
  ASSUME NEW st \in State, NEW act, NEW es \in Seq(Event),
         \A n \in 1 .. Len(es) : es[n].attempt # act
  PROVE  Along(st, act, es, [n \in 0 .. Len(es) |-> st])
<1>1. Len(es) \in Nat
  OBVIOUS
<1>2. \A n \in 1 .. Len(es) : n \in 0 .. Len(es) /\ n - 1 \in 0 .. Len(es)
  BY <1>1
<1> QED
  BY <1>1, <1>2 DEF Along

(* Over is for good: no event of the attempt is legal any more.            *)
LEMMA OverStays ==
  ASSUME NEW st \in Over, NEW act, NEW es \in Seq(Event), NEW line, Along(st, act, es, line)
  PROVE  line[Len(es)] \in Over
<1>1. \A n \in 1 .. Len(es) : line[n - 1] \in Over => line[n] \in Over
  <2> SUFFICES ASSUME NEW n \in 1 .. Len(es), line[n - 1] \in Over PROVE line[n] \in Over
    OBVIOUS
  <2>1. es[n].kind \in EventKind /\ line[n - 1] \notin LegalIn[es[n].kind]
    BY AlongStep, NeverOver
  <2> QED
    BY <2>1, AlongStep
<1>2. \A n \in 0 .. Len(es) : line[n] \in Over
  BY <1>1, AlongKeeps
<1> QED
  BY <1>2, AlongStates

(* A connection that is shown stays until the event that ends it.          *)
LEMMA ShownStays ==
  ASSUME NEW st \in Shown, NEW act, NEW es \in Seq(Event), NEW line, Along(st, act, es, line),
         \A n \in 1 .. Len(es) : ~(es[n].kind \in Terminal /\ es[n].attempt = act)
  PROVE  line[Len(es)] \in Shown
<1>1. \A n \in 1 .. Len(es) : line[n - 1] \in Shown => line[n] \in Shown
  <2> SUFFICES ASSUME NEW n \in 1 .. Len(es), line[n - 1] \in Shown PROVE line[n] \in Shown
    OBVIOUS
  <2>1. CASE es[n].attempt # act
    BY <2>1, AlongStep
  <2>2. CASE es[n].attempt = act
    <3>1. es[n].kind \notin Terminal /\ es[n].kind \in EventKind
      BY <2>2, AlongStep
    <3> QED
      BY <2>2, <3>1, AlongStep, OnlyTerminalHides
  <2> QED
    BY <2>1, <2>2
<1>2. \A n \in 0 .. Len(es) : line[n] \in Shown
  BY <1>1, AlongKeeps
<1> QED
  BY <1>2, AlongStates

(***************************************************************************)
(* The application of an event, of all of them                             *)
(***************************************************************************)
LEMMA AppliedOnce ==
  ASSUME NEW a \in AppState, NEW e \in Event
  PROVE  LET b == AppliedEvent(e, a)
         IN  /\ b \in AppState /\ b.active = a.active /\ b.next = a.next
             /\ (a.session # "Disconnected" => a.active # NoAttempt) =>
                   (b.session # "Disconnected" => b.active # NoAttempt)
             /\ b.state = IF Legal(a, e) THEN StateAfter(a.state, e.kind) ELSE a.state
<1> DEFINE p == Projected(a, e.kind)
           b == AppliedEvent(e, a)
<1>1. CASE ~Legal(a, e)
  BY <1>1 DEF AppliedEvent
<1>2. CASE Legal(a, e)
  <2>1. e.kind \in EventKind /\ StateAfter(a.state, e.kind) \in State
          /\ a.active # NoAttempt
    BY <1>2, EventParts, StateAfterState, AppParts DEF Legal
  <2>2. ScreenAfter(a, e.kind) \in {"Connection", "Game"}
    BY DEF ScreenAfter, AppState
  <2>3. p \in AppState /\ p.active = a.active /\ p.next = a.next /\ p.state = a.state
    BY <2>1, Kinds DEF Projected, AppState, Handed, FrontendLost, Terminal
  <2> HIDE DEF p
  <2>4. b = [p EXCEPT !.state = StateAfter(p.state, e.kind),
          !.screen = ScreenAfter(a, e.kind)]
    BY <1>2 DEF AppliedEvent, p
  <2>5. b \in AppState /\ b.active = p.active /\ b.next = p.next
          /\ b.state = StateAfter(p.state, e.kind)
    <3>1. b = [screen |-> ScreenAfter(a, e.kind), state |-> StateAfter(p.state, e.kind),
               active |-> p.active, next |-> p.next, session |-> p.session,
               handoff |-> p.handoff, creating |-> p.creating]
      BY <2>3, <2>4 DEF AppState
    <3>2. StateAfter(p.state, e.kind) \in State
      BY <2>1, <2>3
    <3> HIDE DEF b
    <3> QED
      BY <3>1, <3>2, <2>2, <2>3 DEF AppState
  <2> QED
    BY <1>2, <2>1, <2>3, <2>5
<1> QED
  BY <1>1, <1>2

LEMMA FramesRun ==
  ASSUME NEW r, NEW fs, Len(fs) \in Nat
  PROVE  LET after == AfterFrames(r, fs)
         IN  after = [n \in 0 .. Len(fs) |->
                        IF n = 0 THEN r ELSE AppliedFrame(fs[n], after[n - 1])]
<1> DEFINE Run(n, g) ==
             g = [k \in 0 .. n |-> IF k = 0 THEN r ELSE AppliedFrame(fs[k], g[k - 1])]
           T == {n \in Nat : ~\E g : Run(n, g)}
<1>1. ASSUME T # {} PROVE FALSE
  <2>1. T \in SUBSET Nat
    OBVIOUS
  <2> HIDE DEF T
  <2>2. PICK x \in T : \A y \in T : x <= y
    BY <1>1, <2>1, LeastNumber
  <2>3. x \in Nat /\ ~\E g : Run(x, g)
    BY <2>2 DEF T
  <2>4. CASE x = 0
    <3>1. Run(0, [k \in 0 .. 0 |-> r])
      OBVIOUS
    <3> QED
      BY <2>3, <2>4, <3>1
  <2>5. CASE x # 0
    <3>1. x - 1 \in Nat /\ ~(x <= x - 1)
      BY <2>3, <2>5
    <3>2. x - 1 \notin T
      BY <2>2, <3>1
    <3>3. PICK g : Run(x - 1, g)
      BY <3>1, <3>2 DEF T
    <3> DEFINE h == [k \in 0 .. x |-> IF k = x THEN AppliedFrame(fs[x], g[x - 1]) ELSE g[k]]
    <3>4. \A k \in 0 .. x - 1 : g[k] = IF k = 0 THEN r ELSE AppliedFrame(fs[k], g[k - 1])
      BY <3>3
    <3>5. \A k \in 0 .. x : k = x \/ k \in 0 .. x - 1
      BY <2>3
    <3>6. ASSUME NEW k \in 0 .. x
          PROVE  h[k] = IF k = 0 THEN r ELSE AppliedFrame(fs[k], h[k - 1])
      <4>1. CASE k = x
        <5>1. h[k - 1] = g[k - 1] /\ k # 0
          BY <2>3, <2>5, <4>1
        <5> QED
          BY <4>1, <5>1
      <4>2. CASE k # x /\ k = 0
        BY <4>2, <3>4, <2>3, <3>5
      <4>3. CASE k # x /\ k # 0
        <5>1. k \in 0 .. x - 1 /\ k - 1 \in 0 .. x /\ k - 1 # x
          BY <4>3, <2>3
        <5>2. h[k] = g[k] /\ h[k - 1] = g[k - 1]
          BY <4>3, <5>1
        <5> HIDE DEF h
        <5> QED
          BY <4>3, <5>1, <5>2, <3>4
      <4> QED
        BY <4>1, <4>2, <4>3
    <3>7. h = [k \in 0 .. x |-> h[k]]
      OBVIOUS
    <3> HIDE DEF h
    <3>8. Run(x, h)
      BY <3>6, <3>7
    <3> QED
      BY <2>3, <3>8
  <2> QED
    BY <2>4, <2>5
<1>2. \E g : Run(Len(fs), g)
  BY <1>1
<1> QED
  BY <1>2 DEF AfterFrames


LEMMA AppliedAlong ==
  ASSUME NEW a \in AppState, NEW es \in Seq(Event), NEW line,
         Along(a.state, a.active, es, line),
         a.session # "Disconnected" => a.active # NoAttempt,
         NEW n \in 0 .. Len(es)
  PROVE  LET b == AfterEvents(a, es)[n]
         IN  /\ b \in AppState /\ b.active = a.active /\ b.next = a.next /\ b.state = line[n]
             /\ b.session # "Disconnected" => b.active # NoAttempt
<1> DEFINE after == AfterEvents(a, es)
           Good(b, m) ==
             /\ b \in AppState /\ b.active = a.active /\ b.next = a.next /\ b.state = line[m]
             /\ b.session # "Disconnected" => b.active # NoAttempt
           T == {m \in 0 .. Len(es) : ~Good(after[m], m)}
<1>0. Len(es) \in Nat
  OBVIOUS
<1>1. \A m \in 0 .. Len(es) :
        after[m] = IF m = 0 THEN a ELSE AppliedEvent(es[m], after[m - 1])
  <2>1. after = [m \in 0 .. Len(es) |-> IF m = 0 THEN a ELSE AppliedEvent(es[m], after[m - 1])]
    BY <1>0, EventsRun
  <2> HIDE DEF after
  <2> QED
    BY <2>1
<1> HIDE DEF after
<1>2. Good(after[0], 0)
  <2>1. after[0] = a
    BY <1>0, <1>1
  <2>2. line[0] = a.state
    BY DEF Along
  <2> QED
    BY <2>1, <2>2
<1>3. ASSUME NEW m \in 1 .. Len(es), Good(after[m - 1], m - 1) PROVE Good(after[m], m)
  <2> DEFINE b == after[m - 1]
             e == es[m]
  <2>1. after[m] = AppliedEvent(e, b)
    BY <1>0, <1>1, <1>3
  <2>2. /\ e \in Event /\ (e.attempt # a.active => line[m] = line[m - 1])
        /\ e.attempt = a.active =>
             line[m - 1] \in LegalIn[e.kind] /\ line[m] = StateAfter(line[m - 1], e.kind)
    BY AlongStep
  <2>3. Good(b, m - 1)
    BY <1>3
  <2> HIDE DEF b, e
  <2>4. Legal(b, e) <=> e.attempt = a.active
    BY <2>2, <2>3 DEF Legal
  <2>5. AppliedEvent(e, b).state = line[m]
    BY <2>2, <2>3, <2>4, AppliedOnce
  <2> DEFINE c == AppliedEvent(e, b)
  <2>6. b \in AppState /\ (b.session # "Disconnected" => b.active # NoAttempt)
    BY <2>3
  <2>7. /\ c \in AppState /\ c.active = b.active /\ c.next = b.next
        /\ c.session # "Disconnected" => c.active # NoAttempt
    BY <2>2, <2>6, AppliedOnce
  <2> HIDE DEF c
  <2>8. Good(c, m)
    BY <2>3, <2>5, <2>7 DEF c
  <2> QED
    BY <2>1, <2>8 DEF c
<1> HIDE DEF Good
<1>4. ASSUME T # {} PROVE FALSE
  <2>1. T \in SUBSET Nat
    OBVIOUS
  <2> HIDE DEF T
  <2>2. PICK x \in T : \A y \in T : x <= y
    BY <1>4, <2>1, LeastNumber
  <2>3. x \in 0 .. Len(es) /\ ~Good(after[x], x)
    BY <2>2 DEF T
  <2>4. x # 0
    BY <2>3, <1>2
  <2>5. x \in 1 .. Len(es) /\ x - 1 \in 0 .. Len(es) /\ ~(x <= x - 1)
    BY <1>0, <2>3, <2>4
  <2>6. Good(after[x - 1], x - 1)
    BY <2>2, <2>5 DEF T
  <2> QED
    BY <1>3, <2>3, <2>5, <2>6
<1>5. Good(after[n], n)
  BY <1>4
<1> QED
  BY <1>5 DEF Good, after

ReplicaState == [epoch : 0 .. MaxObserver, from : SUBSET Attempt]

LEMMA FramesKeepType ==
  ASSUME NEW r \in ReplicaState, NEW fs \in Seq(FrameMsg)
  PROVE  AfterFrames(r, fs)[Len(fs)] \in ReplicaState
<1> DEFINE after == AfterFrames(r, fs)
           T == {m \in 0 .. Len(fs) : after[m] \notin ReplicaState}
<1>0. Len(fs) \in Nat
  OBVIOUS
<1>1. \A m \in 0 .. Len(fs) :
        after[m] = IF m = 0 THEN r ELSE AppliedFrame(fs[m], after[m - 1])
  <2>1. after = [m \in 0 .. Len(fs) |-> IF m = 0 THEN r ELSE AppliedFrame(fs[m], after[m - 1])]
    BY <1>0, FramesRun
  <2> HIDE DEF after
  <2> QED
    BY <2>1
<1> HIDE DEF after
<1>2. after[0] \in ReplicaState
  BY <1>0, <1>1
<1>3. ASSUME NEW m \in 1 .. Len(fs), after[m - 1] \in ReplicaState PROVE after[m] \in ReplicaState
  <2>1. after[m] = AppliedFrame(fs[m], after[m - 1])
    BY <1>0, <1>1
  <2>2. fs[m] \in FrameMsg
    BY Elements
  <2> QED
    BY <1>3, <2>1, <2>2 DEF AppliedFrame, ReplicaState, FrameMsg
<1>4. ASSUME T # {} PROVE FALSE
  <2>1. T \in SUBSET Nat
    OBVIOUS
  <2> HIDE DEF T
  <2>2. PICK x \in T : \A y \in T : x <= y
    BY <1>4, <2>1, LeastNumber
  <2>3. x \in 0 .. Len(fs) /\ after[x] \notin ReplicaState
    BY <2>2 DEF T
  <2>4. x # 0
    BY <2>3, <1>2
  <2>5. x \in 1 .. Len(fs) /\ x - 1 \in 0 .. Len(fs) /\ ~(x <= x - 1)
    BY <1>0, <2>3, <2>4
  <2>6. after[x - 1] \in ReplicaState
    BY <2>2, <2>5 DEF T
  <2> QED
    BY <1>3, <2>3, <2>5, <2>6
<1> QED
  BY <1>0, <1>4 DEF after

-----------------------------------------------------------------------------
(***************************************************************************)
(* What keeps the two sides in agreement                                   *)
(***************************************************************************)

(* The Connects of the queue r are those of q from some place on.          *)
Within(r, q) ==
  \E d \in Nat : \A i \in 1 .. Len(r) :
    IsConnect(r[i]) => i + d \in 1 .. Len(q) /\ r[i] = q[i + d]

LEMMA WithinSame ==
  ASSUME NEW q \in Seq(RuntimeCommand)
  PROVE  Within(q, q)
<1>1. \A i \in 1 .. Len(q) : i + 0 \in 1 .. Len(q) /\ q[i] = q[i + 0]
  OBVIOUS
<1> QED
  BY <1>1 DEF Within

LEMMA WithinTail ==
  ASSUME NEW q \in Seq(RuntimeCommand), q # <<>>
  PROVE  Within(Tail(q), q) /\ Tail(q) \in Seq(RuntimeCommand) /\ Len(Tail(q)) <= Len(q)
<1> DEFINE r == Tail(q)
<1>1. \A i \in 1 .. Len(r) : i + 1 \in 1 .. Len(q) /\ r[i] = q[i + 1]
  OBVIOUS
<1>2. r \in Seq(RuntimeCommand) /\ Len(r) <= Len(q)
  OBVIOUS
<1> HIDE DEF r
<1>3. Within(r, q)
  <2>1. 1 \in Nat
    OBVIOUS
  <2> QED
    BY <1>1, <2>1 DEF Within
<1> QED
  BY <1>2, <1>3 DEF r

LEMMA WithinAsked ==
  ASSUME NEW q \in Seq(RuntimeCommand), NEW c \in RuntimeCommand, ~IsConnect(c)
  PROVE  Within(Append(q, c), q)
<1>1. \A i \in 1 .. Len(Append(q, c)) :
        IsConnect(Append(q, c)[i]) => i + 0 \in 1 .. Len(q) /\ Append(q, c)[i] = q[i + 0]
  OBVIOUS
<1> QED
  BY <1>1 DEF Within

LEMMA DrainedWithin ==
  ASSUME NEW q \in Seq(RuntimeCommand)
  PROVE  /\ Drained(q) \in Seq(RuntimeCommand) /\ Len(Drained(q)) <= Len(q)
         /\ Within(Drained(q), q)
<1> DEFINE others == {i \in 1 .. Len(q) : q[i].kind # "connect"}
           first == CHOOSE i \in others : \A j \in others : i <= j
<1>1. CASE others = {}
  <2>1. Drained(q) = <<>>
    BY <1>1 DEF Drained
  <2>2. Within(<<>>, q)
    BY DEF Within
  <2> QED
    BY <2>1, <2>2
<1>2. CASE others # {}
  <2>1. others \in SUBSET Nat
    OBVIOUS
  <2>2. \E i \in others : \A j \in others : i <= j
    <3> HIDE DEF others
    <3> QED
      BY <1>2, <2>1, LeastNumber
  <2>3. first \in others
    <3> HIDE DEF others
    <3> QED
      BY <2>2
  <2>4. first \in 1 .. Len(q)
    BY <2>3
  <2>5. Drained(q) = SubSeq(q, first + 1, Len(q))
    BY <1>2 DEF Drained
  <2> HIDE DEF first, others
  <2>6. /\ SubSeq(q, first + 1, Len(q)) \in Seq(RuntimeCommand)
        /\ Len(SubSeq(q, first + 1, Len(q))) = Len(q) - first
        /\ \A i \in 1 .. Len(q) - first : SubSeq(q, first + 1, Len(q))[i] = q[i + first]
    BY <2>4
  <2>7. \A i \in 1 .. Len(q) - first : i + first \in 1 .. Len(q)
    BY <2>4
  <2>8. first \in Nat /\ Len(q) - first <= Len(q)
    BY <2>4
  <2> DEFINE r == Drained(q)
  <2>9. /\ r \in Seq(RuntimeCommand) /\ Len(r) = Len(q) - first
        /\ \A i \in 1 .. Len(r) : i + first \in 1 .. Len(q) /\ r[i] = q[i + first]
    BY <2>5, <2>6, <2>7
  <2> HIDE DEF r
  <2>10. Within(r, q)
    BY <2>8, <2>9 DEF Within
  <2> QED
    BY <2>8, <2>9, <2>10 DEF r
<1> QED
  BY <1>1, <1>2

(* A network thread that goes on with its session, as far as the           *)
(* application can tell                                                    *)
GoesOn(m, n) ==
  /\ IsServing(m) <=> IsServing(n)
  /\ m.attempt = n.attempt /\ m.epoch = n.epoch
  /\ IsServing(n) => Served(m.at) = Served(n.at)

SameSession(b, a) == b.state = a.state /\ b.active = a.active /\ b.next = a.next

LEMMA Quiet ==
  ASSUME NEW a, NEW c, NEW es \in Seq(Event), NEW n, NEW q \in Seq(RuntimeCommand),
         Agree(a, c, es, n, q),
         NEW b, SameSession(b, a), NEW m, GoesOn(m, n), NEW r \in Seq(RuntimeCommand), Within(r, q)
  PROVE  Agree(b, c, es, m, r)
<1>0. PICK d \in Nat : \A i \in 1 .. Len(r) :
                         IsConnect(r[i]) => i + d \in 1 .. Len(q) /\ r[i] = q[i + d]
  BY DEF Within
<1>1. PICK line : Along(a.state, a.active, es, line) /\ Fits(line[Len(es)], a.active, n, q)
  BY DEF Agree
<1>2. Along(b.state, b.active, es, line)
  BY <1>1 DEF SameSession
<1>3. Fits(line[Len(es)], b.active, m, r)
  BY <1>0, <1>1 DEF SameSession, Fits, GoesOn
<1>4. Ordered(b, es, m, r)
  <2>1. Ordered(a, es, n, q)
    BY DEF Agree
  <2>2. ASSUME NEW i \in 1 .. Len(r), IsConnect(r[i])
        PROVE  /\ r[i].attempt <= b.next /\ m.attempt < r[i].attempt
               /\ \A k \in 1 .. Len(es) : es[k].attempt < r[i].attempt
               /\ \A j \in 1 .. Len(r) : i < j /\ IsConnect(r[j]) => r[i].attempt < r[j].attempt
    <3>1. i + d \in 1 .. Len(q) /\ r[i] = q[i + d]
      BY <1>0, <2>2
    <3>2. /\ r[i].attempt <= b.next /\ m.attempt < r[i].attempt
          /\ \A k \in 1 .. Len(es) : es[k].attempt < r[i].attempt
      BY <2>1, <2>2, <3>1 DEF Ordered, SameSession, GoesOn
    <3>3. ASSUME NEW j \in 1 .. Len(r), i < j, IsConnect(r[j]) PROVE r[i].attempt < r[j].attempt
      <4>1. j + d \in 1 .. Len(q) /\ r[j] = q[j + d]
        BY <1>0, <3>3
      <4>2. i + d < j + d
        BY <3>3
      <4> QED
        BY <2>1, <2>2, <3>1, <3>3, <4>1, <4>2 DEF Ordered
    <3> QED
      BY <3>2, <3>3
  <2> QED
    BY <2>1, <2>2 DEF Ordered, SameSession, GoesOn
<1>5. Stamped(b.active, c, m, r)
  BY <1>0 DEF Agree, Stamped, SameSession, GoesOn
<1> QED
  BY <1>2, <1>3, <1>4, <1>5 DEF Agree

(* The network thread reports of the attempt it serves.                    *)
Reports(m, n, e) ==
  \/ /\ IsServing(m) /\ m.attempt = n.attempt /\ m.epoch = n.epoch
     /\ Served(m.at) = StateAfter(Served(n.at), e.kind)
  \/ m = NoSession /\ e.kind \in Terminal

LEMMA Emitted ==
  ASSUME NEW a \in AppState, NEW c \in 0 .. MaxCut, NEW es \in Seq(Event), NEW n \in NetState,
         NEW q \in Seq(RuntimeCommand), Agree(a, c, es, n, q),
         NEW e \in Event, IsServing(n), e.attempt = n.attempt,
           Served(n.at) \in LegalIn[e.kind],
         NEW m, Reports(m, n, e)
  PROVE  Agree(a, c, Append(es, e), m, q)
<1> DEFINE fs == Append(es, e)
<1>0. /\ fs \in Seq(Event) /\ Len(fs) = Len(es) + 1 /\ fs[Len(fs)] = e /\ Len(es) \in Nat
      /\ \A k \in 1 .. Len(es) : fs[k] = es[k]
      /\ \A k \in 1 .. Len(fs) : k \in 1 .. Len(es) \/ k = Len(fs)
  OBVIOUS
<1>1. PICK line : Along(a.state, a.active, es, line) /\ Fits(line[Len(es)], a.active, n, q)
  BY DEF Agree
<1>2. e.attempt = a.active => line[Len(es)] = Served(n.at)
  BY <1>1 DEF Fits
<1>3. PICK next :
        /\ Along(a.state, a.active, fs, next)
        /\ next[Len(fs)] =
             IF e.attempt = a.active THEN StateAfter(line[Len(es)], e.kind) ELSE line[Len(es)]
  BY <1>1, <1>2, AlongAppend, AppParts
<1> HIDE DEF fs
<1>4. Ordered(a, es, n, q) /\ Stamped(a.active, c, n, q)
  BY DEF Agree
<1>5. \A i \in 1 .. Len(q) : IsConnect(q[i]) => q[i].attempt # n.attempt
  <2> SUFFICES ASSUME NEW i \in 1 .. Len(q), IsConnect(q[i]) PROVE q[i].attempt # n.attempt
    OBVIOUS
  <2>1. q[i] \in RuntimeCommand /\ n.attempt < q[i].attempt
    BY <1>4, Elements DEF Ordered
  <2> QED
    BY <2>1, CommandParts, NetParts
<1>6. Fits(next[Len(fs)], a.active, m, q)
  <2>1. CASE IsServing(m) /\ m.attempt = n.attempt
          /\ Served(m.at) = StateAfter(Served(n.at), e.kind)
    <3>1. m.attempt = a.active => next[Len(fs)] = Served(m.at)
      BY <1>2, <1>3, <2>1
    <3>2. m.attempt # a.active => next[Len(fs)] \notin Shown
      BY <1>1, <1>3, <2>1 DEF Fits
    <3>3. \A i \in 1 .. Len(q) : IsConnect(q[i]) /\ q[i].attempt = a.active =>
            next[Len(fs)] = "Connecting"
      BY <1>1, <1>3, <1>5 DEF Fits
    <3> QED
      BY <2>1, <3>1, <3>2, <3>3 DEF Fits
  <2>2. CASE m = NoSession /\ e.kind \in Terminal
    <3>1. ~IsServing(m)
      BY <2>2 DEF IsServing, NoSession
    <3>2. next[Len(fs)] \notin Shown
      <4>1. CASE e.attempt = a.active
        BY <1>3, <2>2, <4>1 DEF StateAfter, Terminal, Shown
      <4>2. CASE e.attempt # a.active
        BY <1>1, <1>3, <4>2 DEF Fits
      <4> QED
        BY <4>1, <4>2
    <3>3. \A i \in 1 .. Len(q) : IsConnect(q[i]) /\ q[i].attempt = a.active =>
            next[Len(fs)] = "Connecting"
      BY <1>1, <1>3, <1>5 DEF Fits
    <3> QED
      BY <3>1, <3>2, <3>3 DEF Fits
  <2> QED
    BY <2>1, <2>2 DEF Reports
<1>7. m.attempt \in {n.attempt, 0} /\ m.epoch \in {n.epoch, 0}
  BY DEF Reports, NoSession, NoAttempt
<1>8. Ordered(a, fs, m, q)
  <2>1. m.attempt <= a.next
    BY <1>4, <1>7, AppParts DEF Ordered
  <2>2. \A k \in 1 .. Len(fs) : fs[k].attempt <= a.next
    BY <1>0, <1>4 DEF Ordered
  <2>3. ASSUME NEW i \in 1 .. Len(q), IsConnect(q[i])
        PROVE  /\ q[i].attempt <= a.next /\ m.attempt < q[i].attempt
               /\ \A k \in 1 .. Len(fs) : fs[k].attempt < q[i].attempt
               /\ \A j \in 1 .. Len(q) : i < j /\ IsConnect(q[j]) => q[i].attempt < q[j].attempt
    <3>1. /\ q[i].attempt <= a.next /\ n.attempt < q[i].attempt
          /\ \A k \in 1 .. Len(es) : es[k].attempt < q[i].attempt
          /\ \A j \in 1 .. Len(q) : i < j /\ IsConnect(q[j]) => q[i].attempt < q[j].attempt
      BY <1>4, <2>3 DEF Ordered
    <3>2. 0 < q[i].attempt
      BY CommandParts, Elements, AttemptNumbers
    <3>3. \A k \in 1 .. Len(fs) : fs[k].attempt < q[i].attempt
      BY <1>0, <3>1
    <3> QED
      BY <1>7, <3>1, <3>2, <3>3
  <2> QED
    BY <1>4, <2>1, <2>2, <2>3 DEF Ordered
<1>9. Stamped(a.active, c, m, q)
  <2>1. m.epoch <= c
    BY <1>4, <1>7 DEF Stamped
  <2>2. IsServing(m) => m.attempt = n.attempt /\ m.epoch = n.epoch
    BY DEF Reports, NoSession, IsServing
  <2> QED
    BY <1>4, <2>1, <2>2 DEF Stamped
<1> QED
  BY <1>3, <1>6, <1>8, <1>9 DEF Agree, fs

(* A Connect is taken up.                                                  *)
LEMMA Taken ==
  ASSUME NEW a \in AppState, NEW c \in 0 .. MaxCut, NEW es \in Seq(Event), NEW n \in NetState,
         NEW q \in Seq(RuntimeCommand), Agree(a, c, es, n, q), ~IsServing(n),
         q # <<>>, IsConnect(q[1]), NEW m, IsServing(m), Served(m.at) = "Connecting",
         m.attempt = q[1].attempt, m.epoch = q[1].epoch,
         NEW e \in Event, e.kind = "connecting", e.attempt = q[1].attempt,
         NEW r \in Seq(RuntimeCommand), Within(r, Tail(q))
  PROVE  Agree(a, c, Append(es, e), m, r)
<1> DEFINE fs == Append(es, e)
           t == Tail(q)
<1>0. /\ fs \in Seq(Event) /\ Len(fs) = Len(es) + 1 /\ fs[Len(fs)] = e /\ Len(es) \in Nat
      /\ \A k \in 1 .. Len(es) : fs[k] = es[k]
      /\ \A k \in 1 .. Len(fs) : k \in 1 .. Len(es) \/ k = Len(fs)
  OBVIOUS
<1>t. /\ Len(q) \in Nat /\ Len(t) = Len(q) - 1 /\ 1 \in 1 .. Len(q) /\ t \in Seq(RuntimeCommand)
      /\ \A i \in 1 .. Len(t) : t[i] = q[i + 1] /\ i + 1 \in 1 .. Len(q)
  OBVIOUS
<1> HIDE DEF t
<1>1. PICK line : Along(a.state, a.active, es, line) /\ Fits(line[Len(es)], a.active, n, q)
  BY DEF Agree
<1>2. q[1].attempt = a.active => line[Len(es)] = "Connecting"
  BY <1>1, <1>t DEF Fits
<1>3. PICK next :
        /\ Along(a.state, a.active, fs, next)
        /\ next[Len(fs)] =
             IF e.attempt = a.active THEN StateAfter(line[Len(es)], e.kind) ELSE line[Len(es)]
  <2>1. e.attempt = a.active => line[Len(es)] \in LegalIn[e.kind]
    BY <1>2, LegalKinds
  <2>2. a.state \in State
    BY AppParts
  <2> HIDE DEF fs
  <2> QED
    BY <1>1, <2>1, <2>2, AlongAppend, SMTT(60) DEF fs
<1> HIDE DEF fs
<1>4. Ordered(a, es, n, q) /\ Stamped(a.active, c, n, q)
  BY DEF Agree
<1>d. PICK d \in Nat : \A i \in 1 .. Len(r) :
                         IsConnect(r[i]) => i + d \in 1 .. Len(t) /\ r[i] = t[i + d]
  BY DEF Within, t
<1>5. \A i \in 1 .. Len(r) : IsConnect(r[i]) => (i + d) + 1 \in 1 .. Len(q)
        /\ r[i] = q[(i + d) + 1]
  BY <1>d, <1>t
<1>6. \A i \in 1 .. Len(r) : IsConnect(r[i]) => q[1].attempt < r[i].attempt
  <2> SUFFICES ASSUME NEW i \in 1 .. Len(r), IsConnect(r[i]) PROVE q[1].attempt < r[i].attempt
    OBVIOUS
  <2>1. (i + d) + 1 \in 1 .. Len(q) /\ r[i] = q[(i + d) + 1] /\ 1 < (i + d) + 1
    BY <1>5
  <2> QED
    BY <1>4, <1>t, <2>1 DEF Ordered
<1>n. q[1].attempt \in Nat /\ \A i \in 1 .. Len(r) : r[i].attempt \in Nat
  BY <1>t, CommandParts, Elements
<1>f. Fits(next[Len(fs)], a.active, m, r)
  <2>1. m.attempt = a.active => next[Len(fs)] = Served(m.at)
    BY <1>2, <1>3 DEF StateAfter
  <2>2. m.attempt # a.active => next[Len(fs)] \notin Shown
    BY <1>1, <1>3 DEF Fits
  <2>3. \A i \in 1 .. Len(r) : IsConnect(r[i]) /\ r[i].attempt = a.active =>
          next[Len(fs)] = "Connecting"
    <3> SUFFICES ASSUME NEW i \in 1 .. Len(r), IsConnect(r[i]), r[i].attempt = a.active
                 PROVE  next[Len(fs)] = "Connecting"
      OBVIOUS
    <3>1. e.attempt # a.active
      BY <1>6, <1>n
    <3>2. line[Len(es)] = "Connecting"
      BY <1>1, <1>5 DEF Fits
    <3> QED
      BY <1>3, <3>1, <3>2
  <2> QED
    BY <2>1, <2>2, <2>3 DEF Fits
<1>8. Ordered(a, fs, m, r)
  <2>1. m.attempt <= a.next /\ e.attempt <= a.next
    BY <1>4, <1>t DEF Ordered
  <2>2. \A k \in 1 .. Len(fs) : fs[k].attempt <= a.next
    BY <1>0, <1>4, <2>1 DEF Ordered
  <2>3. ASSUME NEW i \in 1 .. Len(r), IsConnect(r[i])
        PROVE  /\ r[i].attempt <= a.next /\ m.attempt < r[i].attempt
               /\ \A k \in 1 .. Len(fs) : fs[k].attempt < r[i].attempt
               /\ \A j \in 1 .. Len(r) : i < j /\ IsConnect(r[j]) => r[i].attempt < r[j].attempt
    <3>1. (i + d) + 1 \in 1 .. Len(q) /\ r[i] = q[(i + d) + 1]
      BY <1>5, <2>3
    <3>2. r[i].attempt <= a.next /\ \A k \in 1 .. Len(es) : es[k].attempt < r[i].attempt
      BY <1>4, <2>3, <3>1 DEF Ordered
    <3>3. ASSUME NEW j \in 1 .. Len(r), i < j, IsConnect(r[j]) PROVE r[i].attempt < r[j].attempt
      <4>1. (j + d) + 1 \in 1 .. Len(q) /\ r[j] = q[(j + d) + 1]
        BY <1>5, <3>3
      <4>2. (i + d) + 1 < (j + d) + 1
        BY <3>3
      <4> QED
        BY <1>4, <2>3, <3>1, <3>3, <4>1, <4>2 DEF Ordered
    <3>4. q[1].attempt < r[i].attempt
      BY <1>6, <2>3
    <3>5. \A k \in 1 .. Len(fs) : fs[k].attempt < r[i].attempt
      BY <1>0, <3>2, <3>4
    <3> QED
      BY <3>2, <3>3, <3>4, <3>5
  <2> QED
    BY <1>4, <2>1, <2>2, <2>3 DEF Ordered
<1>9. Stamped(a.active, c, m, r)
  BY <1>4, <1>5, <1>t DEF Stamped
<1> QED
  BY <1>3, <1>f, <1>8, <1>9 DEF Agree, fs

(* Nothing is served or queued for an attempt that is over.                *)
LEMMA OverIsUnserved ==
  ASSUME NEW a \in AppState, a.state \in Over, NEW c \in 0 .. MaxCut, NEW es \in Seq(Event),
         NEW n \in NetState, NEW q \in Seq(RuntimeCommand), Agree(a, c, es, n, q)
  PROVE  /\ IsServing(n) => n.attempt # a.active /\ n.epoch # c
         /\ \A i \in 1 .. Len(q) : IsConnect(q[i]) => q[i].attempt # a.active /\ q[i].epoch # c
<1>1. PICK line : Along(a.state, a.active, es, line) /\ Fits(line[Len(es)], a.active, n, q)
  BY DEF Agree
<1>2. line[Len(es)] \in Over
  BY <1>1, OverStays
<1>3. IsServing(n) => Served(n.at) \notin Over
  BY DEF NetState, IsServing, Served, Over
<1>4. IsServing(n) => n.attempt # a.active
  BY <1>1, <1>2, <1>3 DEF Fits
<1>5. \A i \in 1 .. Len(q) : IsConnect(q[i]) => q[i].attempt # a.active
  BY <1>1, <1>2 DEF Fits, Over
<1>6. Stamped(a.active, c, n, q)
  BY DEF Agree
<1> QED
  BY <1>4, <1>5, <1>6 DEF Stamped

(* Another attempt, or none, becomes the active one.                       *)
LEMMA Replaced ==
  ASSUME NEW a \in AppState, NEW c \in 0 .. MaxCut, NEW es \in Seq(Event), NEW n \in NetState,
         NEW q \in Seq(RuntimeCommand), Agree(a, c, es, n, q),
         NEW b \in AppState, b.state \in State \ Shown,
         b.active = NoAttempt \/ b.active > a.next, a.next <= b.next, b.active <= b.next,
         NEW k \in 0 .. MaxCut, c <= k,
         IsServing(n) => n.epoch # k /\ n.attempt # NoAttempt,
         \A i \in 1 .. Len(q) : IsConnect(q[i]) => q[i].epoch # k
  PROVE  Agree(b, k, es, n, q)
<1> DEFINE line == [i \in 0 .. Len(es) |-> b.state]
<1>0. Ordered(a, es, n, q) /\ Stamped(a.active, c, n, q)
  BY DEF Agree
<1>1. \A i \in 1 .. Len(es) : es[i].attempt # b.active
  <2> SUFFICES ASSUME NEW i \in 1 .. Len(es) PROVE es[i].attempt # b.active
    OBVIOUS
  <2>1. es[i].attempt <= a.next /\ es[i].attempt \in Nat /\ es[i].attempt # NoAttempt
    BY <1>0, Elements, EventParts DEF Ordered
  <2> QED
    BY <2>1, AppParts
<1>2. Along(b.state, b.active, es, line) /\ line[Len(es)] = b.state
  BY <1>1, AlongSilent
<1>3. IsServing(n) => n.attempt # b.active
  BY <1>0, AppParts, NetParts DEF Ordered
<1>4. \A i \in 1 .. Len(q) : IsConnect(q[i]) => q[i].attempt # b.active
  <2> SUFFICES ASSUME NEW i \in 1 .. Len(q), IsConnect(q[i]) PROVE q[i].attempt # b.active
    OBVIOUS
  <2>1. q[i].attempt <= a.next /\ q[i].attempt \in Nat /\ q[i].attempt # NoAttempt
    BY <1>0, Elements, CommandParts DEF Ordered
  <2> QED
    BY <2>1, AppParts
<1> HIDE DEF line
<1>5. Fits(line[Len(es)], b.active, n, q)
  BY <1>2, <1>3, <1>4 DEF Fits, Shown, State
<1>6. Ordered(b, es, n, q)
  <2>1. n.attempt <= b.next
    BY <1>0, AppParts, NetParts DEF Ordered
  <2>2. ASSUME NEW i \in 1 .. Len(es) PROVE es[i].attempt <= b.next
    <3>1. es[i].attempt <= a.next /\ es[i].attempt \in Nat
      BY <1>0, Elements, EventParts DEF Ordered
    <3> QED
      BY <3>1, AppParts
  <2>3. ASSUME NEW i \in 1 .. Len(q), IsConnect(q[i]) PROVE q[i].attempt <= b.next
    <3>1. q[i].attempt <= a.next /\ q[i].attempt \in Nat
      BY <1>0, <2>3, Elements, CommandParts DEF Ordered
    <3> QED
      BY <3>1, AppParts
  <2> QED
    BY <1>0, <2>1, <2>2, <2>3 DEF Ordered
<1>7. Stamped(b.active, k, n, q)
  <2>1. n.epoch <= k
    BY <1>0, NetParts, SessionBounds DEF Stamped
  <2>2. ASSUME NEW i \in 1 .. Len(q), IsConnect(q[i]) PROVE q[i].epoch <= k
    <3>1. q[i].epoch <= c /\ q[i].epoch \in Nat
      BY <1>0, <2>2, Elements, CommandParts DEF Stamped
    <3> QED
      BY <3>1, SessionBounds
  <2> QED
    BY <1>3, <1>4, <2>1, <2>2 DEF Stamped
<1> QED
  BY <1>2, <1>5, <1>6, <1>7 DEF Agree


(* The Connect of a new attempt is put behind the others.                  *)
LEMMA Requested ==
  ASSUME NEW b \in AppState, NEW c \in 0 .. MaxCut, NEW es \in Seq(Event), NEW n \in NetState,
         NEW q \in Seq(RuntimeCommand), Agree(b, c, es, n, q), b.state = "Connecting",
         b.active \in Attempt,
         n.attempt < b.active,
         \A i \in 1 .. Len(es) : es[i].attempt < b.active,
         \A i \in 1 .. Len(q) : IsConnect(q[i]) => q[i].attempt < b.active,
         NEW x \in RuntimeCommand, x = [kind |-> "connect", attempt |-> b.active, epoch |-> c]
  PROVE  Agree(b, c, es, n, Append(q, x))
<1> DEFINE r == Append(q, x)
           line == [i \in 0 .. Len(es) |-> b.state]
<1>0. Ordered(b, es, n, q) /\ Stamped(b.active, c, n, q)
  BY DEF Agree
<1>r. /\ \A i \in 1 .. Len(r) : i \in 1 .. Len(q) \/ i = Len(r)
      /\ \A i \in 1 .. Len(q) : r[i] = q[i]
      /\ r[Len(r)] = x /\ Len(r) = Len(q) + 1 /\ Len(q) \in Nat
  OBVIOUS
<1> HIDE DEF r
<1>1. \A i \in 1 .. Len(es) : es[i].attempt # b.active
  BY Elements, EventParts, AppParts
<1>2. Along(b.state, b.active, es, line) /\ line[Len(es)] = b.state
  <2>1. b.state \in State
    BY AppParts
  <2>2. Along(b.state, b.active, es, line)
    BY <1>1, <2>1, AlongSilent
  <2> QED
    BY <2>2
<1>3. n.attempt # b.active
  BY AppParts, NetParts
<1> HIDE DEF line
<1>5. Fits(line[Len(es)], b.active, n, r)
  BY <1>2, <1>3 DEF Fits, Shown
<1>6. Ordered(b, es, n, r)
  <2>1. x.attempt = b.active /\ x.attempt <= b.next
    BY <1>0 DEF Ordered
  <2>2. ASSUME NEW i \in 1 .. Len(r), IsConnect(r[i])
        PROVE  /\ r[i].attempt <= b.next /\ n.attempt < r[i].attempt
               /\ \A k \in 1 .. Len(es) : es[k].attempt < r[i].attempt
    BY <1>0, <1>r, <2>1, <2>2 DEF Ordered
  <2>3. ASSUME NEW i \in 1 .. Len(r), IsConnect(r[i]), NEW j \in 1 .. Len(r), i < j,
          IsConnect(r[j])
        PROVE  r[i].attempt < r[j].attempt
    <3>1. i \in 1 .. Len(q) /\ r[i] = q[i]
      BY <1>r, <2>3
    <3>2. CASE j \in 1 .. Len(q)
      BY <1>0, <1>r, <2>3, <3>1, <3>2 DEF Ordered
    <3>3. CASE j = Len(r)
      BY <1>r, <2>1, <2>3, <3>1, <3>3
    <3> QED
      BY <1>r, <3>2, <3>3
  <2> QED
    BY <1>0, <2>2, <2>3 DEF Ordered
<1>7. Stamped(b.active, c, n, r)
  <2>1. x.attempt = b.active /\ x.epoch = c /\ c <= c
    BY SessionBounds
  <2> QED
    BY <1>0, <1>r, <2>1 DEF Stamped
<1> QED
  BY <1>2, <1>5, <1>6, <1>7 DEF Agree, r

(* The application has applied what it had polled.                         *)
LEMMA Polled ==
  ASSUME NEW a \in AppState, NEW c, NEW in \in Seq(Event), NEW es \in Seq(Event),
         NEW n, NEW q, Agree(a, c, in \o es, n, q),
         a.session # "Disconnected" => a.active # NoAttempt
  PROVE  LET b == AfterEvents(a, in)[Len(in)]
         IN  /\ b \in AppState /\ Agree(b, c, es, n, q)
             /\ b.session # "Disconnected" => b.active # NoAttempt
<1> DEFINE b == AfterEvents(a, in)[Len(in)]
           all == in \o es
<1>0. /\ all \in Seq(Event) /\ Len(in) \in 0 .. Len(in)
      /\ \A i \in 1 .. Len(in) : in[i] = all[i] /\ i \in 1 .. Len(all)
      /\ \A i \in 1 .. Len(es) : es[i] = all[i + Len(in)] /\ i + Len(in) \in 1 .. Len(all)
      /\ Len(all) = Len(es) + Len(in) /\ Len(in) \in Nat /\ Len(es) \in Nat
  OBVIOUS
<1>1. PICK line : Along(a.state, a.active, all, line) /\ Fits(line[Len(all)], a.active, n, q)
  BY DEF Agree
<1> DEFINE first == [k \in 0 .. Len(in) |-> line[k]]
           rest == [k \in 0 .. Len(es) |-> line[k + Len(in)]]
<1>2. Along(line[Len(in)], a.active, es, rest) /\ rest[Len(es)] = line[Len(all)]
  BY <1>0, <1>1, AlongRest
<1>3. Along(a.state, a.active, in, first) /\ first[Len(in)] = line[Len(in)]
  <2>1. \A k \in 0 .. Len(in) : first[k] = line[k] /\ k \in 0 .. Len(all)
    BY <1>0
  <2>2. first \in [0 .. Len(in) -> State] /\ first[0] = a.state
    BY <1>0, <1>1, <2>1 DEF Along
  <2>3. \A k \in 1 .. Len(in) : first[k] = line[k] /\ first[k - 1] = line[k - 1]
    BY <1>0
  <2> HIDE DEF first, all
  <2> QED
    BY <1>0, <1>1, <2>1, <2>2, <2>3 DEF Along
<1> HIDE DEF first, rest
<1>4. /\ b \in AppState /\ b.active = a.active /\ b.next = a.next /\ b.state = line[Len(in)]
      /\ b.session # "Disconnected" => b.active # NoAttempt
  BY <1>0, <1>3, AppliedAlong
<1> HIDE DEF b, all
<1>5. Along(b.state, b.active, es, rest) /\ Fits(rest[Len(es)], b.active, n, q)
  BY <1>1, <1>2, <1>4
<1>6. Ordered(a, all, n, q) /\ Stamped(a.active, c, n, q)
  BY DEF Agree, all
<1>7. Ordered(b, es, n, q) /\ Stamped(b.active, c, n, q)
  BY <1>0, <1>4, <1>6 DEF Ordered
<1> QED
  BY <1>4, <1>5, <1>7 DEF Agree, b

-----------------------------------------------------------------------------
(***************************************************************************)
(* What is on its way                                                      *)
(***************************************************************************)
LEMMA TypeParts ==
  ASSUME SessionTypeOK
  PROVE  /\ app \in AppState /\ net \in NetState /\ replica \in ReplicaState
         /\ inbox \in Seq(Event) /\ polling \in BOOLEAN /\ cut \in 0 .. MaxCut
         /\ commands \in Seq(RuntimeCommand) /\ Len(commands) <= CmdCap
         /\ hold \in Seq(Event \cup FrameMsg) /\ Len(hold) <= 1
         /\ events \in Seq(Event) /\ Len(events) <= EventCap
         /\ frames \in Seq(FrameMsg) /\ Len(frames) <= FrameCap
BY DEF SessionTypeOK, AppState, NetState, ReplicaState

LEMMA TypeMade ==
  ASSUME app' \in AppState, net' \in NetState, replica' \in ReplicaState,
         inbox' \in Seq(Event), polling' \in BOOLEAN, cut' \in 0 .. MaxCut,
         commands' \in Seq(RuntimeCommand), Len(commands') <= CmdCap,
         hold' \in Seq(Event \cup FrameMsg), Len(hold') <= 1,
         events' \in Seq(Event), Len(events') <= EventCap,
         frames' \in Seq(FrameMsg), Len(frames') <= FrameCap
  PROVE  SessionTypeOK'
BY DEF SessionTypeOK, AppState, NetState, ReplicaState

LEMMA Single ==
  ASSUME NEW E, NEW s \in Seq(E), Len(s) <= 1, s # <<>>
  PROVE  Head(s) \in E /\ s = <<Head(s)>>
<1>1. Len(s) \in Nat /\ Len(s) # 0
  OBVIOUS
<1>2. Len(s) = 1
  <2> DEFINE n == Len(s)
  <2>1. n \in Nat /\ n # 0 /\ n <= 1
    BY <1>1
  <2> HIDE DEF n
  <2>2. n = 1
    BY <2>1
  <2> QED
    BY <2>2 DEF n
<1>3. Head(s) = s[1] /\ s[1] \in E
  BY <1>2
<1> QED
  BY <1>2, <1>3

LEMMA One ==
  ASSUME NEW E, NEW s \in Seq(E), Len(s) = 1
  PROVE  s # <<>>
<1> SUFFICES ASSUME s = <<>> PROVE FALSE
  OBVIOUS
<1>1. Len(<<>>) = 0
  OBVIOUS
<1>2. Len(s) = Len(<<>>)
  OBVIOUS
<1>3. 1 = 0
  BY <1>1, <1>2
<1> QED
  BY <1>3

LEMMA HoldCases ==
  ASSUME SessionTypeOK
  PROVE  \/ hold = <<>> /\ HeldEvent = <<>>
         \/ /\ hold # <<>> /\ hold = <<Head(hold)>> /\ Head(hold) \in FrameMsg
            /\ Head(hold).kind = "frame" /\ HeldEvent = <<>>
         \/ /\ hold # <<>> /\ hold = <<Head(hold)>> /\ Head(hold) \in Event
            /\ Head(hold).kind # "frame" /\ HeldEvent = <<Head(hold)>>
<1>1. CASE hold = <<>>
  BY <1>1 DEF HeldEvent
<1>2. CASE hold # <<>>
  <2>1. Head(hold) \in Event \cup FrameMsg /\ hold = <<Head(hold)>>
    BY <1>2, TypeParts, Single
  <2>2. CASE Head(hold) \in FrameMsg
    <3>1. Head(hold).kind = "frame"
      BY <2>2 DEF FrameMsg
    <3> QED
      BY <1>2, <2>1, <2>2, <3>1 DEF HeldEvent
  <2>3. CASE Head(hold) \in Event
    <3>1. Head(hold).kind # "frame"
      BY <2>3, EventParts
    <3> QED
      BY <1>2, <2>1, <2>3, <3>1 DEF HeldEvent
  <2> QED
    BY <2>1, <2>2, <2>3
<1> QED
  BY <1>1, <1>2

LEMMA ComingTyped ==
  ASSUME SessionTypeOK
  PROVE  HeldEvent \in Seq(Event) /\ EventsComing \in Seq(Event)
           /\ events \o HeldEvent \in Seq(Event)
<1>1. HeldEvent \in Seq(Event)
  <2>1. \A e \in Event : <<e>> \in Seq(Event)
    OBVIOUS
  <2>2. <<>> \in Seq(Event)
    OBVIOUS
  <2> QED
    BY <2>1, <2>2, HoldCases
<1> QED
  BY <1>1, TypeParts DEF EventsComing

LEMMA NothingNew ==
  ASSUME UNCHANGED <<inbox, events>>, \/ UNCHANGED hold
                                      \/ HeldEvent = <<>> /\ HeldEvent' = <<>>
  PROVE  EventsComing' = EventsComing
<1>1. HeldEvent' = HeldEvent
  BY DEF HeldEvent
<1> QED
  BY <1>1 DEF EventsComing

LEMMA NewEvent ==
  ASSUME SessionTypeOK, hold = <<>>, NEW e \in Event, hold' = <<e>>, UNCHANGED <<inbox, events>>
  PROVE  EventsComing' = Append(EventsComing, e)
<1>1. e.kind # "frame"
  BY EventParts
<1>2. HeldEvent = <<>> /\ HeldEvent' = <<e>>
  BY <1>1 DEF HeldEvent
<1>3. inbox \in Seq(Event) /\ events \in Seq(Event)
  BY TypeParts
<1>4. \A a, b \in Seq(Event) : a \o b \o <<e>> = Append(a \o b \o <<>>, e)
  OBVIOUS
<1> QED
  BY <1>2, <1>3, <1>4 DEF EventsComing

LEMMA Invariant ==
  ASSUME AgreeInv
  PROVE  SessionTypeOK /\ Agree(app, cut, EventsComing, net, commands)
           /\ Shaped(app, net, inbox, polling)
BY DEF AgreeInv

LEMMA IdleTyped ==
  NoSession \in NetState /\ ~IsServing(NoSession) /\ NoSession.attempt = NoAttempt
BY SessionBounds DEF NoSession, NetState, IsServing, NoAttempt

LEMMA LostTyped ==
  ASSUME NEW a \in AppState
  PROVE  /\ FrontendLost(a) \in AppState /\ FrontendLost(a).session = "Disconnected"
         /\ FrontendLost(a).state = a.state /\ FrontendLost(a).active = a.active
         /\ FrontendLost(a).next = a.next /\ FrontendLost(a).screen = a.screen
BY DEF FrontendLost, AppState

-----------------------------------------------------------------------------
(***************************************************************************)
(* The application thread                                                  *)
(***************************************************************************)
LEMMA Began ==
  ASSUME NEW a \in AppState, NEW i \in Attempt
  PROVE  LET b == [a EXCEPT !.next = i, !.active = i, !.state = "Connecting",
               !.screen = "Connection",
                   !.session = "Pending"]
         IN b \in AppState /\ b.state = "Connecting" /\ b.active = i /\ b.next = i
<1> DEFINE f == [a EXCEPT !.next = i]
           g == [f EXCEPT !.active = i]
           b == [g EXCEPT !.state = "Connecting", !.screen = "Connection", !.session = "Pending"]
<1>1. f \in AppState /\ f.next = i
  BY SessionBounds DEF AppState, Attempt
<1> HIDE DEF f
<1>2. g \in AppState /\ g.next = i /\ g.active = i
  BY <1>1 DEF AppState
<1> HIDE DEF g
<1>3. b \in AppState /\ b.next = i /\ b.active = i /\ b.state = "Connecting"
  BY <1>2 DEF AppState, State
<1> QED
  BY <1>3 DEF g, f

LEMMA RequestConnectStep ==
  ASSUME AgreeInv, RequestConnect
  PROVE  AgreeInv'
<1> USE Invariant
<1> DEFINE id == app.next + 1
           begun == [app EXCEPT !.next = id, !.active = id, !.state = "Connecting",
                                !.screen = "Connection", !.session = "Pending"]
           x == [kind |-> "connect", attempt |-> id, epoch |-> cut]
<1>1. /\ app.state \in {"Disconnected", "Rejected"} /\ app.next < MaxAttempt
      /\ commands' = IF Len(commands) < CmdCap THEN Append(commands, x) ELSE commands
      /\ app' = IF Len(commands) < CmdCap THEN begun ELSE FailUnsent(begun)
      /\ UNCHANGED <<inbox, polling, replica, cut, net, hold, events, frames>>
  BY DEF RequestConnect, Send, IsSent, Stamp
<1>2. EventsComing' = EventsComing /\ EventsComing \in Seq(Event)
  BY <1>1, NothingNew, ComingTyped
<1>3. id \in Attempt /\ id \in 1 .. MaxAttempt /\ id \in Nat /\ id > app.next
        /\ id # NoAttempt
  BY <1>1, TypeParts, SessionBounds DEF AppState, Attempt, NoAttempt
<1>4. x \in RuntimeCommand /\ x.kind = "connect"
  BY <1>3, TypeParts DEF RuntimeCommand
<1> HIDE DEF id
<1>5. /\ begun \in AppState /\ begun.state = "Connecting" /\ begun.active = id /\ begun.next = id
  BY <1>3, TypeParts, Began
<1> DEFINE failed == FailUnsent(begun)
<1>6. /\ failed \in AppState /\ failed.state = "Disconnected" /\ failed.active = NoAttempt
      /\ failed.next = id /\ failed.session = "Disconnected"
  <2> HIDE DEF begun
  <2> DEFINE f == FrontendLost(begun)
  <2>1. f \in AppState /\ f.next = id /\ f.session = "Disconnected"
    BY <1>5, LostTyped
  <2> HIDE DEF f
  <2>2. failed = [f EXCEPT !.active = NoAttempt, !.state = "Disconnected"]
    BY DEF failed, FailUnsent, f
  <2> QED
    BY <2>1, <2>2 DEF AppState, State
<1>7. /\ IsServing(net) => net.epoch # cut /\ net.attempt # NoAttempt
      /\ \A i \in 1 .. Len(commands) : IsConnect(commands[i]) => commands[i].epoch # cut
  <2>1. app.state \in Over
    BY <1>1 DEF Over
  <2> QED
    BY <2>1, <1>2, TypeParts, OverIsUnserved DEF Shaped
<1> HIDE DEF begun, failed
<1>8. cut \in Nat /\ cut <= cut /\ cut \in 0 .. MaxCut
  BY TypeParts, SessionBounds
<1>9. ASSUME NEW b \in {begun, failed} PROVE Agree(b, cut, EventsComing, net, commands)
  <2>1. /\ b \in AppState /\ b.state \in State \ Shown /\ app.next <= b.next
             /\ b.active <= b.next
        /\ b.active = NoAttempt \/ b.active > app.next
    BY <1>3, <1>5, <1>6, TypeParts, AppParts DEF State, Shown, NoAttempt
  <2> QED
    BY <1>2, <1>7, <1>8, <2>1, TypeParts, Replaced
<1>10. CASE Len(commands) < CmdCap
  <2>1. app' = begun /\ commands' = Append(commands, x)
    BY <1>1, <1>10 DEF begun
  <2>2. Ordered(app, EventsComing, net, commands)
    BY DEF Agree
  <2>3. net.attempt < id
    BY <1>3, <2>2, TypeParts, NetParts, AppParts DEF Ordered
  <2>4. \A i \in 1 .. Len(EventsComing) : EventsComing[i].attempt < id
    <3> SUFFICES ASSUME NEW i \in 1 .. Len(EventsComing) PROVE EventsComing[i].attempt < id
      OBVIOUS
    <3>1. EventsComing[i].attempt <= app.next /\ EventsComing[i].attempt \in Nat
      BY <1>2, <2>2, Elements, EventParts DEF Ordered
    <3> QED
      BY <1>3, <3>1, TypeParts, AppParts
  <2>5. \A i \in 1 .. Len(commands) : IsConnect(commands[i]) => commands[i].attempt < id
    <3> SUFFICES ASSUME NEW i \in 1 .. Len(commands), IsConnect(commands[i])
                 PROVE  commands[i].attempt < id
      OBVIOUS
    <3>1. commands[i].attempt <= app.next /\ commands[i].attempt \in Nat
      BY <2>2, TypeParts, Elements, CommandParts DEF Ordered
    <3> QED
      BY <1>3, <3>1, TypeParts, AppParts
  <2>6. Agree(begun, cut, EventsComing, net, Append(commands, x))
    <3>1. Agree(begun, cut, EventsComing, net, commands)
      BY <1>9
    <3> HIDE DEF x
    <3>2. x = [kind |-> "connect", attempt |-> begun.active, epoch |-> cut]
      BY <1>5 DEF x
    <3> QED
      BY <1>2, <1>3, <1>4, <1>5, <2>3, <2>4, <2>5, <3>1, <3>2, TypeParts, Requested
  <2> HIDE DEF x
  <2>7. Append(commands, x) \in Seq(RuntimeCommand) /\ Len(Append(commands, x)) <= CmdCap
    BY <1>4, <1>10, TypeParts, SessionBounds
  <2>8. SessionTypeOK'
    <3>1. app' \in AppState /\ commands' \in Seq(RuntimeCommand) /\ Len(commands') <= CmdCap
      BY <1>5, <2>1, <2>7
    <3> QED
      BY <1>1, <3>1, TypeParts, TypeMade
  <2>9. Shaped(app', net', inbox', polling')
    BY <1>1, <1>3, <1>5, <2>1 DEF Shaped
  <2> QED
    BY <1>1, <1>2, <2>1, <2>6, <2>8, <2>9 DEF AgreeInv
<1>11. CASE ~(Len(commands) < CmdCap)
  <2>1. app' = failed /\ commands' = commands
    BY <1>1, <1>11 DEF failed, begun
  <2>2. SessionTypeOK'
    <3>1. app' \in AppState
      BY <1>6, <2>1
    <3> QED
      BY <1>1, <2>1, <3>1, TypeParts, TypeMade
  <2>3. Shaped(app', net', inbox', polling')
    BY <1>1, <1>6, <2>1 DEF Shaped
  <2>4. Agree(app', cut', EventsComing', net', commands')
    BY <1>1, <1>2, <1>9, <2>1
  <2> QED
    BY <2>2, <2>3, <2>4 DEF AgreeInv
<1> QED
  BY <1>10, <1>11

LEMMA RequestDisconnectStep ==
  ASSUME AgreeInv, RequestDisconnect
  PROVE  AgreeInv'
<1> USE Invariant
<1> DEFINE f == FrontendLost(app)
           b == [f EXCEPT !.active = NoAttempt, !.state = "Disconnected",
             !.screen = "Connection"]
<1>1. /\ ~polling /\ cut < MaxCut /\ app' = b
      /\ cut' = IF \/ app.active # NoAttempt
                   \/ app.state \in {"Connecting", "Handshaking", "Connected"}
                THEN cut + 1 ELSE cut
      /\ Cleared(app.screen = "Game")
      /\ UNCHANGED <<inbox, polling, commands, net, hold, events>>
  BY DEF RequestDisconnect
<1>2. EventsComing' = EventsComing /\ EventsComing \in Seq(Event)
  BY <1>1, NothingNew, ComingTyped
<1>3. f \in AppState /\ f.session = "Disconnected" /\ f.next = app.next
  BY TypeParts, LostTyped
<1> HIDE DEF f
<1>4. /\ b \in AppState /\ b.session = "Disconnected" /\ b.next = app.next
      /\ b.active = NoAttempt /\ b.state = "Disconnected"
  BY <1>3 DEF AppState, State
<1> HIDE DEF b
<1>5. cut' \in 0 .. MaxCut /\ cut <= cut' /\ cut \in 0 .. MaxCut
  BY <1>1, TypeParts, SessionBounds
<1>s. Stamped(app.active, cut, net, commands)
  BY DEF Agree
<1>6. IsServing(net) => net.epoch # cut' /\ net.attempt # NoAttempt
  <2> SUFFICES ASSUME IsServing(net) PROVE net.epoch # cut' /\ net.attempt # NoAttempt
    OBVIOUS
  <2>1. net.attempt # NoAttempt
    BY DEF Shaped
  <2>2. CASE cut' = cut + 1
    <3>1. net.epoch <= cut
      BY <1>s DEF Stamped
    <3> QED
      BY <2>1, <2>2, <3>1, <1>5, TypeParts, NetParts, SessionBounds
  <2>3. CASE cut' = cut /\ app.active = NoAttempt
    BY <1>s, <2>1, <2>3 DEF Stamped
  <2> QED
    BY <1>1, <2>2, <2>3
<1>7. \A i \in 1 .. Len(commands) : IsConnect(commands[i]) => commands[i].epoch # cut'
  <2> SUFFICES ASSUME NEW i \in 1 .. Len(commands), IsConnect(commands[i])
               PROVE  commands[i].epoch # cut'
    OBVIOUS
  <2>1. commands[i].attempt # NoAttempt /\ commands[i].epoch \in Nat
    BY TypeParts, Elements, CommandParts
  <2>2. CASE cut' = cut + 1
    <3>1. commands[i].epoch <= cut
      BY <1>s DEF Stamped
    <3> QED
      BY <2>1, <2>2, <3>1, <1>5, SessionBounds
  <2>3. CASE cut' = cut /\ app.active = NoAttempt
    BY <1>s, <2>1, <2>3 DEF Stamped
  <2> QED
    BY <1>1, <2>2, <2>3
<1>8. Agree(b, cut', EventsComing, net, commands)
  <2>1. b.state \in State \ Shown /\ app.next <= b.next /\ b.active <= b.next
    BY <1>4, TypeParts, AppParts DEF State, Shown, NoAttempt
  <2> QED
    BY <1>2, <1>4, <1>5, <1>6, <1>7, <2>1, TypeParts, Replaced
<1>9. SessionTypeOK'
  <2>1. replica' \in ReplicaState /\ frames' \in Seq(FrameMsg) /\ Len(frames') <= FrameCap
    BY <1>1, TypeParts, SessionBounds DEF Cleared, NoReplica, ReplicaState
  <2> QED
    BY <1>1, <1>4, <1>5, <2>1, TypeParts, TypeMade
<1>10. Shaped(app', net', inbox', polling')
  BY <1>1, <1>4 DEF Shaped
<1> QED
  BY <1>1, <1>2, <1>8, <1>9, <1>10 DEF AgreeInv

(* A request of the user to the session                                    *)
LEMMA AskStep ==
  ASSUME AgreeInv, CanAsk, NEW k \in Request,
         Send([kind |-> k, attempt |-> app.active]),
         app' \in AppState, SameSession(app', app), app'.session = app.session,
         UNCHANGED <<inbox, polling, replica, cut, net, hold, events, frames>>
  PROVE  AgreeInv'
<1> USE Invariant
<1> DEFINE x == [kind |-> k, attempt |-> app.active]
<1>1. app.active \in Attempt
  BY TypeParts, AppParts DEF CanAsk, Shaped
<1>2. x \in RuntimeCommand /\ ~IsConnect(x)
  BY <1>1 DEF RuntimeCommand, IsConnect, Request
<1>3. commands' = IF Len(commands) < CmdCap THEN Append(commands, x) ELSE commands
  BY DEF Send
<1> HIDE DEF x
<1>4. commands' \in Seq(RuntimeCommand) /\ Len(commands') <= CmdCap /\ Within(commands', commands)
  BY <1>2, <1>3, TypeParts, SessionBounds, WithinSame, WithinAsked
<1>5. EventsComing' = EventsComing /\ EventsComing \in Seq(Event)
  BY NothingNew, ComingTyped
<1>6. Agree(app', cut, EventsComing, net, commands')
  <2>1. GoesOn(net, net)
    BY DEF GoesOn
  <2> QED
    BY <1>4, <1>5, <2>1, TypeParts, Quiet
<1>7. SessionTypeOK'
  BY <1>4, TypeParts, TypeMade
<1>8. Shaped(app', net', inbox', polling')
  BY DEF Shaped, SameSession
<1> QED
  BY <1>5, <1>6, <1>7, <1>8 DEF AgreeInv

LEMMA AskSteps ==
  ASSUME AgreeInv, EnterWorld \/ CreateCharacter
  PROVE  AgreeInv'
<1>1. app \in AppState
  BY Invariant, TypeParts
<1>2. CASE EnterWorld
  <2>1. app' \in AppState /\ SameSession(app', app) /\ app'.session = app.session
    BY <1>1, <1>2 DEF EnterWorld, AppState, SameSession
  <2>2. "enter" \in Request
    BY DEF Request
  <2> QED
    BY <1>2, <2>1, <2>2, AskStep DEF EnterWorld
<1>3. CASE CreateCharacter
  <2>1. app' \in AppState /\ SameSession(app', app) /\ app'.session = app.session
    BY <1>1, <1>3 DEF CreateCharacter, AppState, SameSession
  <2>2. "create" \in Request
    BY DEF Request
  <2> QED
    BY <1>3, <2>1, <2>2, AskStep DEF CreateCharacter
<1> QED
  BY <1>2, <1>3

LEMMA WorldReadyStep ==
  ASSUME AgreeInv, WorldReady
  PROVE  AgreeInv'
<1> USE Invariant
<1>1. /\ app' = [app EXCEPT !.handoff = "idle"]
      /\ UNCHANGED <<inbox, polling, replica, cut, commands, net, hold, events, frames>>
  BY DEF WorldReady
<1>2. app' \in AppState /\ SameSession(app', app) /\ app'.session = app.session
  BY <1>1, TypeParts DEF AppState, SameSession
<1>3. EventsComing' = EventsComing /\ EventsComing \in Seq(Event)
  BY <1>1, NothingNew, ComingTyped
<1>4. Agree(app', cut, EventsComing, net, commands)
  <2>1. GoesOn(net, net)
    BY DEF GoesOn
  <2> QED
    BY <1>2, <1>3, <2>1, TypeParts, WithinSame, Quiet
<1>5. SessionTypeOK'
  BY <1>1, <1>2, TypeParts, TypeMade
<1>6. Shaped(app', net', inbox', polling')
  BY <1>1, <1>2 DEF Shaped, SameSession
<1> QED
  BY <1>1, <1>3, <1>4, <1>5, <1>6 DEF AgreeInv

LEMMA PollEventsStep ==
  ASSUME AgreeInv, PollEvents
  PROVE  AgreeInv'
<1> USE Invariant
<1>1. /\ ~polling /\ polling' = TRUE /\ inbox' = events /\ events' = <<>>
      /\ UNCHANGED <<app, replica, cut, commands, net, hold, frames>>
  BY DEF PollEvents
<1>2. inbox = <<>>
  BY <1>1 DEF Shaped
<1>3. EventsComing' = EventsComing
  <2>1. HeldEvent' = HeldEvent /\ HeldEvent \in Seq(Event)
    BY <1>1, ComingTyped DEF HeldEvent
  <2>2. \A a, b \in Seq(Event) : <<>> \o a \o b = a \o <<>> \o b
    OBVIOUS
  <2> QED
    BY <1>1, <1>2, <2>1, <2>2, TypeParts DEF EventsComing
<1>4. SessionTypeOK'
  BY <1>1, TypeParts, TypeMade, SessionBounds
<1>5. Shaped(app', net', inbox', polling')
  BY <1>1 DEF Shaped
<1> QED
  BY <1>1, <1>3, <1>4, <1>5 DEF AgreeInv

LEMMA PollFramesStep ==
  ASSUME AgreeInv, PollFrames
  PROVE  AgreeInv'
<1> USE Invariant
<1> DEFINE after == AfterEvents(app, inbox)[Len(inbox)]
           shown == AfterFrames(replica, frames)[Len(frames)]
<1>1. /\ polling /\ app' = after /\ inbox' = <<>> /\ polling' = FALSE /\ frames' = <<>>
      /\ replica' \in {NoReplica, shown} /\ UNCHANGED <<cut, commands, net, hold, events>>
  BY DEF PollFrames
<1> HIDE DEF after, shown
<1>2. HeldEvent' = HeldEvent /\ HeldEvent \in Seq(Event)
        /\ events \o HeldEvent \in Seq(Event)
  BY <1>1, ComingTyped DEF HeldEvent
<1>3. EventsComing = inbox \o (events \o HeldEvent) /\ EventsComing' = events \o HeldEvent
  <2>1. \A a, b, c \in Seq(Event) : a \o b \o c = a \o (b \o c) /\ <<>> \o b \o c = b \o c
    OBVIOUS
  <2> QED
    BY <1>1, <1>2, <2>1, TypeParts DEF EventsComing
<1>4. after \in AppState /\ Agree(after, cut, events \o HeldEvent, net, commands)
      /\ (after.session # "Disconnected" => after.active # NoAttempt)
  BY <1>2, <1>3, TypeParts, Polled DEF Shaped, after
<1>5. shown \in ReplicaState /\ NoReplica \in ReplicaState
  <2>1. replica \in ReplicaState /\ frames \in Seq(FrameMsg)
    BY TypeParts
  <2>2. NoReplica \in ReplicaState
    BY SessionBounds DEF NoReplica, ReplicaState
  <2> QED
    BY <2>1, <2>2, FramesKeepType DEF shown
<1>6. SessionTypeOK'
  <2>1. replica' \in ReplicaState /\ inbox' \in Seq(Event) /\ polling' \in BOOLEAN
    <3>1. replica' \in ReplicaState
      BY <1>1, <1>5
    <3>2. inbox' \in Seq(Event)
      BY <1>1
    <3> QED
      BY <1>1, <3>1, <3>2
  <2>2. frames' \in Seq(FrameMsg) /\ Len(frames') <= FrameCap
    BY <1>1, SessionBounds
  <2> QED
    BY <1>1, <1>4, <2>1, <2>2, TypeParts, TypeMade
<1>7. Shaped(app', net', inbox', polling')
  BY <1>1, <1>4 DEF Shaped
<1> QED
  BY <1>1, <1>3, <1>4, <1>6, <1>7 DEF AgreeInv

-----------------------------------------------------------------------------
(***************************************************************************)
(* The network thread                                                      *)
(***************************************************************************)
LEMMA PushStep ==
  ASSUME AgreeInv, Push
  PROVE  AgreeInv'
<1> USE Invariant
<1> DEFINE item == Head(hold)
<1>1. /\ hold # <<>> /\ Room(item) /\ hold' = <<>>
      /\ frames' = IF item.kind = "frame" THEN Append(frames, item) ELSE frames
      /\ events' = IF item.kind = "frame" THEN events ELSE Append(events, item)
      /\ UNCHANGED <<app, inbox, polling, replica, cut, commands, net>>
  BY DEF Push, AppUnchanged
<1>2. HeldEvent' = <<>>
  BY <1>1 DEF HeldEvent
<1>3. EventsComing' = EventsComing /\ SessionTypeOK'
  <2>1. CASE item.kind = "frame"
    <3>1. item \in FrameMsg /\ HeldEvent = <<>>
      BY <1>1, <2>1, HoldCases
    <3>2. Len(frames) < FrameCap /\ frames' = Append(frames, item) /\ events' = events
      BY <1>1, <2>1 DEF Room
    <3>3. EventsComing' = EventsComing
      BY <1>1, <1>2, <3>1, <3>2, NothingNew
    <3> HIDE DEF item
    <3>4. frames' \in Seq(FrameMsg) /\ Len(frames') <= FrameCap
            /\ hold' \in Seq(Event \cup FrameMsg)
          /\ Len(hold') <= 1
      BY <1>1, <3>1, <3>2, TypeParts, SessionBounds
    <3> QED
      BY <1>1, <3>2, <3>3, <3>4, TypeParts, TypeMade
  <2>2. CASE item.kind # "frame"
    <3>1. item \in Event /\ HeldEvent = <<item>>
      BY <1>1, <2>2, HoldCases
    <3>2. Len(events) < EventCap /\ events' = Append(events, item) /\ frames' = frames
      BY <1>1, <2>2 DEF Room
    <3> HIDE DEF item
    <3>3. EventsComing' = EventsComing
      <4>1. \A a, b \in Seq(Event), e \in Event :
              a \o Append(b, e) \o <<>> = a \o b \o <<e>>
        OBVIOUS
      <4> QED
        BY <1>1, <1>2, <3>1, <3>2, <4>1, TypeParts DEF EventsComing
    <3>4. events' \in Seq(Event) /\ Len(events') <= EventCap
            /\ hold' \in Seq(Event \cup FrameMsg)
          /\ Len(hold') <= 1
      BY <1>1, <3>1, <3>2, TypeParts, SessionBounds
    <3> QED
      BY <1>1, <3>2, <3>3, <3>4, TypeParts, TypeMade
  <2> QED
    BY <2>1, <2>2
<1> QED
  BY <1>1, <1>3 DEF AgreeInv

(* A step of the network thread of which the application learns nothing    *)
LEMMA QuietStep ==
  ASSUME AgreeInv, net' \in NetState, GoesOn(net', net),
         commands' \in Seq(RuntimeCommand), Len(commands') <= CmdCap, Within(commands', commands),
         hold = <<>>, \/ hold' = hold
                      \/ hold' \in Seq(FrameMsg) /\ Len(hold') = 1,
         NetFrame
  PROVE  AgreeInv'
<1> USE Invariant
<1>1. UNCHANGED <<app, inbox, polling, replica, cut, events, frames>>
  BY DEF NetFrame, AppUnchanged
<1>2. hold' \in Seq(Event \cup FrameMsg) /\ Len(hold') <= 1
  <2>1. CASE hold' = hold
    BY <2>1, TypeParts
  <2>2. CASE hold' \in Seq(FrameMsg) /\ Len(hold') = 1
    <3>1. hold' # <<>>
      BY <2>2, One
    <3>2. Head(hold') \in FrameMsg /\ hold' = <<Head(hold')>>
      BY <2>2, <3>1, Single
    <3>3. <<Head(hold')>> \in Seq(Event \cup FrameMsg)
      BY <3>2
    <3> QED
      BY <2>2, <3>2, <3>3
  <2> QED
    BY <2>1, <2>2
<1>3. EventsComing' = EventsComing /\ EventsComing \in Seq(Event)
  <2>1. HeldEvent = <<>>
    BY DEF HeldEvent
  <2>2. CASE hold' = hold
    BY <1>1, <2>2, NothingNew, ComingTyped
  <2>3. CASE hold' \in Seq(FrameMsg) /\ Len(hold') = 1
    <3>1. hold' # <<>> /\ Head(hold') \in FrameMsg
      <4>1. hold' # <<>>
        BY <2>3, One
      <4>2. hold' \in Seq(FrameMsg) /\ Len(hold') <= 1
        BY <2>3
      <4> QED
        BY <4>1, <4>2, Single
    <3>2. HeldEvent' = <<>>
      BY <3>1 DEF HeldEvent, FrameMsg
    <3> QED
      BY <1>1, <2>1, <3>2, NothingNew, ComingTyped
  <2> QED
    BY <2>2, <2>3
<1>4. Agree(app, cut, EventsComing, net', commands')
  BY <1>3, TypeParts, Quiet DEF SameSession
<1>5. SessionTypeOK'
  BY <1>1, <1>2, TypeParts, TypeMade
<1>6. Shaped(app', net', inbox', polling')
  BY <1>1 DEF Shaped, GoesOn
<1> QED
  BY <1>1, <1>3, <1>4, <1>5, <1>6 DEF AgreeInv

(* A step of the network thread that reports an event of its session       *)
LEMMA ReportStep ==
  ASSUME AgreeInv, IsServing(net), hold = <<>>, NEW k \in EventKind, Emit(k),
         Served(net.at) \in LegalIn[k],
         net' \in NetState, Reports(net', net, [kind |-> k, attempt |-> net.attempt]),
         UNCHANGED commands, NetFrame
  PROVE  AgreeInv'
<1> USE Invariant
<1> DEFINE e == [kind |-> k, attempt |-> net.attempt]
<1>1. /\ hold' = <<e>> /\ e.kind = k /\ e.attempt = net.attempt
      /\ UNCHANGED <<app, inbox, polling, replica, cut, events, frames, commands>>
  BY DEF Emit, NetFrame, AppUnchanged
<1>2. net.attempt \in Attempt
  BY TypeParts, NetParts DEF Shaped
<1>3. e \in Event
  BY <1>2 DEF Event
<1>r. Reports(net', net, e)
  OBVIOUS
<1> HIDE DEF e
<1>4. EventsComing' = Append(EventsComing, e) /\ EventsComing \in Seq(Event)
  BY <1>1, <1>3, NewEvent, ComingTyped
<1>5. Agree(app, cut, Append(EventsComing, e), net', commands)
  BY <1>1, <1>3, <1>4, <1>r, TypeParts, Emitted
<1>6. SessionTypeOK'
  <2>1. hold' \in Seq(Event \cup FrameMsg) /\ Len(hold') <= 1
    BY <1>1, <1>3
  <2> QED
    BY <1>1, <2>1, TypeParts, TypeMade
<1>7. Shaped(app', net', inbox', polling')
  <2>1. IsServing(net') <=> net'.attempt # NoAttempt
    BY IdleTyped DEF Reports, Shaped
  <2> QED
    BY <1>1, <2>1 DEF Shaped
<1> QED
  BY <1>1, <1>4, <1>5, <1>6, <1>7 DEF AgreeInv

(* The network thread reports the end of its session.                      *)
LEMMA EndStep ==
  ASSUME AgreeInv, IsServing(net), hold = <<>>, NEW k \in Terminal, End(k),
         k = "rejected" => net.at = "hello", NetFrame
  PROVE  AgreeInv'
<1>1. net \in NetState
  BY Invariant, TypeParts
<1>2. Served(net.at) \in LegalIn[k]
  BY <1>1, LegalKinds DEF NetState, Served, IsServing, Terminal
<1>3. net' = NoSession /\ Emit(k) /\ UNCHANGED commands
  BY DEF End
<1>4. k \in EventKind
  BY DEF EventKind
<1>5. Reports(net', net, [kind |-> k, attempt |-> net.attempt])
  BY <1>3 DEF Reports
<1>6. net' \in NetState
  BY <1>3, IdleTyped
<1> QED
  BY <1>2, <1>3, <1>4, <1>5, <1>6, ReportStep

(* The network thread reports the progress of its session.                 *)
LEMMA ProgressStep ==
  ASSUME AgreeInv, IsServing(net), hold = <<>>, NEW k \in EventKind, Emit(k),
         Served(net.at) \in LegalIn[k],
         net' \in NetState, IsServing(net'), net'.attempt = net.attempt, net'.epoch = net.epoch,
         Served(net'.at) = StateAfter(Served(net.at), k),
         UNCHANGED commands, NetFrame
  PROVE  AgreeInv'
<1>1. Reports(net', net, [kind |-> k, attempt |-> net.attempt])
  BY DEF Reports
<1> QED
  BY <1>1, ReportStep

LEMMA TakeCommandStep ==
  ASSUME AgreeInv, TakeCommand
  PROVE  AgreeInv'
<1> USE Invariant
<1> DEFINE x == Head(commands)
<1>1. /\ net.at = "idle" /\ hold = <<>> /\ commands # <<>> /\ NetFrame /\ ~IsServing(net)
  BY DEF TakeCommand, Free, IsServing
<1>2. x \in RuntimeCommand /\ x = commands[1] /\ Tail(commands) \in Seq(RuntimeCommand)
      /\ Len(Tail(commands)) <= Len(commands)
  BY <1>1, TypeParts, WithinTail
<1>l. Len(Tail(commands)) <= CmdCap
  BY <1>2, TypeParts, SessionBounds
<1>3. CASE IsConnect(x)
  <2>1. /\ net' = [NoSession EXCEPT !.at = "starting", !.attempt = x.attempt, !.epoch = x.epoch]
        /\ hold' = <<[kind |-> "connecting", attempt |-> x.attempt]>>
        /\ commands' = Drained(Tail(commands))
    BY <1>3 DEF TakeCommand, IsConnect
  <2>2. /\ UNCHANGED <<app, inbox, polling, replica, cut, events, frames>>
    BY <1>1 DEF NetFrame, AppUnchanged
  <2>3. x.attempt \in Attempt /\ x.attempt # NoAttempt /\ x.epoch \in 0 .. MaxCut
    BY <1>2, <1>3, CommandParts
  <2>4. /\ net' \in NetState /\ net'.at = "starting" /\ net'.attempt = x.attempt
        /\ net'.epoch = x.epoch
    <3> HIDE DEF x
    <3>1. net' = [at |-> "starting", attempt |-> x.attempt, epoch |-> x.epoch, ready |-> FALSE,
                  entering |-> FALSE, owed |-> {}, observer |-> 0]
      BY <2>1 DEF NoSession
    <3> QED
      BY <2>3, <3>1, SessionBounds DEF NetState
  <2>5. IsServing(net') /\ Served(net'.at) = "Connecting"
    BY <2>4 DEF IsServing, Served
  <2> DEFINE e == [kind |-> "connecting", attempt |-> x.attempt]
  <2>6. e \in Event /\ e.kind = "connecting" /\ e.attempt = x.attempt
    BY <2>3 DEF Event, EventKind
  <2>7. hold' = <<e>>
    BY <2>1
  <2> HIDE DEF e
  <2>8. EventsComing' = Append(EventsComing, e) /\ EventsComing \in Seq(Event)
    BY <1>1, <2>2, <2>6, <2>7, NewEvent, ComingTyped
  <2>9. /\ commands' \in Seq(RuntimeCommand) /\ Len(commands') <= Len(Tail(commands))
        /\ Within(commands', Tail(commands))
    BY <1>2, <2>1, DrainedWithin
  <2>10. Len(commands') <= CmdCap
    BY <1>l, <1>2, <2>9, SessionBounds
  <2> HIDE DEF x
  <2>11. Agree(app, cut, Append(EventsComing, e), net', commands')
    BY <1>1, <1>2, <1>3, <2>4, <2>5, <2>6, <2>8, <2>9, TypeParts, Taken
  <2>12. SessionTypeOK'
    <3>1. hold' \in Seq(Event \cup FrameMsg) /\ Len(hold') <= 1
      BY <2>6, <2>7
    <3> QED
      BY <2>2, <2>4, <2>9, <2>10, <3>1, TypeParts, TypeMade
  <2>13. Shaped(app', net', inbox', polling')
    BY <2>2, <2>3, <2>4, <2>5 DEF Shaped
  <2> QED
    BY <2>2, <2>8, <2>11, <2>12, <2>13 DEF AgreeInv
<1>4. CASE ~IsConnect(x)
  <2>1. UNCHANGED <<net, hold>> /\ commands' = Tail(commands)
    BY <1>4 DEF TakeCommand, IsConnect
  <2>2. GoesOn(net', net) /\ net' \in NetState
    BY <2>1, TypeParts DEF GoesOn
  <2>3. Within(commands', commands)
    BY <1>1, <2>1, TypeParts, WithinTail
  <2> QED
    BY <1>1, <1>2, <1>l, <2>1, <2>2, <2>3, QuietStep
<1> QED
  BY <1>3, <1>4

LEMMA StartConnectStep ==
  ASSUME AgreeInv, StartConnect
  PROVE  AgreeInv'
<1>1. net.at = "starting" /\ hold = <<>> /\ NetFrame /\ IsServing(net)
  BY DEF StartConnect, Free, IsServing
<1>2. CASE CutPending
  <2>1. End("disconnected") /\ "disconnected" \in Terminal
    BY <1>2 DEF StartConnect, Terminal
  <2> QED
    BY <1>1, <2>1, EndStep
<1>3. CASE ~CutPending
  <2>1. net' = [net EXCEPT !.at = "connecting"] /\ UNCHANGED <<hold, commands>>
    BY <1>3 DEF StartConnect
  <2>2. net \in NetState /\ commands \in Seq(RuntimeCommand) /\ Len(commands) <= CmdCap
    BY Invariant, TypeParts
  <2>3. net' \in NetState /\ GoesOn(net', net)
    BY <1>1, <2>1, <2>2 DEF NetState, GoesOn, IsServing, Served
  <2> QED
    BY <1>1, <2>1, <2>2, <2>3, WithinSame, QuietStep
<1> QED
  BY <1>2, <1>3

LEMMA DiscardStep ==
  ASSUME AgreeInv, Discard
  PROVE  AgreeInv'
<1>1. commands # <<>> /\ hold = <<>> /\ NetFrame /\ commands' = Tail(commands)
        /\ UNCHANGED <<net, hold>>
  BY DEF Discard, Free
<1>2. net \in NetState /\ commands \in Seq(RuntimeCommand) /\ Len(commands) <= CmdCap
  BY Invariant, TypeParts
<1>3. commands' \in Seq(RuntimeCommand) /\ Len(commands') <= CmdCap /\ Within(commands', commands)
  <2>1. commands' \in Seq(RuntimeCommand) /\ Len(commands') <= Len(commands)
          /\ Within(commands', commands)
    BY <1>1, <1>2, WithinTail
  <2> QED
    BY <1>2, <2>1, SessionBounds
<1> QED
  BY <1>1, <1>2, <1>3, QuietStep DEF GoesOn

LEMMA LiveCommandStep ==
  ASSUME AgreeInv, LiveCommand
  PROVE  AgreeInv'
<1>1. commands # <<>> /\ hold = <<>> /\ NetFrame /\ commands' = Tail(commands)
        /\ UNCHANGED hold
  BY DEF LiveCommand, Free
<1>2. net \in NetState /\ commands \in Seq(RuntimeCommand) /\ Len(commands) <= CmdCap
  BY Invariant, TypeParts
<1>3. commands' \in Seq(RuntimeCommand) /\ Len(commands') <= CmdCap /\ Within(commands', commands)
  <2>1. commands' \in Seq(RuntimeCommand) /\ Len(commands') <= Len(commands)
          /\ Within(commands', commands)
    BY <1>1, <1>2, WithinTail
  <2> QED
    BY <1>2, <2>1, SessionBounds
<1>4. net' \in NetState /\ GoesOn(net', net)
  <2>1. net' \in {net, [net EXCEPT !.entering = TRUE, !.owed = @ \cup {"enter"}],
                  [net EXCEPT !.owed = @ \cup {"create"}]}
    BY DEF LiveCommand
  <2> QED
    BY <1>2, <2>1 DEF NetState, GoesOn, IsServing, Request
<1> QED
  BY <1>1, <1>3, <1>4, QuietStep

LEMMA EndSteps ==
  ASSUME AgreeInv, NoticeCut \/ Lost \/ Rejected
  PROVE  AgreeInv'
<1>1. CASE NoticeCut
  <2>1. IsServing(net) /\ hold = <<>> /\ End("disconnected") /\ NetFrame
    BY <1>1 DEF NoticeCut, Noticing, Free, IsServing
  <2> QED
    BY <2>1, EndStep DEF Terminal
<1>2. CASE Lost
  <2>1. IsServing(net) /\ hold = <<>> /\ End("disconnected") /\ NetFrame
    BY <1>2 DEF Lost, Free, IsServing
  <2> QED
    BY <2>1, EndStep DEF Terminal
<1>3. CASE Rejected
  <2>1. net.at = "hello" /\ IsServing(net) /\ hold = <<>> /\ End("rejected") /\ NetFrame
    BY <1>3 DEF Rejected, Free, IsServing
  <2> QED
    BY <2>1, EndStep DEF Terminal
<1> QED
  BY <1>1, <1>2, <1>3

LEMMA HandshakeSteps ==
  ASSUME AgreeInv, Connected \/ SessionReady
  PROVE  AgreeInv'
<1>0. net \in NetState
  BY Invariant, TypeParts
<1>1. CASE Connected
  <2>1. /\ net.at = "connecting" /\ hold = <<>> /\ net' = [net EXCEPT !.at = "hello"]
        /\ Emit("handshaking") /\ UNCHANGED commands /\ NetFrame
    BY <1>1 DEF Connected, Free, Reached
  <2>2. /\ net' \in NetState /\ IsServing(net) /\ IsServing(net') /\ net'.attempt = net.attempt
        /\ net'.epoch = net.epoch /\ net'.at = "hello"
    BY <1>0, <2>1 DEF NetState, IsServing
  <2>3. /\ "handshaking" \in EventKind /\ Served(net.at) \in LegalIn["handshaking"]
        /\ Served(net'.at) = StateAfter(Served(net.at), "handshaking")
    BY <2>1, <2>2, LegalKinds DEF Served, StateAfter, EventKind
  <2> QED
    BY <2>1, <2>2, <2>3, ProgressStep
<1>2. CASE SessionReady
  <2>1. /\ net.at = "hello" /\ hold = <<>> /\ net' = [net EXCEPT !.at = "live"]
        /\ Emit("sessionReady") /\ UNCHANGED commands /\ NetFrame
    BY <1>2 DEF SessionReady, Free
  <2>2. /\ net' \in NetState /\ IsServing(net) /\ IsServing(net') /\ net'.attempt = net.attempt
        /\ net'.epoch = net.epoch /\ net'.at = "live"
    BY <1>0, <2>1 DEF NetState, IsServing
  <2>3. /\ "sessionReady" \in EventKind /\ Served(net.at) \in LegalIn["sessionReady"]
        /\ Served(net'.at) = StateAfter(Served(net.at), "sessionReady")
    BY <2>1, <2>2, LegalKinds DEF Served, StateAfter, EventKind
  <2> QED
    BY <2>1, <2>2, <2>3, ProgressStep
<1> QED
  BY <1>1, <1>2

(* An answer is given in a live session.                                   *)
LEMMA AnswerStep ==
  ASSUME AgreeInv, LiveRead, NEW k \in {"gameplayReady", "enterRejected", "createResult"},
         Emit(k), net' \in NetState, net'.at = net.at, net'.attempt = net.attempt,
         net'.epoch = net.epoch, UNCHANGED commands, NetFrame
  PROVE  AgreeInv'
<1>1. net.at = "live" /\ IsServing(net) /\ IsServing(net') /\ hold = <<>>
  BY DEF LiveRead, Free, IsServing
<1>2. k \in EventKind /\ Served(net.at) \in LegalIn[k]
  BY <1>1, LegalKinds DEF Served, EventKind
<1>3. Served(net'.at) = StateAfter(Served(net.at), k)
  BY <1>1 DEF Served, StateAfter
<1> QED
  BY <1>1, <1>2, <1>3, ProgressStep

LEMMA AnswerSteps ==
  ASSUME AgreeInv, Answer
  PROVE  AgreeInv'
<1>0. net \in NetState
  BY Invariant, TypeParts
<1>e. ASSUME LiveRead, End("disconnected"), NetFrame PROVE AgreeInv'
  <2>1. IsServing(net) /\ hold = <<>>
    BY <1>e DEF LiveRead, Free, IsServing
  <2> QED
    BY <1>e, <2>1, EndStep DEF Terminal
<1>1. CASE Welcome
  <2>1. CASE Expected
    <3>1. /\ LiveRead /\ NetFrame /\ Emit("gameplayReady") /\ UNCHANGED commands
          /\ net' = [net EXCEPT !.owed = @ \ {"enter"}, !.entering = FALSE, !.ready = TRUE]
      BY <1>1, <2>1 DEF Welcome
    <3>2. net' \in NetState /\ net'.at = net.at /\ net'.attempt = net.attempt
            /\ net'.epoch = net.epoch
      BY <1>0, <3>1 DEF NetState
    <3> QED
      BY <3>1, <3>2, AnswerStep
  <2>2. CASE ~Expected
    BY <1>1, <1>e, <2>2 DEF Welcome
  <2> QED
    BY <2>1, <2>2
<1>2. CASE EnterRejected
  <2>1. CASE Expected
    <3>1. /\ LiveRead /\ NetFrame /\ Emit("enterRejected") /\ UNCHANGED commands
          /\ net' = [net EXCEPT !.owed = @ \ {"enter"}, !.entering = FALSE]
      BY <1>2, <2>1 DEF EnterRejected, RejectedEnter
    <3>2. net' \in NetState /\ net'.at = net.at /\ net'.attempt = net.attempt
            /\ net'.epoch = net.epoch
      BY <1>0, <3>1 DEF NetState
    <3> QED
      BY <3>1, <3>2, AnswerStep
  <2>2. CASE ~Expected
    BY <1>2, <1>e, <2>2 DEF EnterRejected
  <2> QED
    BY <2>1, <2>2
<1>3. CASE CreateResult
  <2>1. /\ LiveRead /\ NetFrame /\ Emit("createResult") /\ UNCHANGED commands
        /\ net' = [net EXCEPT !.owed = @ \ {"create"}]
    BY <1>3 DEF CreateResult
  <2>2. net' \in NetState /\ net'.at = net.at /\ net'.attempt = net.attempt
          /\ net'.epoch = net.epoch
    BY <1>0, <2>1 DEF NetState
  <2> QED
    BY <2>1, <2>2, AnswerStep
<1> QED
  BY <1>1, <1>2, <1>3 DEF Answer

LEMMA ReadFrameStep ==
  ASSUME AgreeInv, ReadFrame
  PROVE  AgreeInv'
<1>1. /\ hold = <<>> /\ UNCHANGED commands /\ NetFrame /\ net.at = "live" /\ IsServing(net)
  BY DEF ReadFrame, LiveRead, Free, IsServing
<1>2. PICK o \in net.observer .. net.observer + 1 :
        /\ o <= MaxObserver /\ net' = [net EXCEPT !.observer = o]
        /\ hold' = <<[kind |-> "frame", attempt |-> net.attempt, epoch |-> o]>>
  BY DEF ReadFrame
<1>3. net \in NetState /\ commands \in Seq(RuntimeCommand) /\ Len(commands) <= CmdCap
  BY Invariant, TypeParts
<1>4. o \in 0 .. MaxObserver
  BY <1>2, <1>3, SessionBounds DEF NetState
<1>5. net.attempt \in Attempt
  BY <1>1, Invariant, TypeParts, NetParts DEF Shaped
<1>6. net' \in NetState /\ GoesOn(net', net)
  BY <1>2, <1>3, <1>4 DEF NetState, GoesOn, IsServing
<1>7. hold' \in Seq(FrameMsg) /\ Len(hold') = 1
  <2>1. [kind |-> "frame", attempt |-> net.attempt, epoch |-> o] \in FrameMsg
    BY <1>4, <1>5 DEF FrameMsg
  <2> QED
    BY <1>2, <2>1
<1>8. Within(commands', commands)
  BY <1>1, <1>3, WithinSame
<1> QED
  BY <1>1, <1>3, <1>6, <1>7, <1>8, QuietStep

-----------------------------------------------------------------------------
LEMMA AgreesInit ==
  SessionInit => AgreeInv
<1> SUFFICES ASSUME SessionInit PROVE AgreeInv
  OBVIOUS
<1>1. /\ app = [screen |-> "Connection", state |-> "Disconnected", active |-> NoAttempt,
                next |-> 0, session |-> "Disconnected", handoff |-> "idle", creating |-> FALSE]
      /\ inbox = <<>> /\ polling = FALSE /\ replica = NoReplica /\ cut = 0
      /\ commands = <<>> /\ net = NoSession /\ hold = <<>> /\ events = <<>> /\ frames = <<>>
  BY DEF SessionInit
<1>2. app \in AppState /\ app.active = NoAttempt /\ app.next = 0 /\ app.state = "Disconnected"
      /\ app.session = "Disconnected"
  BY <1>1, SessionBounds DEF AppState, State
<1>3. SessionTypeOK
  <2>1. net \in NetState /\ replica \in ReplicaState
    BY <1>1, IdleTyped, SessionBounds DEF NoReplica, ReplicaState
  <2> QED
    <3>1. inbox \in Seq(Event) /\ commands \in Seq(RuntimeCommand) /\ Len(commands) <= CmdCap
      BY <1>1, SessionBounds
    <3>2. hold \in Seq(Event \cup FrameMsg) /\ Len(hold) <= 1
      BY <1>1
    <3>3. events \in Seq(Event) /\ Len(events) <= EventCap
      BY <1>1, SessionBounds
    <3>4. frames \in Seq(FrameMsg) /\ Len(frames) <= FrameCap
      BY <1>1, SessionBounds
    <3>5. polling \in BOOLEAN /\ cut \in 0 .. MaxCut
      <4>1. cut \in 0 .. MaxCut
        BY <1>1, SessionBounds
      <4>2. polling \in BOOLEAN
        BY <1>1
      <4> QED
        BY <4>1, <4>2
    <3> QED
      BY <1>2, <2>1, <3>1, <3>2, <3>3, <3>4, <3>5 DEF SessionTypeOK, AppState, NetState, ReplicaState
<1>4. EventsComing = <<>>
  BY <1>1 DEF EventsComing, HeldEvent
<1>5. Agree(app, cut, EventsComing, net, commands)
  <2> DEFINE line == [n \in 0 .. Len(EventsComing) |-> app.state]
  <2>1. Along(app.state, app.active, EventsComing, line) /\ line[Len(EventsComing)] = "Disconnected"
    <3>1. EventsComing \in Seq(Event) /\ \A n \in 1 .. Len(EventsComing) :
            EventsComing[n].attempt # app.active
      BY <1>4
    <3>2. app.state \in State
      BY <1>2 DEF State
    <3>3. Along(app.state, app.active, EventsComing, line)
      BY <3>1, <3>2, AlongSilent
    <3> QED
      BY <1>2, <1>4, <3>3
  <2> HIDE DEF line
  <2>2. Fits(line[Len(EventsComing)], app.active, net, commands)
    BY <1>1, <2>1, IdleTyped DEF Fits, Shown
  <2>3. Ordered(app, EventsComing, net, commands) /\ Stamped(app.active, cut, net, commands)
    BY <1>1, <1>2, <1>4, IdleTyped DEF Ordered, Stamped, NoAttempt, NoSession, IsServing
  <2> QED
    BY <2>1, <2>2, <2>3 DEF Agree
<1>6. Shaped(app, net, inbox, polling)
  BY <1>1, <1>2, IdleTyped DEF Shaped
<1> QED
  BY <1>3, <1>5, <1>6 DEF AgreeInv

LEMMA AgreesNext ==
  AgreeInv /\ [SessionNext]_SessionVars => AgreeInv'
<1> SUFFICES ASSUME AgreeInv, [SessionNext]_SessionVars PROVE AgreeInv'
  OBVIOUS
<1>1. CASE App
  BY <1>1, RequestConnectStep, RequestDisconnectStep, AskSteps, WorldReadyStep DEF App
<1>2. CASE Poll
  BY <1>2, PollEventsStep, PollFramesStep DEF Poll
<1>3. CASE Own
  BY <1>3, TakeCommandStep, StartConnectStep, DiscardStep, EndSteps, LiveCommandStep DEF Own
<1>4. CASE Handshake \/ Lost
  BY <1>4, HandshakeSteps, EndSteps DEF Handshake
<1>5. CASE UNCHANGED SessionVars
  <2>1. UNCHANGED <<app, inbox, polling, replica, cut, commands, net, hold, events, frames>>
    BY <1>5 DEF SessionVars
  <2>2. EventsComing' = EventsComing
    BY <2>1 DEF EventsComing, HeldEvent
  <2>3. SessionTypeOK'
    BY <2>1, Invariant DEF SessionTypeOK
  <2>4. Agree(app', cut', EventsComing', net', commands') /\ Shaped(app', net', inbox', polling')
    BY <2>1, <2>2, Invariant
  <2> QED
    BY <2>3, <2>4 DEF AgreeInv
<1> QED
  BY <1>1, <1>2, <1>3, <1>4, <1>5, PushStep, AnswerSteps, ReadFrameStep DEF SessionNext

LEMMA SessionServed ==
  AgreeInv => ShownSessionIsServed /\ CutIsExact
<1> SUFFICES ASSUME AgreeInv PROVE ShownSessionIsServed /\ CutIsExact
  OBVIOUS
<1> USE Invariant
<1>1. PICK line : /\ Along(app.state, app.active, EventsComing, line)
                  /\ Fits(line[Len(EventsComing)], app.active, net, commands)
  BY DEF Agree
<1>2. ShownSessionIsServed
  <2> SUFFICES ASSUME app.state \in Shown, net.attempt # app.active, ~OutcomeComing PROVE FALSE
    BY DEF ShownSessionIsServed, Shown
  <2>1. \A n \in 1 .. Len(EventsComing) :
          ~(EventsComing[n].kind \in Terminal /\ EventsComing[n].attempt = app.active)
    BY DEF OutcomeComing
  <2>2. line[Len(EventsComing)] \in Shown
    BY <1>1, <2>1, ComingTyped, ShownStays
  <2> QED
    BY <1>1, <2>2 DEF Fits
<1>3. CutIsExact
  BY DEF Agree, Stamped, CutIsExact, IsServing, IsConnect
<1> QED
  BY <1>2, <1>3

LEMMA SessionLegal ==
  AgreeInv => ActiveEventsAreLegal
<1> SUFFICES ASSUME AgreeInv PROVE ActiveEventsAreLegal
  OBVIOUS
<1> USE Invariant
<1>1. PICK line : Along(app.state, app.active, EventsComing, line)
  BY DEF Agree
<1> DEFINE after == AfterEvents(app, EventsComing)
<1> SUFFICES ASSUME NEW n \in 1 .. Len(EventsComing), EventsComing[n].attempt = after[n - 1].active
             PROVE  Legal(after[n - 1], EventsComing[n])
  BY DEF ActiveEventsAreLegal
<1>2. EventsComing \in Seq(Event)
  BY ComingTyped
<1>3. n - 1 \in 0 .. Len(EventsComing)
  BY <1>1, <1>2, AlongStep
<1>4. after[n - 1].active = app.active /\ after[n - 1].state = line[n - 1]
  <2> DEFINE k == n - 1
  <2>1. app \in AppState /\ (app.session # "Disconnected" => app.active # NoAttempt)
    BY TypeParts DEF Shaped
  <2>2. k \in 0 .. Len(EventsComing)
    BY <1>3
  <2> HIDE DEF k
  <2>3. after[k].active = app.active /\ after[k].state = line[k]
    BY <1>1, <1>2, <2>1, <2>2, AppliedAlong
  <2> QED
    BY <2>3 DEF k
<1>5. line[n - 1] \in LegalIn[EventsComing[n].kind]
  BY <1>1, <1>2, <1>4, AlongStep
<1> QED
  BY <1>4, <1>5 DEF Legal

(* Screen and network thread agree, with queues of any size and any number *)
(* of attempts: a lifecycle that shows a session has one or its end on the *)
(* way, every event of the active attempt is legal when its turn comes     *)
(* (is_legal never drops one), and the disconnect epoch cuts the attempts  *)
(* the player left and no other.                                           *)
THEOREM SessionsStayInAgreement ==
  SessionSpec => []SessionsAgree
<1>1. AgreeInv => SessionsAgree
  BY SessionServed, SessionLegal DEF SessionsAgree, AgreeInv
<1> QED
  BY <1>1, AgreesInit, AgreesNext, PTL DEF SessionSpec
=============================================================================
