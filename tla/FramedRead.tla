------------------------------ MODULE FramedRead ------------------------------
(***************************************************************************)
(* Length-prefixed frames on one QUIC stream, and the task that reads      *)
(* them: live_loop of the client (replication frames, control messages)    *)
(* and serve_connection of the server (control messages).  In both, the    *)
(* read is one branch of a tokio select! inside a loop: when another       *)
(* branch completes first, the unfinished read is dropped, and the next    *)
(* turn of the loop starts a new one.                                      *)
(*                                                                         *)
(* A frame is its prefix and the pieces of its body, as packets carry      *)
(* them.  The stream itself is reliable and ordered.                       *)
(***************************************************************************)
EXTENDS Naturals, Sequences

CONSTANTS
  Frames,   \* bound: frames written to the stream
  Pieces    \* the pieces a frame's body may arrive in

VARIABLES
  written,  \* frames written so far
  stream,   \* pieces on their way
  arrived,  \* pieces the stream can hand to a reader
  taken,    \* pieces the read in progress has taken from the stream
  needs,    \* pieces it still waits for
  got,      \* frames delivered by finished reads
  state     \* of the session: "open" or "ended"

vars == <<written, stream, arrived, taken, needs, got, state>>

\* A read has two halves: the prefix, then the length it announced.
Prefix == 0
FrameOf(k) == [i \in 1 .. Pieces + 1 |-> [frame |-> k, part |-> i - 1]]

Init ==
  /\ written = 0 /\ stream = <<>> /\ arrived = <<>>
  /\ taken = <<>> /\ needs = 1 /\ got = <<>> /\ state = "open"

\* write_replication_payload, write_client_control, write_gameplay_msg
WriteFrame ==
  /\ state = "open" /\ written < Frames
  /\ written' = written + 1
  /\ stream' = stream \o FrameOf(written + 1)
  /\ UNCHANGED <<arrived, taken, needs, got, state>>

\* A packet brings the next piece; a lost packet only delays it.
PieceArrives ==
  /\ stream /= <<>>
  /\ arrived' = Append(arrived, Head(stream)) /\ stream' = Tail(stream)
  /\ UNCHANGED <<written, taken, needs, got, state>>

\* The read is done: the next turn of the loop starts another.
NewRead == taken' = <<>> /\ needs' = 1

Whole(pieces) == pieces[1].part = Prefix /\ pieces = FrameOf(pieces[1].frame)

\* Four bytes are read as a length.  Those of a body are no length, or any.
ReadPrefix ==
  /\ taken = <<>>
  /\ \/ /\ \E n \in IF Head(arrived).part = Prefix THEN {Pieces} ELSE 1 .. Pieces :
             needs' = n
        /\ taken' = <<Head(arrived)>> /\ UNCHANGED <<got, state>>
     \/ /\ Head(arrived).part /= Prefix
        /\ state' = "ended" /\ NewRead /\ UNCHANGED got

\* What does not decode is counted, or ends the session.
ReadBody ==
  /\ taken /= <<>>
  /\ LET pieces == Append(taken, Head(arrived)) IN
     IF needs > 1
     THEN taken' = pieces /\ needs' = needs - 1 /\ UNCHANGED <<got, state>>
     ELSE /\ NewRead
          /\ IF Whole(pieces)
             THEN got' = Append(got, pieces[1].frame) /\ UNCHANGED state
             ELSE UNCHANGED got /\ state' \in {"open", "ended"}

\* read_exact takes what has arrived and waits for the rest.
Read ==
  /\ state = "open" /\ arrived /= <<>>
  /\ ReadPrefix \/ ReadBody
  /\ arrived' = Tail(arrived)
  /\ UNCHANGED <<written, stream>>

\* An input to send, a command, a datagram, a ping, a replication wake: the
\* branch that completes wins, and the future of the read goes with what it took.
OtherBranch ==
  /\ state = "open" /\ taken /= <<>>
  /\ NewRead
  /\ UNCHANGED <<written, stream, arrived, got, state>>

Next == WriteFrame \/ PieceArrives \/ Read \/ OtherBranch
Spec == Init /\ [][Next]_vars

\* On a reliable stream that carries nothing but whole frames the reader gets
\* every frame, in order and whole, and never loses its place in the stream.
FramesArriveWhole ==
  /\ state = "open"
  /\ got = [i \in 1 .. Len(got) |-> i]
==============================================================================
