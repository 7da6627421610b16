--------------------------- MODULE ReplicaStreamProofs ---------------------------
(***************************************************************************)
(* Proofs about ReplicaStream, for any set of entities, any length of the  *)
(* queue and of the stream, all budgets and any number of changes.         *)
(*                                                                         *)
(* What the client will have is the end of a chain: the replicas that the  *)
(* frames under way make one after another.  The invariant carries such a  *)
(* chain h and says what its links and its end are; that it is the one     *)
(* Replicas computes follows from the principle of the least number, which *)
(* the well-foundedness of strict inclusion gives.                         *)
(***************************************************************************)
EXTENDS ReplicaStream, FiniteSetTheorems, TLAPS

WorldState == [Subject -> [zone : Zone, look : 0 .. 1, health : Health]]

ObsState ==
  [epoch : 0 .. MaxChanges,
   life : [Subject -> {"none", "wantEnter", "known", "wantLeave"}],
   lag : [Subject -> SUBSET Domain], immune : SUBSET Subject,
   dead : SUBSET Subject, pending : SUBSET Subject]

ReplicaState == [epoch : 0 .. MaxChanges, ent : [Subject -> View \cup {Absent}]]

(* A frame of the replica's own epoch meets the entities it is about.      *)
Fits(f, a) ==
  f.epoch = a.epoch =>
    \A e \in Subject :
      /\ f.rec[e].op \in {"update", "leave"} => a.ent[e] # Absent
      /\ f.rec[e].op = "enter" => a.ent[e] = Absent

(* The replicas h that the frames s make of r, none beyond the epoch top.  *)
Chain(s, r, h, top) ==
  /\ s \in Seq(Frame) /\ r \in ReplicaState
  /\ h \in [0 .. Len(s) -> ReplicaState] /\ h[0] = r
  /\ \A k \in 1 .. Len(s) : h[k] = Applied(h[k - 1], s[k]) /\ Fits(s[k], h[k - 1])
  /\ \A k \in 0 .. Len(s) : h[k].epoch <= top
  /\ \A k \in 1 .. Len(s) : s[k].epoch <= top

(* What the observer's record says of the client's copy v of e.            *)
Knows(w, o, e, v) ==
  /\ v # Absent <=> o.life[e] \in {"known", "wantLeave"}
  /\ o.life[e] = "known" =>
       /\ v.health = "dead" <=> e \in o.dead
       /\ v.health = "immune" => e \in o.immune
       /\ "look" \notin o.lag[e] => v.look = w[e].look
       /\ "health" \notin o.lag[e] =>
            (v.health = "dead" <=> Dead(w, e)) /\ (v.health = "immune" => Immune(w, e))

Told(w, o, a) == \A e \in Subject : Knows(w, o, e, a.ent[e])

Linked(w, o, s, r, h) ==
  /\ Chain(s, r, h, o.epoch)
  /\ h[Len(s)].epoch = o.epoch /\ Told(w, o, h[Len(s)])

(* A change of a known entity is scheduled or will be: the index has it.   *)
Scheduled(w, m, o, f) ==
  \A e \in Subject : o.life[e] = "known" /\ w[e].zone # "gone" =>
    /\ e \in f
    /\ o.lag[e] # {} => e \in o.pending \/ e \in m

Typed ==
  /\ world \in WorldState /\ obs \in ObsState /\ replica \in ReplicaState
  /\ marked \subseteq Subject /\ fanout \subseteq Subject /\ stale \in BOOLEAN
  /\ pipe \in Seq(Frame) /\ Len(pipe) <= PipeCap
  /\ wire \in Seq(Frame) /\ Len(wire) <= WireCap
  /\ changes \in 0 .. MaxChanges /\ obs.epoch <= changes

StreamInv ==
  /\ Typed /\ Scheduled(world, marked, obs, fanout)
  /\ \E h : Linked(world, obs, Stream, replica, h)

(***************************************************************************)
(* Numbers.                                                                *)
(***************************************************************************)

(* A set of numbers that has members has a least one.                      *)
LEMMA LeastNumber ==
  ASSUME NEW T \in SUBSET Nat, T # {}
  PROVE  \E x \in T : \A y \in T : x <= y
<1> DEFINE F == {0 .. x : x \in T}
<1>1. IsWellFoundedOn(StrictSubsetOrdering(Nat), FiniteSubsetsOf(Nat))
  BY FS_StrictSubsetOrderingWellFounded
<1>2. F \subseteq FiniteSubsetsOf(Nat) /\ F # {}
  <2>1. \A x \in Nat : IsFiniteSet(0 .. x) /\ 0 .. x \in SUBSET Nat
    BY FS_Interval
  <2> QED
    BY <2>1 DEF FiniteSubsetsOf
<1>3. PICK m \in F : \A f \in F : <<f, m>> \notin StrictSubsetOrdering(Nat)
  BY <1>1, <1>2, WFMin
<1>4. PICK x \in T : m = 0 .. x
  OBVIOUS
<1>5. ASSUME NEW y \in T, y < x PROVE FALSE
  <2>1. 0 .. y \subseteq 0 .. x /\ 0 .. y # 0 .. x /\ 0 .. x \subseteq Nat
    BY <1>5
  <2>2. <<0 .. y, 0 .. x>> \in StrictSubsetOrdering(Nat)
    BY <2>1 DEF StrictSubsetOrdering
  <2> QED
    BY <1>3, <1>4, <2>2
<1> QED
  BY <1>5

LEMMA Bounds ==
  /\ PipeCap \in Nat /\ PipeCap > 0 /\ WireCap \in Nat /\ WireCap > 0
  /\ Budgets \subseteq Nat /\ MaxChanges \in Nat
BY ReplicaAssumption DEF ReplicaAssumption

(***************************************************************************)
(* Records and the replicas they make.                                     *)
(***************************************************************************)

LEMMA ViewIsThere == \A v \in View : v # Absent
<1> SUFFICES ASSUME NEW v \in View PROVE v # Absent
  OBVIOUS
<1>1. DOMAIN v = {"look", "health"}
  BY DEF View
<1>2. DOMAIN Absent = {"absent"}
  BY DEF Absent
<1>3. "look" \notin {"absent"}
  OBVIOUS
<1> QED
  BY <1>1, <1>2, <1>3

LEMMA RecordParts ==
  ASSUME NEW r \in Record
  PROVE  /\ r.op \in {"none", "leave", "enter", "update"}
         /\ r.op = "enter" => r.view \in View
         /\ r.op = "update" => r.of \subseteq Domain /\ r.view \in View
BY DEF Record, NoRecord

LEMMA MergedParts ==
  ASSUME NEW old, NEW r \in Record
  PROVE  /\ r.op = "enter" => Merged(old, r) = r.view
         /\ r.op = "leave" => Merged(old, r) = Absent
         /\ r.op = "none" \/ (r.op = "update" /\ old = Absent) => Merged(old, r) = old
         /\ r.op = "update" /\ old # Absent =>
              Merged(old, r) =
                [look |-> IF "look" \in r.of THEN r.view.look ELSE old.look,
                 health |-> IF "health" \in r.of THEN r.view.health ELSE old.health]
BY RecordParts DEF Merged

LEMMA MergedType ==
  ASSUME NEW old \in View \cup {Absent}, NEW r \in Record
  PROVE  Merged(old, r) \in View \cup {Absent}
<1>1. CASE r.op = "enter"
  BY <1>1, RecordParts, MergedParts
<1>2. CASE r.op = "leave"
  BY <1>2, MergedParts
<1>3. CASE r.op = "none" \/ (r.op = "update" /\ old = Absent)
  BY <1>3, MergedParts
<1>4. CASE r.op = "update" /\ old # Absent
  <2>1. r.view \in View /\ old \in View
    BY <1>4, RecordParts
  <2>2. [look |-> IF "look" \in r.of THEN r.view.look ELSE old.look,
         health |-> IF "health" \in r.of THEN r.view.health ELSE old.health] \in View
    BY <2>1 DEF View
  <2> QED
    BY <1>4, <2>2, MergedParts
<1> QED
  BY <1>1, <1>2, <1>3, <1>4, RecordParts

LEMMA AppliedType ==
  ASSUME NEW a \in ReplicaState, NEW f \in Frame
  PROVE  Applied(a, f) \in ReplicaState
<1>1. /\ a.epoch \in 0 .. MaxChanges /\ f.epoch \in 0 .. MaxChanges
      /\ \A e \in Subject : a.ent[e] \in View \cup {Absent} /\ f.rec[e] \in Record
  BY DEF ReplicaState, Frame
<1>2. CASE f.epoch < a.epoch
  BY <1>2 DEF Applied
<1>3. CASE ~(f.epoch < a.epoch)
  <2> DEFINE ent == [e \in Subject |->
                Merged(IF f.epoch > a.epoch THEN Absent ELSE a.ent[e], f.rec[e])]
  <2>1. ent \in [Subject -> View \cup {Absent}]
    <3>1. ASSUME NEW e \in Subject
          PROVE  Merged(IF f.epoch > a.epoch THEN Absent ELSE a.ent[e], f.rec[e])
                   \in View \cup {Absent}
      BY <1>1, MergedType
    <3> QED
      BY <3>1
  <2>2. Applied(a, f) = [epoch |-> f.epoch, ent |-> ent]
    BY <1>3 DEF Applied
  <2> HIDE DEF ent
  <2> QED
    BY <1>1, <2>1, <2>2 DEF ReplicaState
<1> QED
  BY <1>2, <1>3

(***************************************************************************)
(* Chains.                                                                 *)
(***************************************************************************)

LEMMA ChainsAgree ==
  ASSUME NEW s, NEW r, NEW top, NEW h, Chain(s, r, h, top),
         NEW g, g = [k \in 0 .. Len(s) |-> IF k = 0 THEN r ELSE Applied(g[k - 1], s[k])]
  PROVE  \A k \in 0 .. Len(s) : g[k] = h[k]
<1> DEFINE T == {k \in 0 .. Len(s) : g[k] # h[k]}
<1>1. Len(s) \in Nat
  BY DEF Chain
<1>2. SUFFICES ASSUME T # {} PROVE FALSE
  OBVIOUS
<1>3. T \in SUBSET Nat
  BY <1>1
<1>4. PICK x \in T : \A y \in T : x <= y
  <2> HIDE DEF T
  <2> QED
    BY <1>2, <1>3, LeastNumber
<1>5. x \in 0 .. Len(s) /\ g[x] # h[x]
  OBVIOUS
<1>6. x # 0
  BY <1>1, <1>5 DEF Chain
<1>7. x - 1 \in 0 .. Len(s) /\ x \in 1 .. Len(s)
  BY <1>1, <1>6, <1>5
<1>8. g[x - 1] = h[x - 1]
  BY <1>1, <1>4, <1>7
<1>9. g[x] = Applied(g[x - 1], s[x]) /\ h[x] = Applied(h[x - 1], s[x])
  <2>1. h[x] = Applied(h[x - 1], s[x])
    BY <1>7 DEF Chain
  <2>2. g[x] = Applied(g[x - 1], s[x])
    BY <1>6, <1>5
  <2> QED
    BY <2>1, <2>2
<1> QED
  BY <1>8, <1>9, <1>5

(* A chain exists, so Replicas, which is defined by its equation, is one.  *)
LEMMA ReplicasAreTheChain ==
  ASSUME NEW h, NEW top, Chain(Stream, replica, h, top)
  PROVE  /\ \A k \in 0 .. Len(Stream) : Replicas[k] = h[k]
         /\ Len(Stream) \in Nat
<1> DEFINE Eq(g) == g = [k \in 0 .. Len(Stream) |->
                           IF k = 0 THEN replica ELSE Applied(g[k - 1], Stream[k])]
<1>1. Eq(h)
  <2>1. Len(Stream) \in Nat /\ h = [k \in 0 .. Len(Stream) |-> h[k]]
    BY DEF Chain
  <2>2. ASSUME NEW k \in 0 .. Len(Stream)
        PROVE  h[k] = IF k = 0 THEN replica ELSE Applied(h[k - 1], Stream[k])
    BY <2>1 DEF Chain
  <2> QED
    BY <2>1, <2>2
<1>2. Replicas = CHOOSE g : Eq(g)
  BY DEF Replicas
<1>3. Eq(Replicas)
  <2> HIDE DEF Eq
  <2> QED
    BY <1>1, <1>2
<1>4. \A k \in 0 .. Len(Stream) : Replicas[k] = h[k]
  BY <1>3, ChainsAgree
<1> QED
  BY <1>4 DEF Chain

LEMMA AppendParts ==
  ASSUME NEW S, NEW s \in Seq(S), NEW x \in S
  PROVE  /\ Append(s, x) \in Seq(S) /\ Len(Append(s, x)) = Len(s) + 1 /\ Len(s) \in Nat
         /\ \A i \in 1 .. Len(s) : Append(s, x)[i] = s[i]
         /\ Append(s, x)[Len(s) + 1] = x
OBVIOUS

LEMMA TailParts ==
  ASSUME NEW S, NEW s \in Seq(S), s # <<>>
  PROVE  /\ Tail(s) \in Seq(S) /\ Len(s) \in Nat \ {0} /\ Len(Tail(s)) = Len(s) - 1
         /\ \A i \in 1 .. Len(s) - 1 : Tail(s)[i] = s[i + 1]
         /\ Head(s) = s[1] /\ Head(s) \in S
OBVIOUS

LEMMA ConcatParts ==
  ASSUME NEW S, NEW s \in Seq(S), NEW t \in Seq(S)
  PROVE  /\ s \o t \in Seq(S) /\ Len(s \o t) = Len(s) + Len(t)
         /\ \A i \in 1 .. Len(s) : (s \o t)[i] = s[i]
         /\ \A i \in 1 .. Len(s) + Len(t) :
              i > Len(s) => (s \o t)[i] = t[i - Len(s)]
OBVIOUS

LEMMA PrefixParts ==
  ASSUME NEW S, NEW s \in Seq(S), NEW m \in 0 .. Len(s)
  PROVE  /\ SubSeq(s, 1, m) \in Seq(S) /\ Len(SubSeq(s, 1, m)) = m /\ Len(s) \in Nat
         /\ \A i \in 1 .. m : SubSeq(s, 1, m)[i] = s[i]
OBVIOUS

(* One more frame, which makes of the last replica what it says.           *)
LEMMA ChainExtended ==
  ASSUME NEW s, NEW r, NEW h, NEW top \in Int, Chain(s, r, h, top),
         NEW f \in Frame, f.epoch <= top, Fits(f, h[Len(s)])
  PROVE  \E g : /\ Chain(Append(s, f), r, g, top)
                /\ g[Len(Append(s, f))] = Applied(h[Len(s)], f)
<1> DEFINE n == Len(s)
           t == Append(s, f)
           a == Applied(h[n], f)
           g == [k \in 0 .. n + 1 |-> IF k = n + 1 THEN a ELSE h[k]]
<1>1. /\ s \in Seq(Frame) /\ r \in ReplicaState /\ h \in [0 .. n -> ReplicaState]
      /\ h[0] = r /\ n \in Nat
  BY DEF Chain
<1>2. /\ t \in Seq(Frame) /\ Len(t) = n + 1
      /\ \A i \in 1 .. n : t[i] = s[i]
      /\ t[n + 1] = f
  BY <1>1, AppendParts
<1>3. h[n] \in ReplicaState /\ h[n].epoch <= top
  BY <1>1 DEF Chain
<1>4. a \in ReplicaState
  BY <1>3, AppliedType
<1>5. a.epoch <= top
  BY <1>3 DEF Applied
<1>6. \A k \in 0 .. n : g[k] = h[k] /\ k # n + 1
  BY <1>1
<1>7. g[n + 1] = a /\ g \in [0 .. n + 1 -> ReplicaState]
  BY <1>1, <1>4
<1>8. Chain(t, r, g, top)
  <2> HIDE DEF t, g
  <2>1. \A k \in 0 .. n + 1 : k \in 0 .. n \/ k = n + 1
    BY <1>1
  <2>2. g[0] = r
    BY <1>1, <1>6
  <2>3. ASSUME NEW k \in 1 .. n + 1
        PROVE  /\ g[k] = Applied(g[k - 1], t[k]) /\ Fits(t[k], g[k - 1])
               /\ t[k].epoch <= top
    <3>1. CASE k = n + 1
      <4>1. k - 1 = n /\ n \in 0 .. n
        BY <1>1, <3>1
      <4>2. g[k - 1] = h[n] /\ t[k] = f /\ g[k] = a
        BY <1>2, <1>6, <1>7, <3>1, <4>1
      <4> QED
        BY <4>2
    <3>2. CASE k \in 1 .. n
      <4>1. k - 1 \in 0 .. n /\ k \in 0 .. n
        BY <1>1, <3>2
      <4>2. g[k - 1] = h[k - 1] /\ t[k] = s[k] /\ g[k] = h[k]
        BY <1>2, <1>6, <3>2, <4>1
      <4>3. h[k] = Applied(h[k - 1], s[k]) /\ Fits(s[k], h[k - 1]) /\ s[k].epoch <= top
        BY <3>2 DEF Chain
      <4> QED
        BY <4>2, <4>3
    <3> QED
      BY <1>1, <3>1, <3>2
  <2>4. \A k \in 0 .. n + 1 : g[k].epoch <= top
    <3>1. \A k \in 0 .. n : h[k].epoch <= top
      BY DEF Chain
    <3> HIDE DEF n, a
    <3> QED
      BY <1>5, <1>6, <1>7, <2>1, <3>1
  <2> HIDE DEF n, a
  <2> QED
    BY <1>1, <1>2, <1>7, <2>2, <2>3, <2>4 DEF Chain
<1> HIDE DEF g
<1> QED
  BY <1>2, <1>7, <1>8

(* The client applies the first frame.                                     *)
LEMMA ChainShortened ==
  ASSUME NEW s, NEW r, NEW h, NEW top, Chain(s, r, h, top), s # <<>>
  PROVE  \E g : /\ Chain(Tail(s), Applied(r, Head(s)), g, top)
                /\ g[Len(Tail(s))] = h[Len(s)]
<1> DEFINE n == Len(s)
           t == Tail(s)
           g == [k \in 0 .. n - 1 |-> h[k + 1]]
<1>1. /\ s \in Seq(Frame) /\ r \in ReplicaState /\ h \in [0 .. n -> ReplicaState]
      /\ h[0] = r
  BY DEF Chain
<1>2. /\ t \in Seq(Frame) /\ n \in Nat \ {0} /\ Len(t) = n - 1
      /\ \A i \in 1 .. n - 1 : t[i] = s[i + 1]
      /\ Head(s) = s[1]
  BY <1>1, TailParts
<1> HIDE DEF n, t
<1>3. \A k \in 0 .. n - 1 : k + 1 \in 0 .. n /\ k + 1 \in 1 .. n /\ g[k] = h[k + 1]
  BY <1>2
<1>4. g \in [0 .. n - 1 -> ReplicaState]
  BY <1>1, <1>3
<1> HIDE DEF g
<1>5. g[0] = Applied(r, Head(s)) /\ g[0] \in ReplicaState
  <2>1. 0 \in 0 .. n - 1 /\ 1 \in 1 .. n
    BY <1>2
  <2>2. h[1] = Applied(h[1 - 1], s[1])
    BY <2>1 DEF Chain, n
  <2> QED
    BY <1>1, <1>2, <1>3, <1>4, <2>1, <2>2
<1>6. ASSUME NEW k \in 1 .. n - 1
      PROVE  /\ g[k] = Applied(g[k - 1], t[k]) /\ Fits(t[k], g[k - 1])
             /\ t[k].epoch <= top
  <2>1. k \in 0 .. n - 1 /\ k - 1 \in 0 .. n - 1 /\ k + 1 \in 1 .. n /\ (k - 1) + 1 = k
        /\ (k + 1) - 1 = k
    BY <1>2
  <2>2. g[k] = h[k + 1] /\ g[k - 1] = h[k] /\ t[k] = s[k + 1]
    BY <1>2, <1>3, <2>1
  <2>3. /\ h[k + 1] = Applied(h[(k + 1) - 1], s[k + 1]) /\ Fits(s[k + 1], h[(k + 1) - 1])
        /\ s[k + 1].epoch <= top
    BY <2>1 DEF Chain, n
  <2> QED
    BY <2>1, <2>2, <2>3
<1>7. \A k \in 0 .. n - 1 : g[k].epoch <= top
  <2>1. \A k \in 0 .. n : h[k].epoch <= top
    BY DEF Chain, n
  <2> QED
    BY <1>3, <2>1
<1>8. g[n - 1] = h[n]
  <2>1. n - 1 \in 0 .. n - 1 /\ (n - 1) + 1 = n
    BY <1>2
  <2> QED
    BY <1>3, <2>1
<1>9. Chain(t, Applied(r, Head(s)), g, top)
  BY <1>2, <1>4, <1>5, <1>6, <1>7 DEF Chain
<1> QED
  BY <1>2, <1>8, <1>9 DEF n, t

(* A purge leaves what is on the stream already.                           *)
LEMMA ChainCut ==
  ASSUME NEW s, NEW r, NEW h, NEW top \in Int, Chain(s, r, h, top),
         NEW m \in 0 .. Len(s), NEW up \in Int, top <= up
  PROVE  \E g : /\ Chain(SubSeq(s, 1, m), r, g, up)
                /\ g[m] = h[m] /\ h[m].epoch <= top /\ h[m] \in ReplicaState
<1> DEFINE n == Len(s)
           t == SubSeq(s, 1, m)
           g == [k \in 0 .. m |-> h[k]]
<1>1. /\ s \in Seq(Frame) /\ r \in ReplicaState /\ h \in [0 .. n -> ReplicaState]
      /\ h[0] = r
  BY DEF Chain
<1>2. /\ t \in Seq(Frame) /\ Len(t) = m /\ n \in Nat
      /\ \A i \in 1 .. m : t[i] = s[i]
  BY <1>1, PrefixParts
<1> HIDE DEF n, t
<1>3. \A k \in 0 .. m : k \in 0 .. n /\ g[k] = h[k]
  BY <1>2 DEF n
<1>4. g \in [0 .. m -> ReplicaState]
  BY <1>1, <1>3
<1> HIDE DEF g
<1>5. \A k \in 0 .. n : h[k] \in ReplicaState /\ h[k].epoch \in Int /\ h[k].epoch <= top
  <2>1. \A k \in 0 .. n : h[k].epoch <= top
    BY DEF Chain, n
  <2>2. \A k \in 0 .. n : h[k] \in ReplicaState
    BY <1>1
  <2>3. \A x \in ReplicaState : x.epoch \in Int
    BY Bounds DEF ReplicaState
  <2> QED
    BY <2>1, <2>2, <2>3
<1>6. ASSUME NEW k \in 1 .. m
      PROVE  /\ g[k] = Applied(g[k - 1], t[k]) /\ Fits(t[k], g[k - 1])
             /\ t[k].epoch <= up
  <2>1. k \in 0 .. m /\ k - 1 \in 0 .. m /\ k \in 1 .. n
    BY <1>2 DEF n
  <2>2. g[k] = h[k] /\ g[k - 1] = h[k - 1] /\ t[k] = s[k]
    BY <1>2, <1>3, <2>1
  <2>3. /\ h[k] = Applied(h[k - 1], s[k]) /\ Fits(s[k], h[k - 1]) /\ s[k].epoch <= top
    BY <2>1 DEF Chain, n
  <2>4. s[k].epoch \in Int
    <3>1. s[k] \in Frame
      BY <1>1, <2>1 DEF n
    <3> QED
      BY <3>1, Bounds DEF Frame
  <2> QED
    BY <2>2, <2>3, <2>4
<1>7. \A k \in 0 .. m : g[k].epoch <= up
  BY <1>3, <1>5
<1>8. 0 \in 0 .. m /\ m \in 0 .. m
  BY <1>2 DEF n
<1>9. Chain(t, r, g, up)
  BY <1>1, <1>2, <1>3, <1>4, <1>6, <1>7, <1>8 DEF Chain
<1> QED
  BY <1>3, <1>5, <1>8, <1>9 DEF t

(* A frame that is written goes from the queue to the stream.              *)
LEMMA WrittenKeepsStream ==
  ASSUME NEW w \in Seq(Frame), NEW p \in Seq(Frame), p # <<>>
  PROVE  Append(w, Head(p)) \o Tail(p) = w \o p
<1> DEFINE u == Append(w, Head(p))
           q == Tail(p)
<1>1. /\ u \in Seq(Frame) /\ Len(u) = Len(w) + 1 /\ Len(w) \in Nat
      /\ \A i \in 1 .. Len(w) : u[i] = w[i]
      /\ u[Len(w) + 1] = p[1]
  BY TailParts, AppendParts
<1>2. /\ q \in Seq(Frame) /\ Len(p) \in Nat \ {0} /\ Len(q) = Len(p) - 1
      /\ \A i \in 1 .. Len(p) - 1 : q[i] = p[i + 1]
  BY TailParts
<1> HIDE DEF u, q
<1>3. /\ u \o q \in Seq(Frame) /\ Len(u \o q) = Len(u) + Len(q)
      /\ \A i \in 1 .. Len(u) : (u \o q)[i] = u[i]
      /\ \A i \in 1 .. Len(u) + Len(q) : i > Len(u) => (u \o q)[i] = q[i - Len(u)]
  <2>1. u \in Seq(Frame) /\ q \in Seq(Frame)
    BY <1>1, <1>2
  <2> QED
    BY <2>1, ConcatParts
<1>4. /\ w \o p \in Seq(Frame) /\ Len(w \o p) = Len(w) + Len(p)
      /\ \A i \in 1 .. Len(w) : (w \o p)[i] = w[i]
      /\ \A i \in 1 .. Len(w) + Len(p) : i > Len(w) => (w \o p)[i] = p[i - Len(w)]
  BY ConcatParts
<1> DEFINE a == u \o q
           b == w \o p
<1>5. a = b
  <2> DEFINE m == Len(w)
             n == Len(p)
  <2>1. /\ m \in Nat /\ n \in Nat \ {0} /\ Len(u) = m + 1 /\ Len(q) = n - 1
        /\ Len(a) = m + n /\ Len(b) = m + n
    BY <1>1, <1>2, <1>3, <1>4
  <2>2. ASSUME NEW i \in 1 .. m + n PROVE a[i] = b[i]
    <3>1. CASE i \in 1 .. m
      BY <1>1, <1>3, <1>4, <2>1, <3>1
    <3>2. CASE i = m + 1
      <4>1. i \in 1 .. Len(u) /\ i \in 1 .. Len(w) + Len(p) /\ i > Len(w) /\ i - Len(w) = 1
        BY <2>1, <3>2
      <4> QED
        BY <1>1, <1>3, <1>4, <3>2, <4>1
    <3>3. CASE i > m + 1
      <4>1. /\ i \in 1 .. Len(u) + Len(q) /\ i > Len(u) /\ i \in 1 .. Len(w) + Len(p)
            /\ i > Len(w) /\ i - Len(u) \in 1 .. Len(p) - 1
            /\ (i - Len(u)) + 1 = i - Len(w)
        BY <2>1, <3>3
      <4>2. a[i] = q[i - Len(u)] /\ b[i] = p[i - Len(w)]
        BY <1>3, <1>4, <4>1
      <4> QED
        BY <1>2, <4>1, <4>2
    <3> QED
      BY <2>1, <3>1, <3>2, <3>3
  <2>3. a \in Seq(Frame) /\ b \in Seq(Frame)
    BY <1>3, <1>4
  <2> HIDE DEF a, b, m, n
  <2> QED
    BY <2>1, <2>2, <2>3
<1> QED
  BY <1>5 DEF u, q

(***************************************************************************)
(* What a frame commits, entity by entity.                                 *)
(***************************************************************************)

IsSettled(s, w, o, es) ==
  /\ s \in ObsState /\ s.epoch = o.epoch /\ s.life = o.life
  /\ s.dead = o.dead /\ s.pending = o.pending
  /\ \A e \in Subject : s.lag[e] = IF e \in es THEN {} ELSE o.lag[e]
  /\ \A e \in Subject :
       e \in s.immune <=>
         IF e \in es /\ "health" \in o.lag[e] THEN Immune(w, e) ELSE e \in o.immune

LEMMA SettleFields ==
  ASSUME NEW w, NEW o \in ObsState, NEW es \in SUBSET Subject
  PROVE  IsSettled(Settle(w, o, es), w, o, es)
<1> DEFINE lag == [e \in Subject |-> IF e \in es THEN {} ELSE o.lag[e]]
           imm == (o.immune \ {e \in es : "health" \in o.lag[e]})
                    \cup {e \in es : "health" \in o.lag[e] /\ Immune(w, e)}
           t == [o EXCEPT !.lag = lag]
           s == [t EXCEPT !.immune = imm]
<1>1. o.lag \in [Subject -> SUBSET Domain] /\ o.immune \subseteq Subject
  BY DEF ObsState
<1>2. Settle(w, o, es) = s
  BY DEF Settle, ObsState
<1>3. lag \in [Subject -> SUBSET Domain] /\ imm \in SUBSET Subject
  BY <1>1
<1>4. \A e \in Subject : lag[e] = IF e \in es THEN {} ELSE o.lag[e]
  OBVIOUS
<1>5. \A e \in Subject :
        e \in imm <=>
          IF e \in es /\ "health" \in o.lag[e] THEN Immune(w, e) ELSE e \in o.immune
  OBVIOUS
<1> HIDE DEF lag, imm
<1>6. /\ t \in ObsState /\ t.epoch = o.epoch /\ t.life = o.life /\ t.dead = o.dead
      /\ t.pending = o.pending /\ t.lag = lag /\ t.immune = o.immune
  BY <1>3 DEF ObsState
<1> HIDE DEF t
<1>7. /\ s \in ObsState /\ s.epoch = o.epoch /\ s.life = o.life /\ s.dead = o.dead
      /\ s.pending = o.pending /\ s.lag = lag /\ s.immune = imm
  BY <1>3, <1>6 DEF ObsState
<1> HIDE DEF s
<1> QED
  BY <1>2, <1>4, <1>5, <1>7 DEF IsSettled

LEMMA LeftFields ==
  ASSUME NEW o \in ObsState, NEW es \in SUBSET Subject
  PROVE  LET s == Left(o, es)
         IN  /\ s \in ObsState /\ s.epoch = o.epoch /\ s.lag = o.lag
             /\ s.pending = o.pending \ es /\ s.dead = o.dead \ es
             /\ s.immune = o.immune \ es
             /\ \A e \in Subject : s.life[e] = IF e \in es THEN "none" ELSE o.life[e]
<1> DEFINE life == [e \in Subject |-> IF e \in es THEN "none" ELSE o.life[e]]
           t == [o EXCEPT !.life = life]
           u == [t EXCEPT !.pending = @ \ es]
           v == [u EXCEPT !.dead = @ \ es]
           s == [v EXCEPT !.immune = @ \ es]
<1>1. Left(o, es) = s
  BY DEF Left, ObsState
<1>2. life \in [Subject -> {"none", "wantEnter", "known", "wantLeave"}]
  BY DEF ObsState
<1>3. \A e \in Subject : life[e] = IF e \in es THEN "none" ELSE o.life[e]
  OBVIOUS
<1> HIDE DEF life
<1>4. /\ t \in ObsState /\ t.epoch = o.epoch /\ t.lag = o.lag /\ t.pending = o.pending
      /\ t.dead = o.dead /\ t.immune = o.immune /\ t.life = life
  BY <1>2 DEF ObsState
<1> HIDE DEF t
<1>5. /\ u \in ObsState /\ u.epoch = o.epoch /\ u.lag = o.lag /\ u.pending = o.pending \ es
      /\ u.dead = o.dead /\ u.immune = o.immune /\ u.life = life
  BY <1>4 DEF ObsState
<1> HIDE DEF u
<1>6. /\ v \in ObsState /\ v.epoch = o.epoch /\ v.lag = o.lag /\ v.pending = o.pending \ es
      /\ v.dead = o.dead \ es /\ v.immune = o.immune /\ v.life = life
  BY <1>5 DEF ObsState
<1> HIDE DEF v
<1>7. /\ s \in ObsState /\ s.epoch = o.epoch /\ s.lag = o.lag /\ s.pending = o.pending \ es
      /\ s.dead = o.dead \ es /\ s.immune = o.immune \ es /\ s.life = life
  BY <1>6 DEF ObsState
<1> HIDE DEF s
<1> QED
  BY <1>1, <1>3, <1>7

IsKnown(s, w, o, es) ==
  /\ s \in ObsState /\ s.epoch = o.epoch /\ s.pending = o.pending
  /\ \A e \in Subject :
       /\ s.life[e] = IF e \in es THEN "known" ELSE o.life[e]
       /\ s.lag[e] = IF e \in es THEN {} ELSE o.lag[e]
       /\ e \in s.immune <=> IF e \in es THEN Immune(w, e) ELSE e \in o.immune
       /\ e \in s.dead <=> IF e \in es THEN Dead(w, e) ELSE e \in o.dead

LEMMA KnownFields ==
  ASSUME NEW w, NEW o \in ObsState, NEW es \in SUBSET Subject
  PROVE  IsKnown(Known(w, o, es), w, o, es)
<1> DEFINE lag == [e \in Subject |-> IF e \in es THEN {"health"} ELSE o.lag[e]]
           t == [o EXCEPT !.lag = lag]
           u == Settle(w, t, es)
           life == [e \in Subject |-> IF e \in es THEN "known" ELSE o.life[e]]
           dead == (o.dead \ es) \cup {e \in es : Dead(w, e)}
           v == [u EXCEPT !.life = life]
           s == [v EXCEPT !.dead = dead]
<1>1. o.lag \in [Subject -> SUBSET Domain] /\ o.dead \subseteq Subject
      /\ o.life \in [Subject -> {"none", "wantEnter", "known", "wantLeave"}]
  BY DEF ObsState
<1>2. /\ lag \in [Subject -> SUBSET Domain] /\ dead \in SUBSET Subject
      /\ life \in [Subject -> {"none", "wantEnter", "known", "wantLeave"}]
  BY <1>1 DEF Domain
<1>3. \A e \in Subject : /\ lag[e] = IF e \in es THEN {"health"} ELSE o.lag[e]
                         /\ life[e] = IF e \in es THEN "known" ELSE o.life[e]
                         /\ e \in dead <=> IF e \in es THEN Dead(w, e) ELSE e \in o.dead
  OBVIOUS
<1>4. t \in ObsState /\ t.epoch = o.epoch /\ t.life = o.life /\ t.dead = o.dead
      /\ t.pending = o.pending /\ t.immune = o.immune /\ t.lag = lag
  BY <1>2 DEF ObsState
<1>5. Known(w, o, es) = s
  <2>1. Known(w, o, es) =
          [u EXCEPT !.life = [e \in Subject |-> IF e \in es THEN "known" ELSE u.life[e]],
                    !.dead = (u.dead \ es) \cup {e \in es : Dead(w, e)}]
    BY DEF Known
  <2>2. u \in ObsState /\ u.life = o.life /\ u.dead = o.dead
    <3> HIDE DEF t
    <3>1. IsSettled(u, w, t, es)
      BY <1>4, SettleFields
    <3> QED
      BY <1>4, <3>1 DEF IsSettled
  <2> HIDE DEF u
  <2> QED
    BY <2>1, <2>2 DEF ObsState
<1> HIDE DEF t, lag
<1>6. /\ u \in ObsState /\ u.epoch = o.epoch /\ u.pending = o.pending
      /\ \A e \in Subject : u.lag[e] = IF e \in es THEN {} ELSE lag[e]
      /\ \A e \in Subject :
           e \in u.immune <=>
             IF e \in es /\ "health" \in lag[e] THEN Immune(w, e) ELSE e \in o.immune
  <2>1. IsSettled(u, w, t, es)
    BY <1>4, SettleFields
  <2> HIDE DEF u
  <2> QED
    BY <1>4, <2>1 DEF IsSettled
<1> HIDE DEF u, lag, life, dead
<1>7. /\ v \in ObsState /\ v.epoch = o.epoch /\ v.pending = o.pending
      /\ v.lag = u.lag /\ v.immune = u.immune /\ v.life = life
  BY <1>2, <1>6 DEF ObsState
<1> HIDE DEF v
<1>8. /\ s \in ObsState /\ s.epoch = o.epoch /\ s.pending = o.pending
      /\ s.lag = u.lag /\ s.immune = u.immune /\ s.life = life /\ s.dead = dead
  BY <1>2, <1>7 DEF ObsState
<1> HIDE DEF s
<1>9. \A e \in Subject : e \in es => "health" \in lag[e]
  BY <1>3
<1>10. \A e \in Subject :
         /\ u.lag[e] = IF e \in es THEN {} ELSE o.lag[e]
         /\ e \in u.immune <=> IF e \in es THEN Immune(w, e) ELSE e \in o.immune
  BY <1>3, <1>6, <1>9
<1> QED
  BY <1>3, <1>5, <1>8, <1>10 DEF IsKnown

(* A published frame: the Leaves `out`, the Enters `in`, the Updates `upd`,  *)
(* the entities settled in silence, and the updates that stay pending.     *)
Chosen(w, o, friends, silent, out, in, upd) ==
  /\ out \subseteq InState(o, "wantLeave") /\ in \subseteq InState(o, "wantEnter")
  /\ silent \subseteq InState(o, "known") /\ upd \subseteq InState(o, "known")
  /\ \A e \in silent : Eligible(w, o, friends, e) = {}
  /\ upd \cap silent = {}

Committed(w, o, friends, silent, out, in, upd, kept) ==
  LET seen == {e \in upd : "health" \in Eligible(w, o, friends, e)}
      told == [Settle(w, o, silent \cup upd) EXCEPT
                 !.dead = (@ \ seen) \cup {e \in seen : Dead(w, e)},
                 !.pending = kept]
  IN  Known(w, Left(told, out), in)

IsCommitted(s, w, o, friends, silent, out, in, upd, kept) ==
  /\ s \in ObsState /\ s.epoch = o.epoch /\ s.pending = kept \ out
  /\ \A e \in Subject :
       /\ s.life[e] = IF e \in in THEN "known"
                      ELSE IF e \in out THEN "none" ELSE o.life[e]
       /\ s.lag[e] = IF e \in in \cup silent \cup upd THEN {} ELSE o.lag[e]
       /\ e \in s.dead <=> IF e \in in THEN Dead(w, e)
                           ELSE IF e \in out THEN FALSE
                           ELSE IF e \in upd /\ "health" \in Eligible(w, o, friends, e)
                           THEN Dead(w, e)
                           ELSE e \in o.dead
       /\ e \in s.immune <=> IF e \in in THEN Immune(w, e)
                             ELSE IF e \in out THEN FALSE
                             ELSE IF e \in silent \cup upd /\ "health" \in o.lag[e]
                             THEN Immune(w, e)
                             ELSE e \in o.immune

LEMMA CommittedFields ==
  ASSUME NEW w, NEW o \in ObsState, NEW friends, NEW silent, NEW out, NEW in, NEW upd,
         NEW kept \in SUBSET Subject, Chosen(w, o, friends, silent, out, in, upd)
  PROVE  IsCommitted(Committed(w, o, friends, silent, out, in, upd, kept),
                     w, o, friends, silent, out, in, upd, kept)
<1> DEFINE es == silent \cup upd
           seen == {e \in upd : "health" \in Eligible(w, o, friends, e)}
           t == Settle(w, o, es)
           dead == (t.dead \ seen) \cup {e \in seen : Dead(w, e)}
           u == [t EXCEPT !.dead = dead]
           v == [u EXCEPT !.pending = kept]
           x == Left(v, out)
           s == Known(w, x, in)
<1>1. /\ silent \subseteq Subject /\ upd \subseteq Subject /\ out \subseteq Subject
      /\ in \subseteq Subject
  BY DEF Chosen, InState
<1>2. es \in SUBSET Subject /\ seen \subseteq Subject
  BY <1>1
<1>3. /\ t \in ObsState /\ t.epoch = o.epoch /\ t.life = o.life /\ t.dead = o.dead
      /\ \A e \in Subject : t.lag[e] = IF e \in es THEN {} ELSE o.lag[e]
      /\ \A e \in Subject :
           e \in t.immune <=>
             IF e \in es /\ "health" \in o.lag[e] THEN Immune(w, e) ELSE e \in o.immune
  <2>1. IsSettled(t, w, o, es)
    <3> HIDE DEF es
    <3> QED
      BY <1>2, SettleFields
  <2> HIDE DEF t, es
  <2> QED
    BY <2>1 DEF IsSettled
<1>4. Committed(w, o, friends, silent, out, in, upd, kept) = s
  <2>1. v = [t EXCEPT !.dead = (@ \ seen) \cup {e \in seen : Dead(w, e)}, !.pending = kept]
    <3> HIDE DEF t, seen
    <3> QED
      BY <1>3 DEF ObsState
  <2> QED
    BY <2>1 DEF Committed
<1>5. /\ dead \in SUBSET Subject
      /\ \A e \in Subject :
           e \in dead <=> IF e \in upd /\ "health" \in Eligible(w, o, friends, e)
                          THEN Dead(w, e) ELSE e \in o.dead
  <2>1. o.dead \subseteq Subject
    BY DEF ObsState
  <2> HIDE DEF t
  <2> QED
    BY <1>2, <1>3, <2>1
<1> HIDE DEF t, dead
<1>6. /\ u \in ObsState /\ u.epoch = o.epoch /\ u.life = o.life /\ u.dead = dead
      /\ u.lag = t.lag /\ u.immune = t.immune
  BY <1>3, <1>5 DEF ObsState
<1> HIDE DEF u
<1>7. /\ v \in ObsState /\ v.epoch = o.epoch /\ v.life = o.life /\ v.dead = dead
      /\ v.lag = t.lag /\ v.immune = t.immune /\ v.pending = kept
  BY <1>6 DEF ObsState
<1> HIDE DEF v
<1>8. /\ x \in ObsState /\ x.epoch = o.epoch /\ x.lag = t.lag /\ x.pending = kept \ out
      /\ x.dead = dead \ out /\ x.immune = t.immune \ out
      /\ \A e \in Subject : x.life[e] = IF e \in out THEN "none" ELSE o.life[e]
  BY <1>1, <1>7, LeftFields
<1> HIDE DEF x
<1>9. /\ s \in ObsState /\ s.epoch = o.epoch /\ s.pending = kept \ out
      /\ \A e \in Subject :
           /\ s.life[e] = IF e \in in THEN "known" ELSE x.life[e]
           /\ s.lag[e] = IF e \in in THEN {} ELSE x.lag[e]
           /\ e \in s.immune <=> IF e \in in THEN Immune(w, e) ELSE e \in x.immune
           /\ e \in s.dead <=> IF e \in in THEN Dead(w, e) ELSE e \in x.dead
  <2>1. IsKnown(s, w, x, in)
    BY <1>1, <1>8, KnownFields
  <2> HIDE DEF s
  <2> QED
    BY <1>8, <2>1 DEF IsKnown
<1> HIDE DEF s
<1>10. ASSUME NEW e \in Subject
       PROVE  /\ s.life[e] = IF e \in in THEN "known"
                             ELSE IF e \in out THEN "none" ELSE o.life[e]
              /\ s.lag[e] = IF e \in in \cup silent \cup upd THEN {} ELSE o.lag[e]
              /\ e \in s.dead <=> IF e \in in THEN Dead(w, e)
                                  ELSE IF e \in out THEN FALSE
                                  ELSE IF e \in upd /\ "health" \in Eligible(w, o, friends, e)
                                  THEN Dead(w, e)
                                  ELSE e \in o.dead
              /\ e \in s.immune <=> IF e \in in THEN Immune(w, e)
                                    ELSE IF e \in out THEN FALSE
                                    ELSE IF e \in silent \cup upd /\ "health" \in o.lag[e]
                                    THEN Immune(w, e)
                                    ELSE e \in o.immune
  BY <1>3, <1>5, <1>8, <1>9
<1> QED
  BY <1>4, <1>9, <1>10 DEF IsCommitted

LEMMA ViewOfType ==
  ASSUME NEW w \in WorldState, NEW e \in Subject
  PROVE  /\ ViewOf(w, e) \in View /\ ViewOf(w, e) # Absent
         /\ ViewOf(w, e).look = w[e].look /\ ViewOf(w, e).health = w[e].health
<1>1. ViewOf(w, e) \in View
  BY DEF ViewOf, WorldState, View
<1>2. ViewOf(w, e).look = w[e].look /\ ViewOf(w, e).health = w[e].health
  BY DEF ViewOf
<1> QED
  BY <1>1, <1>2, ViewIsThere

LEMMA EligibleParts ==
  ASSUME NEW w, NEW o \in ObsState, NEW friends, NEW e \in Subject
  PROVE  /\ Eligible(w, o, friends, e) \subseteq o.lag[e]
         /\ Eligible(w, o, friends, e) \subseteq Domain
         /\ "look" \in o.lag[e] => "look" \in Eligible(w, o, friends, e)
         /\ "health" \in o.lag[e] /\ "health" \notin Eligible(w, o, friends, e) =>
              ~Dead(w, e) /\ e \notin o.dead /\ (e \in o.immune => Immune(w, e))
<1>1. o.lag[e] \subseteq Domain
  BY DEF ObsState
<1>2. Eligible(w, o, friends, e) \subseteq o.lag[e]
  BY DEF Eligible
<1>3. "look" \in o.lag[e] => "look" \in Eligible(w, o, friends, e)
  BY DEF Eligible
<1>4. "health" \in o.lag[e] /\ "health" \notin Eligible(w, o, friends, e) => ~MustTell(w, o, e)
  BY DEF Eligible
<1> QED
  BY <1>1, <1>2, <1>3, <1>4 DEF MustTell

LEMMA PackedParts ==
  ASSUME NEW w \in WorldState, NEW o \in ObsState, NEW friends, NEW out, NEW in, NEW upd
  PROVE  LET f == Packed(w, o, out, in, upd, friends)
         IN  /\ f \in Frame /\ f.epoch = o.epoch
             /\ \A e \in Subject :
                  /\ e \in out => f.rec[e].op = "leave"
                  /\ e \notin out /\ e \in in =>
                       f.rec[e].op = "enter" /\ f.rec[e].view = ViewOf(w, e)
                  /\ e \notin out /\ e \notin in /\ e \in upd =>
                       /\ f.rec[e].op = "update" /\ f.rec[e].view = ViewOf(w, e)
                       /\ f.rec[e].of = Eligible(w, o, friends, e)
                  /\ e \notin out /\ e \notin in /\ e \notin upd => f.rec[e].op = "none"
<1> DEFINE R(e) == IF e \in out THEN [op |-> "leave"]
                   ELSE IF e \in in THEN [op |-> "enter", view |-> ViewOf(w, e)]
                   ELSE IF e \in upd
                   THEN [op |-> "update", of |-> Eligible(w, o, friends, e), view |-> ViewOf(w, e)]
                   ELSE NoRecord
           rec == [e \in Subject |-> R(e)]
           f == [epoch |-> o.epoch, rec |-> rec]
<1>1. Packed(w, o, out, in, upd, friends) = f
  BY DEF Packed
<1>2. ASSUME NEW e \in Subject
      PROVE  /\ R(e) \in Record
             /\ e \in out => R(e).op = "leave"
             /\ e \notin out /\ e \in in => R(e).op = "enter" /\ R(e).view = ViewOf(w, e)
             /\ e \notin out /\ e \notin in /\ e \in upd =>
                  /\ R(e).op = "update" /\ R(e).view = ViewOf(w, e)
                  /\ R(e).of = Eligible(w, o, friends, e)
             /\ e \notin out /\ e \notin in /\ e \notin upd => R(e).op = "none"
  <2>1. ViewOf(w, e) \in View /\ Eligible(w, o, friends, e) \subseteq Domain
    BY ViewOfType, EligibleParts
  <2>2. CASE e \in out
    BY <2>2 DEF Record
  <2>3. CASE e \notin out /\ e \in in
    BY <2>1, <2>3 DEF Record
  <2>4. CASE e \notin out /\ e \notin in /\ e \in upd
    BY <2>1, <2>4 DEF Record
  <2>5. CASE e \notin out /\ e \notin in /\ e \notin upd
    BY <2>5 DEF Record, NoRecord
  <2> QED
    BY <2>2, <2>3, <2>4, <2>5
<1>3. \A e \in Subject : rec[e] = R(e)
  OBVIOUS
<1> HIDE DEF R
<1>4. rec \in [Subject -> Record]
  BY <1>2
<1> HIDE DEF rec
<1>5. o.epoch \in 0 .. MaxChanges
  BY DEF ObsState
<1>6. f \in Frame /\ f.epoch = o.epoch /\ f.rec = rec
  BY <1>4, <1>5 DEF Frame
<1> HIDE DEF f
<1> QED
  BY <1>1, <1>2, <1>3, <1>6

(* One entity: what the frame does to its copy is what the record says.    *)
LEMMA EntityTold ==
  ASSUME NEW w \in WorldState, NEW o \in ObsState, NEW friends, NEW silent, NEW out, NEW in,
         NEW upd, NEW kept \in SUBSET Subject, Chosen(w, o, friends, silent, out, in, upd),
         NEW e \in Subject, NEW v \in View \cup {Absent}, Knows(w, o, e, v)
  PROVE  LET r == Packed(w, o, out, in, upd, friends).rec[e]
         IN  /\ r.op \in {"update", "leave"} => v # Absent
             /\ r.op = "enter" => v = Absent
             /\ Knows(w, Committed(w, o, friends, silent, out, in, upd, kept), e, Merged(v, r))
<1> DEFINE f == Packed(w, o, out, in, upd, friends)
           r == f.rec[e]
           s == Committed(w, o, friends, silent, out, in, upd, kept)
           of == Eligible(w, o, friends, e)
           m == Merged(v, r)
<1>1. /\ e \in out => o.life[e] = "wantLeave"
      /\ e \in in => o.life[e] = "wantEnter"
      /\ e \in upd => o.life[e] = "known" /\ e \notin silent
      /\ e \in silent => o.life[e] = "known" /\ of = {}
  BY DEF Chosen, InState
<1>2. /\ r \in Record
      /\ e \in out => r.op = "leave"
      /\ e \in in => r.op = "enter" /\ r.view = ViewOf(w, e)
      /\ e \in upd => r.op = "update" /\ r.view = ViewOf(w, e) /\ r.of = of
      /\ e \notin out /\ e \notin in /\ e \notin upd => r.op = "none"
  <2>1. f \in Frame
    BY PackedParts
  <2>2. f.rec[e] \in Record
    <3> HIDE DEF f
    <3> QED
      BY <2>1 DEF Frame
  <2> QED
    BY <1>1, <2>2, PackedParts
<1>3. /\ s.life[e] = IF e \in in THEN "known" ELSE IF e \in out THEN "none" ELSE o.life[e]
      /\ s.lag[e] = IF e \in in \cup silent \cup upd THEN {} ELSE o.lag[e]
      /\ e \in s.dead <=> IF e \in in THEN Dead(w, e)
                          ELSE IF e \in out THEN FALSE
                          ELSE IF e \in upd /\ "health" \in of THEN Dead(w, e)
                          ELSE e \in o.dead
      /\ e \in s.immune <=> IF e \in in THEN Immune(w, e)
                            ELSE IF e \in out THEN FALSE
                            ELSE IF e \in silent \cup upd /\ "health" \in o.lag[e]
                            THEN Immune(w, e)
                            ELSE e \in o.immune
  <2>1. IsCommitted(s, w, o, friends, silent, out, in, upd, kept)
    BY CommittedFields
  <2> HIDE DEF s, of
  <2> QED
    BY <2>1 DEF IsCommitted, of
<1>4. /\ of \subseteq o.lag[e]
      /\ "look" \in o.lag[e] => "look" \in of
      /\ "health" \in o.lag[e] /\ "health" \notin of =>
           ~Dead(w, e) /\ e \notin o.dead /\ (e \in o.immune => Immune(w, e))
  BY EligibleParts
<1>5. /\ ViewOf(w, e) \in View /\ ViewOf(w, e) # Absent
      /\ ViewOf(w, e).look = w[e].look
      /\ ViewOf(w, e).health = "dead" <=> Dead(w, e)
      /\ ViewOf(w, e).health = "immune" <=> Immune(w, e)
  BY ViewOfType DEF Dead, Immune
<1>6. /\ r.op = "enter" => m = r.view
      /\ r.op = "leave" => m = Absent
      /\ r.op = "none" => m = v
      /\ r.op = "update" /\ v # Absent =>
           m = [look |-> IF "look" \in r.of THEN r.view.look ELSE v.look,
                health |-> IF "health" \in r.of THEN r.view.health ELSE v.health]
  BY <1>2, MergedParts
<1>7. /\ v # Absent <=> o.life[e] \in {"known", "wantLeave"}
      /\ o.life[e] = "known" =>
           /\ v.health = "dead" <=> e \in o.dead
           /\ v.health = "immune" => e \in o.immune
           /\ "look" \notin o.lag[e] => v.look = w[e].look
           /\ "health" \notin o.lag[e] =>
                (v.health = "dead" <=> Dead(w, e)) /\ (v.health = "immune" => Immune(w, e))
  BY DEF Knows
<1> SUFFICES /\ r.op \in {"update", "leave"} => v # Absent
             /\ r.op = "enter" => v = Absent
             /\ Knows(w, s, e, m)
  OBVIOUS
<1> HIDE DEF f, r, s, of, m
<1>8. CASE e \in out
  <2>1. e \notin in /\ e \notin upd /\ e \notin silent
    BY <1>1, <1>8
  <2>2. s.life[e] = "none" /\ m = Absent
    BY <1>2, <1>3, <1>6, <1>8, <2>1
  <2> QED
    BY <1>1, <1>2, <1>7, <1>8, <2>2 DEF Knows
<1>9. CASE e \in in
  <2>1. m = ViewOf(w, e) /\ r.op = "enter"
    BY <1>2, <1>6, <1>9
  <2>2. /\ s.life[e] = "known" /\ s.lag[e] = {} /\ (e \in s.dead <=> Dead(w, e))
        /\ e \in s.immune <=> Immune(w, e)
    BY <1>3, <1>9
  <2>3. v = Absent
    BY <1>1, <1>7, <1>9
  <2> QED
    BY <1>5, <2>1, <2>2, <2>3 DEF Knows
<1>10. CASE e \in upd
  <2>1. e \notin in /\ e \notin out /\ o.life[e] = "known" /\ r.op = "update" /\ v # Absent
    BY <1>1, <1>2, <1>7, <1>10
  <2>2. /\ s.life[e] = "known" /\ s.lag[e] = {}
        /\ e \in s.dead <=> IF "health" \in of THEN Dead(w, e) ELSE e \in o.dead
        /\ e \in s.immune <=> IF "health" \in o.lag[e] THEN Immune(w, e) ELSE e \in o.immune
    BY <1>3, <1>10, <2>1
  <2> DEFINE x == [look |-> IF "look" \in of THEN w[e].look ELSE v.look,
                   health |-> IF "health" \in of THEN ViewOf(w, e).health ELSE v.health]
  <2>3. m = x
    BY <1>2, <1>5, <1>6, <1>10, <2>1
  <2>4. x \in View
    BY <1>5, <2>1 DEF View, WorldState
  <2>5. m # Absent
    <3> HIDE DEF x
    <3> QED
      BY <2>3, <2>4, ViewIsThere
  <2>6. m.look = w[e].look
    BY <1>4, <1>7, <2>1, <2>3
  <2>7. m.health = IF "health" \in of THEN ViewOf(w, e).health ELSE v.health
    BY <2>3
  <2>8. (m.health = "dead" <=> Dead(w, e)) /\ (m.health = "immune" => Immune(w, e))
    BY <1>4, <1>5, <1>7, <2>1, <2>7
  <2>9. (m.health = "dead" <=> e \in s.dead) /\ (m.health = "immune" => e \in s.immune)
    <3>1. CASE "health" \in of
      BY <1>4, <2>2, <2>8, <3>1
    <3>2. CASE "health" \notin of
      BY <1>7, <2>1, <2>2, <2>7, <2>8, <3>2
    <3> QED
      BY <3>1, <3>2
  <2> QED
    BY <2>1, <2>2, <2>5, <2>6, <2>8, <2>9 DEF Knows
<1>11. CASE e \notin out /\ e \notin in /\ e \notin upd
  <2>1. m = v /\ r.op = "none" /\ s.life[e] = o.life[e]
        /\ (e \in s.dead <=> e \in o.dead)
    BY <1>2, <1>3, <1>6, <1>11
  <2>2. CASE e \notin silent
    <3>1. s.lag[e] = o.lag[e] /\ (e \in s.immune <=> e \in o.immune)
      BY <1>3, <1>11, <2>2
    <3> QED
      BY <1>7, <2>1, <3>1 DEF Knows
  <2>3. CASE e \in silent
    <3>1. /\ s.lag[e] = {} /\ "look" \notin o.lag[e] /\ o.life[e] = "known"
          /\ e \in s.immune <=> IF "health" \in o.lag[e] THEN Immune(w, e) ELSE e \in o.immune
      BY <1>1, <1>3, <1>4, <1>11, <2>3
    <3>2. "health" \notin of
      BY <1>1, <2>3
    <3>3. (v.health = "dead" <=> Dead(w, e)) /\ (v.health = "immune" => Immune(w, e))
      BY <1>4, <1>7, <3>1, <3>2
    <3> QED
      BY <1>7, <2>1, <3>1, <3>3 DEF Knows
  <2> QED
    BY <2>2, <2>3
<1> QED
  BY <1>8, <1>9, <1>10, <1>11

LEMMA PublishTold ==
  ASSUME NEW w \in WorldState, NEW o \in ObsState, NEW friends, NEW silent, NEW out, NEW in,
         NEW upd, NEW kept \in SUBSET Subject, Chosen(w, o, friends, silent, out, in, upd),
         NEW a \in ReplicaState, a.epoch = o.epoch, Told(w, o, a)
  PROVE  LET f == Packed(w, o, out, in, upd, friends)
         IN  /\ Fits(f, a) /\ Applied(a, f).epoch = o.epoch
             /\ Told(w, Committed(w, o, friends, silent, out, in, upd, kept), Applied(a, f))
<1> DEFINE f == Packed(w, o, out, in, upd, friends)
           s == Committed(w, o, friends, silent, out, in, upd, kept)
<1>1. f.epoch = o.epoch /\ o.epoch \in Int
  <2>1. o.epoch \in Int
    BY Bounds DEF ObsState
  <2> QED
    BY <2>1, PackedParts
<1>2. ASSUME NEW e \in Subject
      PROVE  /\ f.rec[e].op \in {"update", "leave"} => a.ent[e] # Absent
             /\ f.rec[e].op = "enter" => a.ent[e] = Absent
             /\ Knows(w, s, e, Merged(a.ent[e], f.rec[e]))
  <2>1. a.ent[e] \in View \cup {Absent} /\ Knows(w, o, e, a.ent[e])
    BY DEF ReplicaState, Told
  <2> QED
    BY <2>1, EntityTold
<1> SUFFICES Fits(f, a) /\ Applied(a, f).epoch = o.epoch /\ Told(w, s, Applied(a, f))
  OBVIOUS
<1> HIDE DEF f, s
<1>3. /\ Applied(a, f).epoch = o.epoch
      /\ \A e \in Subject : Applied(a, f).ent[e] = Merged(a.ent[e], f.rec[e])
  <2>1. ~(f.epoch < a.epoch) /\ ~(f.epoch > a.epoch)
    BY <1>1
  <2>2. Applied(a, f) = [epoch |-> f.epoch,
                         ent |-> [e \in Subject |-> Merged(a.ent[e], f.rec[e])]]
    BY <2>1 DEF Applied
  <2> QED
    BY <1>1, <2>2
<1>4. Fits(f, a)
  BY <1>2 DEF Fits
<1>5. Told(w, s, Applied(a, f))
  BY <1>2, <1>3 DEF Told
<1> QED
  BY <1>3, <1>4, <1>5

(* A first frame of a new epoch: the client starts with nothing.           *)
LEMMA BaselineTold ==
  ASSUME NEW w \in WorldState, NEW o \in ObsState, NEW friends, NEW silent, NEW out, NEW in,
         NEW upd, NEW kept \in SUBSET Subject, Chosen(w, o, friends, silent, out, in, upd),
         \A e \in Subject : o.life[e] \notin {"known", "wantLeave"},
         NEW a \in ReplicaState, a.epoch < o.epoch
  PROVE  LET f == Packed(w, o, out, in, upd, friends)
         IN  /\ Fits(f, a) /\ Applied(a, f).epoch = o.epoch
             /\ Told(w, Committed(w, o, friends, silent, out, in, upd, kept), Applied(a, f))
<1> DEFINE f == Packed(w, o, out, in, upd, friends)
           s == Committed(w, o, friends, silent, out, in, upd, kept)
           b == [epoch |-> o.epoch, ent |-> [e \in Subject |-> Absent]]
<1>1. f.epoch = o.epoch /\ o.epoch \in Int /\ a.epoch \in Int /\ o.epoch \in 0 .. MaxChanges
  <2>1. o.epoch \in 0 .. MaxChanges /\ o.epoch \in Int /\ a.epoch \in Int
    BY Bounds DEF ObsState, ReplicaState
  <2> QED
    BY <2>1, PackedParts
<1>2. b \in ReplicaState /\ b.epoch = o.epoch
  BY <1>1 DEF ReplicaState
<1>3. Told(w, o, b)
  BY DEF Told, Knows
<1>4. Fits(f, b) /\ Applied(b, f).epoch = o.epoch /\ Told(w, s, Applied(b, f))
  <2> HIDE DEF b
  <2> QED
    BY <1>2, <1>3, PublishTold
<1> SUFFICES Fits(f, a) /\ Applied(a, f).epoch = o.epoch /\ Told(w, s, Applied(a, f))
  OBVIOUS
<1> HIDE DEF f, s
<1>5. Applied(a, f) = Applied(b, f)
  <2>1. ~(f.epoch < a.epoch) /\ f.epoch > a.epoch /\ ~(f.epoch < b.epoch) /\ ~(f.epoch > b.epoch)
    BY <1>1, <1>2
  <2>2. Applied(a, f) = [epoch |-> f.epoch,
                         ent |-> [e \in Subject |-> Merged(Absent, f.rec[e])]]
    BY <2>1 DEF Applied
  <2>3. Applied(b, f) = [epoch |-> f.epoch,
                         ent |-> [e \in Subject |-> Merged(b.ent[e], f.rec[e])]]
    BY <2>1 DEF Applied
  <2> QED
    BY <2>2, <2>3
<1>6. Fits(f, a)
  BY <1>1 DEF Fits
<1> QED
  BY <1>4, <1>5, <1>6

(***************************************************************************)
(* Interest, and the choices of a publication.                             *)
(***************************************************************************)

LEMMA NewLifeParts ==
  ASSUME NEW w, NEW e, NEW life \in {"none", "wantEnter", "known", "wantLeave"}
  PROVE  /\ NewLife(w, e, life) \in {"none", "wantEnter", "known", "wantLeave"}
         /\ NewLife(w, e, life) = "known" => life = "known"
         /\ NewLife(w, e, life) \in {"known", "wantLeave"} <=> life \in {"known", "wantLeave"}
<1>1. CASE life \in {"none", "wantEnter"}
  BY <1>1 DEF NewLife
<1>2. CASE life = "known"
  <2>1. NewLife(w, e, life) = IF ~Visible(w, e) THEN "wantLeave" ELSE "known"
    BY <1>2 DEF NewLife
  <2> QED
    BY <1>2, <2>1
<1>3. CASE life = "wantLeave"
  <2>1. NewLife(w, e, life) = "wantLeave"
    BY <1>3 DEF NewLife
  <2> QED
    BY <1>3, <2>1
<1> QED
  BY <1>1, <1>2, <1>3

IsClassified(s, o) ==
  /\ s \in ObsState /\ s.epoch = o.epoch /\ s.immune = o.immune /\ s.dead = o.dead
  /\ \A e \in Subject :
       /\ s.life[e] \in {"known", "wantLeave"} <=> o.life[e] \in {"known", "wantLeave"}
       /\ s.life[e] = "known" =>
            /\ o.life[e] = "known" /\ s.lag[e] = o.lag[e]
            /\ e \in o.pending => e \in s.pending

LEMMA ClassifiedFields ==
  ASSUME NEW w, NEW o \in ObsState
  PROVE  IsClassified(Classified(w, o), o)
<1> DEFINE life == [e \in Subject |-> NewLife(w, e, o.life[e])]
           left == InState(o, "known") \ {e \in Subject : life[e] = "known"}
           lag == [e \in Subject |-> IF e \in left THEN {} ELSE o.lag[e]]
           t == [o EXCEPT !.life = life]
           u == [t EXCEPT !.pending = o.pending \ left]
           s == [u EXCEPT !.lag = lag]
<1>1. /\ o.life \in [Subject -> {"none", "wantEnter", "known", "wantLeave"}]
      /\ o.lag \in [Subject -> SUBSET Domain] /\ o.pending \subseteq Subject
  BY DEF ObsState
<1>2. Classified(w, o) = s
  BY DEF Classified, ObsState
<1>3. ASSUME NEW e \in Subject
      PROVE  /\ life[e] \in {"none", "wantEnter", "known", "wantLeave"}
             /\ life[e] = "known" => o.life[e] = "known"
             /\ life[e] \in {"known", "wantLeave"} <=> o.life[e] \in {"known", "wantLeave"}
  BY <1>1, NewLifeParts
<1>4. \A e \in Subject : life[e] = "known" => e \notin left
  OBVIOUS
<1>5. life \in [Subject -> {"none", "wantEnter", "known", "wantLeave"}]
  BY <1>3
<1> HIDE DEF life
<1>6. lag \in [Subject -> SUBSET Domain] /\ o.pending \ left \in SUBSET Subject
  BY <1>1
<1>7. \A e \in Subject : e \notin left => lag[e] = o.lag[e]
  OBVIOUS
<1> HIDE DEF left, lag
<1>8. /\ t \in ObsState /\ t.epoch = o.epoch /\ t.life = life /\ t.immune = o.immune
      /\ t.dead = o.dead /\ t.pending = o.pending
  BY <1>5 DEF ObsState
<1> HIDE DEF t
<1>9. /\ u \in ObsState /\ u.epoch = o.epoch /\ u.life = life /\ u.immune = o.immune
      /\ u.dead = o.dead /\ u.pending = o.pending \ left
  BY <1>6, <1>8 DEF ObsState
<1> HIDE DEF u
<1>10. /\ s \in ObsState /\ s.epoch = o.epoch /\ s.life = life /\ s.immune = o.immune
       /\ s.dead = o.dead /\ s.pending = o.pending \ left /\ s.lag = lag
  BY <1>6, <1>9 DEF ObsState
<1> HIDE DEF s
<1> QED
  BY <1>2, <1>3, <1>4, <1>7, <1>10 DEF IsClassified

LEMMA ClassifiedTold ==
  ASSUME NEW w, NEW o, NEW s, IsClassified(s, o), NEW a, Told(w, o, a)
  PROVE  Told(w, s, a)
BY DEF IsClassified, Told, Knows

LEMMA NotedFields ==
  ASSUME NEW o \in ObsState, marked \subseteq Subject
  PROVE  /\ Noted(o) \in ObsState /\ Noted(o).epoch = o.epoch /\ Noted(o).life = o.life
         /\ Noted(o).lag = o.lag /\ Noted(o).immune = o.immune /\ Noted(o).dead = o.dead
         /\ Noted(o).pending = o.pending \cup (marked \cap fanout)
<1> DEFINE p == o.pending \cup (marked \cap fanout)
           s == [o EXCEPT !.pending = p]
<1>1. p \in SUBSET Subject
  BY DEF ObsState
<1>2. Noted(o) = s
  BY DEF Noted, ObsState
<1> HIDE DEF p
<1>3. /\ s \in ObsState /\ s.epoch = o.epoch /\ s.life = o.life
      /\ s.lag = o.lag /\ s.immune = o.immune /\ s.dead = o.dead /\ s.pending = p
  BY <1>1 DEF ObsState
<1> QED
  BY <1>2, <1>3 DEF p

LEMMA FittingInside ==
  ASSUME NEW es, NEW room, NEW x \in Fitting(es, room)
  PROVE  x \subseteq es
BY DEF Fitting, kSubset

(* A publication is a choice, and loses no scheduled update.               *)
Publication(w, o, f, p) ==
  \E friends, silent, out, in, upd :
  \E kept \in SUBSET Subject :
    /\ Chosen(w, o, friends, silent, out, in, upd)
    /\ pipe' = Append(p, Packed(w, o, out, in, upd, friends))
    /\ obs' = Committed(w, o, friends, silent, out, in, upd, kept)
    /\ fanout' = Registered(f, in, out)
    /\ \A e \in Subject :
         o.life[e] = "known" /\ w[e].zone # "gone" /\ o.lag[e] # {} /\ e \in o.pending =>
           e \in silent \cup upd \cup kept

LEMMA PublishChooses ==
  ASSUME NEW w, NEW o \in ObsState, NEW f, NEW p, Publish(w, o, f, p)
  PROVE  Publication(w, o, f, p)
<1> DEFINE behind == {e \in InState(o, "known") : o.lag[e] # {} /\ w[e].zone # "gone"}
           Quiet(work, friends) == {e \in work : Eligible(w, o, friends, e) = {}}
<1>1. PICK room \in Budgets, work \in {behind \cap o.pending, behind} :
      \E friends \in SUBSET {e \in work : "health" \in o.lag[e]} :
      \E late \in SUBSET (work \ Quiet(work, friends)), out \in Fitting(InState(o, "wantLeave"), room) :
      \E in \in Fitting(InState(o, "wantEnter"), room - Cardinality(out)) :
      \E upd \in Fitting((work \ Quiet(work, friends)) \ late,
                         room - Cardinality(out) - Cardinality(in)) :
        /\ pipe' = Append(p, Packed(w, o, out, in, upd, friends))
        /\ obs' = Committed(w, o, friends, Quiet(work, friends), out, in, upd,
                            (work \ Quiet(work, friends)) \ upd)
        /\ fanout' = Registered(f, in, out)
  BY DEF Publish, Committed
<1>2. PICK friends \in SUBSET {e \in work : "health" \in o.lag[e]} :
      \E late \in SUBSET (work \ Quiet(work, friends)), out \in Fitting(InState(o, "wantLeave"), room) :
      \E in \in Fitting(InState(o, "wantEnter"), room - Cardinality(out)) :
      \E upd \in Fitting((work \ Quiet(work, friends)) \ late,
                         room - Cardinality(out) - Cardinality(in)) :
        /\ pipe' = Append(p, Packed(w, o, out, in, upd, friends))
        /\ obs' = Committed(w, o, friends, Quiet(work, friends), out, in, upd,
                            (work \ Quiet(work, friends)) \ upd)
        /\ fanout' = Registered(f, in, out)
  BY <1>1
<1>3. PICK late \in SUBSET (work \ Quiet(work, friends)),
           out \in Fitting(InState(o, "wantLeave"), room) :
      \E in \in Fitting(InState(o, "wantEnter"), room - Cardinality(out)) :
      \E upd \in Fitting((work \ Quiet(work, friends)) \ late,
                         room - Cardinality(out) - Cardinality(in)) :
        /\ pipe' = Append(p, Packed(w, o, out, in, upd, friends))
        /\ obs' = Committed(w, o, friends, Quiet(work, friends), out, in, upd,
                            (work \ Quiet(work, friends)) \ upd)
        /\ fanout' = Registered(f, in, out)
  BY <1>2
<1>4. PICK in \in Fitting(InState(o, "wantEnter"), room - Cardinality(out)) :
      \E upd \in Fitting((work \ Quiet(work, friends)) \ late,
                         room - Cardinality(out) - Cardinality(in)) :
        /\ pipe' = Append(p, Packed(w, o, out, in, upd, friends))
        /\ obs' = Committed(w, o, friends, Quiet(work, friends), out, in, upd,
                            (work \ Quiet(work, friends)) \ upd)
        /\ fanout' = Registered(f, in, out)
  BY <1>3
<1>5. PICK upd \in Fitting((work \ Quiet(work, friends)) \ late,
                         room - Cardinality(out) - Cardinality(in)) :
        /\ pipe' = Append(p, Packed(w, o, out, in, upd, friends))
        /\ obs' = Committed(w, o, friends, Quiet(work, friends), out, in, upd,
                            (work \ Quiet(work, friends)) \ upd)
        /\ fanout' = Registered(f, in, out)
  BY <1>4
<1> DEFINE silent == Quiet(work, friends)
           kept == (work \ silent) \ upd
<1>6. /\ out \subseteq InState(o, "wantLeave") /\ in \subseteq InState(o, "wantEnter")
      /\ upd \subseteq (work \ silent) \ late
  BY FittingInside
<1>7. work \subseteq behind /\ behind \cap o.pending \subseteq work
  BY <1>1
<1>8. silent \subseteq work /\ \A e \in silent : Eligible(w, o, friends, e) = {}
  OBVIOUS
<1>9. behind \subseteq InState(o, "known") /\ behind \subseteq Subject
  BY DEF InState
<1>10. \A e \in Subject : o.life[e] = "known" /\ w[e].zone # "gone" /\ o.lag[e] # {} => e \in behind
  BY DEF InState
<1> HIDE DEF behind, silent
<1>11. Chosen(w, o, friends, silent, out, in, upd)
  BY <1>6, <1>7, <1>8, <1>9 DEF Chosen
<1>12. kept \in SUBSET Subject
  BY <1>7, <1>9
<1>13. \A e \in Subject :
         o.life[e] = "known" /\ w[e].zone # "gone" /\ o.lag[e] # {} /\ e \in o.pending =>
           e \in silent \cup upd \cup kept
  BY <1>7, <1>10
<1>14. obs' = Committed(w, o, friends, silent, out, in, upd, kept)
  BY <1>5 DEF silent
<1> HIDE DEF kept
<1> QED
  BY <1>5, <1>11, <1>12, <1>13, <1>14 DEF Publication

(* After it every lagging entity that is known and there is pending, and   *)
(* every such entity is in the index.                                      *)
LEMMA PublishScheduled ==
  ASSUME NEW w, NEW o \in ObsState, NEW friends, NEW silent, NEW out, NEW in, NEW upd,
         NEW kept \in SUBSET Subject, NEW f, NEW s,
         Chosen(w, o, friends, silent, out, in, upd),
         IsCommitted(s, w, o, friends, silent, out, in, upd, kept),
         \A e \in Subject : o.life[e] = "known" /\ w[e].zone # "gone" => e \in f,
         \A e \in Subject :
           o.life[e] = "known" /\ w[e].zone # "gone" /\ o.lag[e] # {} => e \in silent \cup upd \cup kept
  PROVE  Scheduled(w, {}, s, Registered(f, in, out))
<1> SUFFICES ASSUME NEW e \in Subject, s.life[e] = "known", w[e].zone # "gone"
             PROVE  /\ e \in Registered(f, in, out)
                    /\ s.lag[e] # {} => e \in s.pending
  BY DEF Scheduled
<1>1. /\ e \in out => o.life[e] = "wantLeave"
      /\ e \in in => o.life[e] = "wantEnter"
  BY DEF Chosen, InState
<1>2. /\ s.life[e] = IF e \in in THEN "known" ELSE IF e \in out THEN "none" ELSE o.life[e]
      /\ s.lag[e] = IF e \in in \cup silent \cup upd THEN {} ELSE o.lag[e]
      /\ s.pending = kept \ out
  BY DEF IsCommitted
<1>3. e \notin out
  BY <1>1, <1>2
<1>4. e \in Registered(f, in, out)
  BY <1>2, <1>3 DEF Registered
<1>5. ASSUME s.lag[e] # {} PROVE e \in s.pending
  <2>1. e \notin in /\ e \notin silent /\ e \notin upd /\ o.lag[e] # {} /\ o.life[e] = "known"
    BY <1>2, <1>3, <1>5
  <2> QED
    BY <1>2, <1>3, <2>1
<1> QED
  BY <1>4, <1>5

(***************************************************************************)
(* The steps.                                                              *)
(***************************************************************************)

LEMMA StreamParts ==
  ASSUME NEW w \in Seq(Frame), NEW p \in Seq(Frame)
  PROVE  /\ w \o p \in Seq(Frame) /\ Len(w \o p) = Len(w) + Len(p)
         /\ Len(w) \in Nat /\ Len(p) \in Nat
         /\ \A i \in 1 .. Len(w) : (w \o p)[i] = w[i]
         /\ \A i \in 1 .. Len(p) : (w \o p)[Len(w) + i] = p[i]
<1>1. /\ w \o p \in Seq(Frame) /\ Len(w \o p) = Len(w) + Len(p)
      /\ \A i \in 1 .. Len(w) : (w \o p)[i] = w[i]
      /\ \A i \in 1 .. Len(w) + Len(p) : i > Len(w) => (w \o p)[i] = p[i - Len(w)]
  BY ConcatParts
<1>2. Len(w) \in Nat /\ Len(p) \in Nat
  OBVIOUS
<1>3. ASSUME NEW i \in 1 .. Len(p) PROVE (w \o p)[Len(w) + i] = p[i]
  <2>1. /\ Len(w) + i \in 1 .. Len(w) + Len(p) /\ Len(w) + i > Len(w)
        /\ (Len(w) + i) - Len(w) = i
    BY <1>2
  <2> QED
    BY <1>1, <2>1
<1> QED
  BY <1>1, <1>2, <1>3

LEMMA SameSequence ==
  ASSUME NEW s \in Seq(Frame), NEW t \in Seq(Frame), Len(s) = Len(t),
         \A i \in 1 .. Len(s) : s[i] = t[i]
  PROVE  s = t
OBVIOUS

(* A frame that is queued comes last on the stream.                        *)
LEMMA QueuedIsLast ==
  ASSUME NEW w \in Seq(Frame), NEW p \in Seq(Frame), NEW f \in Frame
  PROVE  w \o Append(p, f) = Append(w \o p, f)
<1> DEFINE q == Append(p, f)
           a == w \o q
           s == w \o p
           b == Append(s, f)
           m == Len(w)
           n == Len(p)
<1>1. /\ q \in Seq(Frame) /\ Len(q) = n + 1 /\ n \in Nat
      /\ \A i \in 1 .. n : q[i] = p[i]
      /\ q[n + 1] = f
  BY AppendParts
<1>2. /\ s \in Seq(Frame) /\ Len(s) = m + n /\ m \in Nat
      /\ \A i \in 1 .. m : s[i] = w[i]
      /\ \A i \in 1 .. n : s[m + i] = p[i]
  BY StreamParts
<1> HIDE DEF q, s
<1>3. /\ a \in Seq(Frame) /\ Len(a) = m + Len(q)
      /\ \A i \in 1 .. m : a[i] = w[i]
      /\ \A i \in 1 .. Len(q) : a[m + i] = q[i]
  BY <1>1, StreamParts
<1>4. /\ b \in Seq(Frame) /\ Len(b) = m + n + 1
      /\ \A i \in 1 .. m + n : b[i] = s[i]
      /\ b[m + n + 1] = f
  BY <1>2, AppendParts
<1> HIDE DEF a, b, m, n
<1>5. ASSUME NEW i \in 1 .. m + n + 1 PROVE a[i] = b[i]
  <2>1. CASE i \in 1 .. m
    BY <1>1, <1>2, <1>3, <1>4, <2>1
  <2>2. CASE i > m /\ i <= m + n
    <3>1. PICK k \in 1 .. n : i = m + k
      <4>1. i - m \in 1 .. n /\ i = m + (i - m)
        BY <1>1, <1>2, <2>2
      <4> QED
        BY <4>1
    <3>2. k \in 1 .. Len(q) /\ i \in 1 .. m + n
      BY <1>1, <1>2, <2>2
    <3> QED
      BY <1>1, <1>2, <1>3, <1>4, <3>1, <3>2
  <2>3. CASE i = m + n + 1
    <3>1. n + 1 \in 1 .. Len(q) /\ i = m + (n + 1)
      BY <1>1, <1>2, <2>3
    <3> QED
      BY <1>1, <1>3, <1>4, <2>3, <3>1
  <2> QED
    BY <1>1, <1>2, <2>1, <2>2, <2>3
<1>6. a = b
  BY <1>1, <1>2, <1>3, <1>4, <1>5, SameSequence
<1> QED
  BY <1>6 DEF a, b, q, s

(* The client takes the first frame of the stream.                         *)
LEMMA FirstIsTaken ==
  ASSUME NEW w \in Seq(Frame), NEW p \in Seq(Frame), w # <<>>
  PROVE  /\ w \o p # <<>> /\ Head(w \o p) = Head(w)
         /\ Tail(w \o p) = Tail(w) \o p
<1> DEFINE s == w \o p
           u == Tail(w)
           a == Tail(s)
           b == u \o p
           m == Len(w)
           n == Len(p)
<1>1. /\ u \in Seq(Frame) /\ m \in Nat \ {0} /\ Len(u) = m - 1
      /\ \A i \in 1 .. m - 1 : u[i] = w[i + 1]
      /\ Head(w) = w[1]
  BY TailParts
<1>2. /\ s \in Seq(Frame) /\ Len(s) = m + n /\ n \in Nat
      /\ \A i \in 1 .. m : s[i] = w[i]
      /\ \A i \in 1 .. n : s[m + i] = p[i]
  BY StreamParts
<1> HIDE DEF u, s
<1>3. s # <<>>
  BY <1>1, <1>2
<1>4. /\ a \in Seq(Frame) /\ Len(a) = m + n - 1
      /\ \A i \in 1 .. m + n - 1 : a[i] = s[i + 1]
      /\ Head(s) = s[1]
  BY <1>2, <1>3, TailParts
<1>5. /\ b \in Seq(Frame) /\ Len(b) = Len(u) + n
      /\ \A i \in 1 .. Len(u) : b[i] = u[i]
      /\ \A i \in 1 .. n : b[Len(u) + i] = p[i]
  BY <1>1, StreamParts
<1> HIDE DEF a, b, m, n
<1>6. Head(s) = Head(w)
  BY <1>1, <1>2, <1>4
<1>7. ASSUME NEW i \in 1 .. m + n - 1 PROVE a[i] = b[i]
  <2>1. CASE i \in 1 .. m - 1
    <3>1. i + 1 \in 1 .. m /\ i \in 1 .. Len(u)
      BY <1>1, <2>1
    <3> QED
      BY <1>1, <1>2, <1>4, <1>5, <2>1, <3>1
  <2>2. CASE i > m - 1
    <3>1. PICK k \in 1 .. n : i = Len(u) + k
      <4>1. i - (m - 1) \in 1 .. n /\ i = Len(u) + (i - (m - 1))
        BY <1>1, <1>2, <2>2
      <4> QED
        BY <4>1
    <3>2. i + 1 = m + k
      BY <1>1, <1>2, <3>1
    <3> QED
      BY <1>2, <1>4, <1>5, <3>1, <3>2
  <2> QED
    BY <1>1, <1>2, <2>1, <2>2
<1>8. a = b
  BY <1>1, <1>2, <1>4, <1>5, <1>7, SameSequence
<1> QED
  BY <1>3, <1>6, <1>8 DEF a, b, s, u

LEMMA EpochIsNumber ==
  \A o \in ObsState : o.epoch \in Int
BY Bounds DEF ObsState

LEMMA LastReplica ==
  ASSUME NEW s, NEW r, NEW h, NEW top, Chain(s, r, h, top)
  PROVE  /\ s \in Seq(Frame) /\ Len(s) \in Nat /\ h[Len(s)] \in ReplicaState
         /\ h[Len(s)].epoch <= top
<1>1. Len(s) \in Nat /\ Len(s) \in 0 .. Len(s) /\ s \in Seq(Frame)
  BY DEF Chain
<1> QED
  BY <1>1 DEF Chain

LEMMA TickStep ==
  ASSUME StreamInv, Tick
  PROVE  StreamInv'
<1>1. Typed /\ Scheduled(world, marked, obs, fanout)
  BY DEF StreamInv
<1>2. PICK h : Linked(world, obs, Stream, replica, h)
  BY DEF StreamInv
<1>3. marked' = {} /\ UNCHANGED <<world, wire, replica, changes>>
  BY DEF Tick
<1>4. /\ Noted(obs) \in ObsState /\ Noted(obs).epoch = obs.epoch /\ Noted(obs).life = obs.life
      /\ Noted(obs).lag = obs.lag /\ Noted(obs).immune = obs.immune
      /\ Noted(obs).dead = obs.dead
      /\ Noted(obs).pending = obs.pending \cup (marked \cap fanout)
  BY <1>1, NotedFields DEF Typed
<1>5. Told(world, Noted(obs), h[Len(Stream)])
  BY <1>2, <1>4 DEF Linked, Told, Knows
<1>6. \A e \in Subject : obs.life[e] = "known" /\ world[e].zone # "gone" =>
        e \in fanout /\ (obs.lag[e] # {} => e \in Noted(obs).pending)
  BY <1>1, <1>4 DEF Scheduled
<1>7. CASE Full
  <2>1. obs' = Noted(obs) /\ UNCHANGED <<fanout, pipe, stale>>
    BY <1>7 DEF Tick, Skip
  <2>2. Typed'
    BY <1>1, <1>3, <1>4, <2>1 DEF Typed
  <2>3. Scheduled(world', marked', obs', fanout')
    BY <1>3, <1>4, <1>6, <2>1 DEF Scheduled
  <2>4. Linked(world, Noted(obs), Stream, replica, h)
    BY <1>2, <1>4, <1>5 DEF Linked
  <2>5. Stream' = Stream
    BY <1>3, <2>1 DEF Stream
  <2> QED
    BY <1>3, <2>1, <2>2, <2>3, <2>4, <2>5 DEF StreamInv
<1>8. CASE ~Full
  <2> DEFINE o == Interest(Noted(obs))
             g == fanout \ InState(o, "wantLeave")
  <2>1. stale' = FALSE /\ Publish(world, o, g, pipe)
    BY <1>8 DEF Tick, PublishTick
  <2>2. IsClassified(o, Noted(obs))
    <3>1. CASE stale
      BY <1>4, <3>1, ClassifiedFields DEF Interest
    <3>2. CASE ~stale
      <4>1. o = Noted(obs)
        BY <3>2 DEF Interest
      <4> QED
        BY <1>4, <4>1 DEF IsClassified
    <3> QED
      BY <3>1, <3>2
  <2> HIDE DEF o
  <2>3. o \in ObsState /\ o.epoch = obs.epoch /\ o.epoch \in Int
    BY <1>4, <2>2, EpochIsNumber DEF IsClassified
  <2>4. Publication(world, o, g, pipe)
    <3> HIDE DEF g
    <3> QED
      BY <2>1, <2>3, PublishChooses
  <2>5. PICK friends, silent, out, in, upd :
        \E kept \in SUBSET Subject :
           /\ Chosen(world, o, friends, silent, out, in, upd)
           /\ pipe' = Append(pipe, Packed(world, o, out, in, upd, friends))
           /\ obs' = Committed(world, o, friends, silent, out, in, upd, kept)
           /\ fanout' = Registered(g, in, out)
           /\ \A e \in Subject :
                o.life[e] = "known" /\ world[e].zone # "gone" /\ o.lag[e] # {}
                  /\ e \in o.pending => e \in silent \cup upd \cup kept
    BY <2>4 DEF Publication
  <2>6. PICK kept \in SUBSET Subject :
           /\ Chosen(world, o, friends, silent, out, in, upd)
           /\ pipe' = Append(pipe, Packed(world, o, out, in, upd, friends))
           /\ obs' = Committed(world, o, friends, silent, out, in, upd, kept)
           /\ fanout' = Registered(g, in, out)
           /\ \A e \in Subject :
                o.life[e] = "known" /\ world[e].zone # "gone" /\ o.lag[e] # {}
                  /\ e \in o.pending => e \in silent \cup upd \cup kept
    BY <2>5
  <2> DEFINE f == Packed(world, o, out, in, upd, friends)
             s == Committed(world, o, friends, silent, out, in, upd, kept)
             a == h[Len(Stream)]
  <2>7. world \in WorldState
    BY <1>1 DEF Typed
  <2>8. f \in Frame /\ f.epoch = o.epoch
    BY <2>3, <2>7, PackedParts
  <2>9. IsCommitted(s, world, o, friends, silent, out, in, upd, kept)
    BY <2>3, <2>6, CommittedFields
  <2>10. /\ Chain(Stream, replica, h, obs.epoch) /\ a.epoch = obs.epoch
        /\ a \in ReplicaState
    BY <1>2, LastReplica DEF Linked
  <2>11. Told(world, o, a)
    BY <1>5, <2>2, ClassifiedTold
  <2>12. Fits(f, a) /\ Applied(a, f).epoch = o.epoch /\ Told(world, s, Applied(a, f))
    <3> HIDE DEF a
    <3> QED
      BY <2>3, <2>6, <2>7, <2>10, <2>11, PublishTold
  <2> HIDE DEF f, s
  <2>13. s \in ObsState /\ s.epoch = obs.epoch
    BY <2>3, <2>9 DEF IsCommitted
  <2>14. pipe' = Append(pipe, f) /\ obs' = s
    BY <2>6 DEF f, s
  <2>15. wire \in Seq(Frame) /\ pipe \in Seq(Frame)
    BY <1>1 DEF Typed
  <2>16. Stream' = Append(Stream, f)
    BY <1>3, <2>8, <2>14, <2>15, QueuedIsLast DEF Stream
  <2>17. PICK k : /\ Chain(Append(Stream, f), replica, k, obs.epoch)
                  /\ k[Len(Append(Stream, f))] = Applied(a, f)
    BY <2>3, <2>8, <2>10, <2>12, ChainExtended
  <2>18. Linked(world, s, Append(Stream, f), replica, k)
    BY <2>3, <2>12, <2>13, <2>17 DEF Linked
  <2>19. Typed'
    <3>1. fanout' \subseteq Subject
      <4>1. in \subseteq Subject
        BY <2>6 DEF Chosen, InState
      <4> QED
        BY <1>1, <2>6, <4>1 DEF Typed, Registered
    <3>2. pipe' \in Seq(Frame) /\ Len(pipe') <= PipeCap
      <4>1. pipe' \in Seq(Frame) /\ Len(pipe') = Len(pipe) + 1 /\ Len(pipe) \in Nat
        BY <2>8, <2>14, <2>15, AppendParts
      <4> QED
        BY <1>8, <4>1, Bounds DEF Full
    <3> QED
      BY <1>1, <1>3, <2>1, <2>13, <2>14, <3>1, <3>2 DEF Typed
  <2>20. Scheduled(world', marked', obs', fanout')
    <3>1. \A e \in Subject : o.life[e] = "known" /\ world[e].zone # "gone" => e \in g
      BY <1>4, <1>6, <2>2 DEF IsClassified, InState
    <3>2. \A e \in Subject :
            o.life[e] = "known" /\ world[e].zone # "gone" /\ o.lag[e] # {} =>
              e \in silent \cup upd \cup kept
      BY <1>4, <1>6, <2>2, <2>6 DEF IsClassified
    <3> HIDE DEF g
    <3>3. Scheduled(world, {}, s, Registered(g, in, out))
      BY <2>3, <2>6, <2>9, <3>1, <3>2, PublishScheduled
    <3> QED
      BY <1>3, <2>6, <2>14, <3>3
  <2> QED
    BY <1>3, <2>14, <2>16, <2>18, <2>19, <2>20 DEF StreamInv
<1> QED
  BY <1>7, <1>8


LEMMA WriteStep ==
  ASSUME StreamInv, Write
  PROVE  StreamInv'
<1>1. Typed /\ Scheduled(world, marked, obs, fanout)
  BY DEF StreamInv
<1>2. PICK h : Linked(world, obs, Stream, replica, h)
  BY DEF StreamInv
<1>3. /\ pipe # <<>> /\ Len(wire) < WireCap
      /\ pipe' = Tail(pipe) /\ wire' = Append(wire, Head(pipe))
      /\ UNCHANGED <<world, marked, stale, obs, fanout, replica, changes>>
  BY DEF Write
<1>4. wire \in Seq(Frame) /\ pipe \in Seq(Frame) /\ Len(pipe) <= PipeCap
  BY <1>1 DEF Typed
<1>5. /\ pipe' \in Seq(Frame) /\ Len(pipe') = Len(pipe) - 1 /\ Len(pipe) \in Nat
      /\ Head(pipe) \in Frame
  BY <1>3, <1>4, TailParts
<1>6. wire' \in Seq(Frame) /\ Len(wire') = Len(wire) + 1 /\ Len(wire) \in Nat
  BY <1>3, <1>4, <1>5, AppendParts
<1>7. Len(pipe') <= PipeCap /\ Len(wire') <= WireCap
  BY <1>3, <1>4, <1>5, <1>6, Bounds
<1>8. Typed'
  BY <1>1, <1>3, <1>5, <1>6, <1>7 DEF Typed
<1>9. Stream' = Stream
  BY <1>3, <1>4, WrittenKeepsStream DEF Stream
<1> QED
  BY <1>1, <1>2, <1>3, <1>8, <1>9 DEF StreamInv

LEMMA ApplyStep ==
  ASSUME StreamInv, Apply
  PROVE  StreamInv'
<1>1. Typed /\ Scheduled(world, marked, obs, fanout)
  BY DEF StreamInv
<1>2. PICK h : Linked(world, obs, Stream, replica, h)
  BY DEF StreamInv
<1>3. /\ wire # <<>> /\ wire' = Tail(wire) /\ replica' = Applied(replica, Head(wire))
      /\ UNCHANGED <<world, marked, stale, obs, fanout, pipe, changes>>
  BY DEF Apply
<1>4. wire \in Seq(Frame) /\ pipe \in Seq(Frame) /\ Len(wire) <= WireCap
  BY <1>1 DEF Typed
<1>5. /\ wire' \in Seq(Frame) /\ Len(wire') = Len(wire) - 1 /\ Len(wire) \in Nat
      /\ Head(wire) \in Frame
  BY <1>3, <1>4, TailParts
<1>6. Len(wire') <= WireCap /\ replica' \in ReplicaState
  <2>1. replica' \in ReplicaState
    BY <1>1, <1>3, <1>5, AppliedType DEF Typed
  <2> QED
    BY <1>4, <1>5, <2>1, Bounds
<1>7. Typed'
  BY <1>1, <1>3, <1>5, <1>6 DEF Typed
<1>8. Stream # <<>> /\ Head(Stream) = Head(wire) /\ Stream' = Tail(Stream)
  BY <1>3, <1>4, FirstIsTaken DEF Stream
<1>9. Chain(Stream, replica, h, obs.epoch)
  BY <1>2 DEF Linked
<1>10. PICK g : /\ Chain(Tail(Stream), Applied(replica, Head(Stream)), g, obs.epoch)
                /\ g[Len(Tail(Stream))] = h[Len(Stream)]
  BY <1>8, <1>9, ChainShortened
<1>11. Linked(world, obs, Tail(Stream), Applied(replica, Head(Stream)), g)
  BY <1>2, <1>10 DEF Linked
<1> QED
  BY <1>1, <1>3, <1>7, <1>8, <1>11 DEF StreamInv

(* The change of one entity e, in d, as the observer's record takes it.    *)
IsLagging(s, o, e, d) ==
  /\ s \in ObsState /\ s.epoch = o.epoch /\ s.life = o.life /\ s.immune = o.immune
  /\ s.dead = o.dead /\ s.pending = o.pending
  /\ \A x \in Subject :
       s.lag[x] = IF x = e /\ o.life[e] = "known" THEN o.lag[x] \cup {d} ELSE o.lag[x]

LEMMA LaggingFields ==
  ASSUME obs \in ObsState, NEW e \in Subject, NEW d \in Domain
  PROVE  IsLagging(Lagging(e, d), obs, e, d)
<1> DEFINE l == IF obs.life[e] = "known" THEN obs.lag[e] \cup {d} ELSE obs.lag[e]
           lag == [obs.lag EXCEPT ![e] = l]
           s == [obs EXCEPT !.lag = lag]
<1>1. obs.lag \in [Subject -> SUBSET Domain]
  BY DEF ObsState
<1>2. Lagging(e, d) = s
  BY DEF Lagging, ObsState
<1>3. lag \in [Subject -> SUBSET Domain]
  BY <1>1
<1>4. \A x \in Subject :
        lag[x] = IF x = e /\ obs.life[e] = "known" THEN obs.lag[x] \cup {d} ELSE obs.lag[x]
  BY <1>1
<1> HIDE DEF lag
<1>5. /\ s \in ObsState /\ s.epoch = obs.epoch /\ s.life = obs.life /\ s.immune = obs.immune
      /\ s.dead = obs.dead /\ s.pending = obs.pending /\ s.lag = lag
  BY <1>3 DEF ObsState
<1> HIDE DEF s
<1> QED
  BY <1>2, <1>4, <1>5 DEF IsLagging

LEMMA LaggingTold ==
  ASSUME NEW o, NEW s, NEW e, NEW d, IsLagging(s, o, e, d), NEW w, NEW v, NEW a, Told(w, o, a),
         \A x \in Subject : x # e \/ d = "look" => v[x].health = w[x].health,
         \A x \in Subject : x # e \/ d = "health" => v[x].look = w[x].look,
         d \in Domain
  PROVE  Told(v, s, a)
<1> SUFFICES ASSUME NEW x \in Subject PROVE Knows(v, s, x, a.ent[x])
  BY DEF Told
<1>1. Knows(w, o, x, a.ent[x])
  BY DEF Told
<1>2. CASE o.life[x] # "known"
  BY <1>1, <1>2 DEF Knows, IsLagging
<1>3. CASE o.life[x] = "known" /\ x # e
  BY <1>1, <1>3 DEF Knows, IsLagging, Dead, Immune
<1>4. CASE o.life[x] = "known" /\ x = e /\ d = "look"
  BY <1>1, <1>4 DEF Knows, IsLagging, Dead, Immune
<1>5. CASE o.life[x] = "known" /\ x = e /\ d = "health"
  BY <1>1, <1>5 DEF Knows, IsLagging, Dead, Immune
<1> QED
  BY <1>2, <1>3, <1>4, <1>5 DEF Domain

LEMMA LaggingScheduled ==
  ASSUME NEW o, NEW s, NEW e, NEW d, IsLagging(s, o, e, d), NEW w, NEW v, NEW m, NEW f,
         Scheduled(w, m, o, f),
         \A x \in Subject : v[x].zone # "gone" => w[x].zone # "gone"
  PROVE  Scheduled(v, m \cup {e}, s, f)
BY DEF Scheduled, IsLagging

LEMMA LinkedAnew ==
  ASSUME NEW w, NEW o, NEW q, NEW r, NEW h, Linked(w, o, q, r, h), NEW v, NEW s,
         s.epoch = o.epoch, Told(v, s, h[Len(q)])
  PROVE  Linked(v, s, q, r, h)
BY DEF Linked

LEMMA OneMoreChange ==
  ASSUME Typed, Change
  PROVE  /\ changes' \in 0 .. MaxChanges /\ changes' = changes + 1 /\ changes < MaxChanges
         /\ obs.epoch \in Nat /\ obs.epoch <= changes /\ changes \in Nat
         /\ UNCHANGED <<wire, replica>>
<1>1. /\ changes \in 0 .. MaxChanges /\ obs.epoch <= changes /\ obs.epoch \in 0 .. MaxChanges
  BY DEF Typed, ObsState
<1> QED
  BY <1>1, Bounds DEF Change

LEMMA MoveStep ==
  ASSUME StreamInv, NEW e \in Subject, Move(e)
  PROVE  StreamInv'
<1>1. Typed /\ Scheduled(world, marked, obs, fanout)
  BY DEF StreamInv
<1>2. PICK h : Linked(world, obs, Stream, replica, h)
  BY DEF StreamInv
<1>3. PICK z \in {"near", "edge", "far"} :
        /\ world' = [world EXCEPT ![e].zone = z, ![e].look = 1 - @]
        /\ stale' = (stale \/ z # world[e].zone)
  BY DEF Move
<1>4. /\ marked' = marked \cup {e} /\ obs' = Lagging(e, "look")
      /\ UNCHANGED <<fanout, pipe>> /\ world[e].zone # "gone"
  BY DEF Move, Alive
<1>5. /\ changes' \in 0 .. MaxChanges /\ changes' = changes + 1 /\ changes < MaxChanges
      /\ obs.epoch \in Nat /\ obs.epoch <= changes /\ changes \in Nat
      /\ UNCHANGED <<wire, replica>>
  BY <1>1, OneMoreChange DEF Move
<1>6. /\ world' \in WorldState
      /\ \A x \in Subject : world'[x].health = world[x].health
      /\ \A x \in Subject : x # e => world'[x] = world[x]
  BY <1>1, <1>3 DEF Typed, WorldState, Zone
<1>7. "look" \in Domain
  BY DEF Domain
<1>8. IsLagging(obs', obs, e, "look")
  BY <1>1, <1>4, <1>7, LaggingFields DEF Typed
<1>9. Typed'
  <2>1. obs' \in ObsState /\ obs'.epoch = obs.epoch
    BY <1>8 DEF IsLagging
  <2>2. obs'.epoch <= changes'
    BY <1>5, <2>1
  <2>3. stale' \in BOOLEAN
    BY <1>3
  <2> QED
    BY <1>1, <1>4, <1>5, <1>6, <2>1, <2>2, <2>3 DEF Typed
<1>10. Scheduled(world', marked', obs', fanout')
  BY <1>1, <1>4, <1>6, <1>8, LaggingScheduled
<1>11. Told(world', obs', h[Len(Stream)])
  BY <1>2, <1>6, <1>7, <1>8, LaggingTold DEF Linked
<1>12. Linked(world', obs', Stream, replica, h)
  BY <1>2, <1>8, <1>11, LinkedAnew DEF IsLagging
<1>13. Stream' = Stream
  BY <1>4, <1>5 DEF Stream
<1> QED
  BY <1>5, <1>9, <1>10, <1>12, <1>13 DEF StreamInv

LEMMA SetHealthStep ==
  ASSUME StreamInv, NEW e \in Subject, SetHealth(e)
  PROVE  StreamInv'
<1>1. Typed /\ Scheduled(world, marked, obs, fanout)
  BY DEF StreamInv
<1>2. PICK h : Linked(world, obs, Stream, replica, h)
  BY DEF StreamInv
<1>3. PICK u \in Health : world' = [world EXCEPT ![e].health = u]
  BY DEF SetHealth
<1>4. /\ marked' = marked \cup {e} /\ obs' = Lagging(e, "health")
      /\ UNCHANGED <<stale, fanout, pipe>>
  BY DEF SetHealth
<1>5. /\ changes' \in 0 .. MaxChanges /\ changes' = changes + 1 /\ changes < MaxChanges
      /\ obs.epoch \in Nat /\ obs.epoch <= changes /\ changes \in Nat
      /\ UNCHANGED <<wire, replica>>
  BY <1>1, OneMoreChange DEF SetHealth
<1>6. /\ world' \in WorldState
      /\ \A x \in Subject : world'[x].look = world[x].look /\ world'[x].zone = world[x].zone
      /\ \A x \in Subject : x # e => world'[x] = world[x]
  BY <1>1, <1>3 DEF Typed, WorldState
<1>7. "health" \in Domain
  BY DEF Domain
<1>8. IsLagging(obs', obs, e, "health")
  BY <1>1, <1>4, <1>7, LaggingFields DEF Typed
<1>9. Typed'
  <2>1. obs' \in ObsState /\ obs'.epoch = obs.epoch
    BY <1>8 DEF IsLagging
  <2>2. obs'.epoch <= changes'
    BY <1>5, <2>1
  <2> QED
    BY <1>1, <1>4, <1>5, <1>6, <2>1, <2>2 DEF Typed
<1>10. Scheduled(world', marked', obs', fanout')
  BY <1>1, <1>4, <1>6, <1>8, LaggingScheduled
<1>11. Told(world', obs', h[Len(Stream)])
  BY <1>2, <1>6, <1>7, <1>8, LaggingTold DEF Linked
<1>12. Linked(world', obs', Stream, replica, h)
  BY <1>2, <1>8, <1>11, LinkedAnew DEF IsLagging
<1>13. Stream' = Stream
  BY <1>4, <1>5 DEF Stream
<1> QED
  BY <1>5, <1>9, <1>10, <1>12, <1>13 DEF StreamInv

(* Entities that only change their zone look as they did.                  *)
LEMMA ZonesTellNothing ==
  ASSUME NEW w, NEW v, NEW o, NEW a, Told(w, o, a),
         \A x \in Subject : v[x].look = w[x].look /\ v[x].health = w[x].health
  PROVE  Told(v, o, a)
BY DEF Told, Knows, Dead, Immune

LEMMA RelocatedParts ==
  ASSUME world \in WorldState, NEW z \in [Subject -> {"near", "edge", "far"}]
  PROVE  /\ Relocated(z) \in WorldState
         /\ \A x \in Subject :
              /\ Relocated(z)[x].look = world[x].look
              /\ Relocated(z)[x].health = world[x].health
              /\ Relocated(z)[x].zone # "gone" => world[x].zone # "gone"
BY DEF Relocated, WorldState, Zone, Alive

LEMMA ObserverMoveStep ==
  ASSUME StreamInv, ObserverMove
  PROVE  StreamInv'
<1>1. Typed /\ Scheduled(world, marked, obs, fanout)
  BY DEF StreamInv
<1>2. PICK h : Linked(world, obs, Stream, replica, h)
  BY DEF StreamInv
<1>3. PICK z \in [Subject -> {"near", "edge", "far"}] : world' = Relocated(z)
  BY DEF ObserverMove
<1>4. stale' = TRUE /\ UNCHANGED <<marked, obs, fanout, pipe>>
  BY DEF ObserverMove
<1>5. /\ changes' \in 0 .. MaxChanges /\ changes' = changes + 1 /\ changes < MaxChanges
      /\ obs.epoch \in Nat /\ obs.epoch <= changes /\ changes \in Nat
      /\ UNCHANGED <<wire, replica>>
  BY <1>1, OneMoreChange DEF ObserverMove
<1>6. /\ world' \in WorldState
      /\ \A x \in Subject : /\ world'[x].look = world[x].look
                            /\ world'[x].health = world[x].health
                            /\ world'[x].zone # "gone" => world[x].zone # "gone"
  BY <1>1, <1>3, RelocatedParts DEF Typed
<1>7. obs'.epoch <= changes'
  BY <1>4, <1>5
<1>8. Typed'
  BY <1>1, <1>4, <1>5, <1>6, <1>7 DEF Typed
<1>9. Scheduled(world', marked', obs', fanout')
  BY <1>1, <1>4, <1>6 DEF Scheduled
<1>10. Told(world', obs, h[Len(Stream)])
  BY <1>2, <1>6, ZonesTellNothing DEF Linked
<1>11. Linked(world', obs, Stream, replica, h)
  BY <1>2, <1>10, LinkedAnew
<1>12. Stream' = Stream
  BY <1>4, <1>5 DEF Stream
<1> QED
  BY <1>4, <1>5, <1>8, <1>9, <1>11, <1>12 DEF StreamInv

LEMMA DespawnStep ==
  ASSUME StreamInv, NEW e \in Subject, Despawn(e)
  PROVE  StreamInv'
<1>1. Typed /\ Scheduled(world, marked, obs, fanout)
  BY DEF StreamInv
<1>2. PICK h : Linked(world, obs, Stream, replica, h)
  BY DEF StreamInv
<1>3. /\ world' = [world EXCEPT ![e].zone = "gone"]
      /\ stale' = (stale \/ Visible(world, e))
      /\ marked' = marked \ {e} /\ fanout' \in {fanout, fanout \ {e}}
      /\ UNCHANGED <<obs, pipe>>
  BY DEF Despawn
<1>4. /\ changes' \in 0 .. MaxChanges /\ changes' = changes + 1 /\ changes < MaxChanges
      /\ obs.epoch \in Nat /\ obs.epoch <= changes /\ changes \in Nat
      /\ UNCHANGED <<wire, replica>>
  BY <1>1, OneMoreChange DEF Despawn
<1>5. /\ world' \in WorldState /\ world'[e].zone = "gone"
      /\ \A x \in Subject : /\ world'[x].look = world[x].look
                            /\ world'[x].health = world[x].health
                            /\ x # e => world'[x].zone = world[x].zone
  BY <1>1, <1>3 DEF Typed, WorldState, Zone
<1>6. Typed'
  <2>1. obs'.epoch <= changes'
    BY <1>3, <1>4
  <2>2. stale' \in BOOLEAN /\ marked' \subseteq Subject /\ fanout' \subseteq Subject
    BY <1>1, <1>3 DEF Typed, Visible
  <2> QED
    BY <1>1, <1>3, <1>4, <1>5, <2>1, <2>2 DEF Typed
<1>7. Scheduled(world', marked', obs', fanout')
  <2> SUFFICES ASSUME NEW x \in Subject, obs.life[x] = "known", world'[x].zone # "gone"
               PROVE  x \in fanout' /\ (obs.lag[x] # {} => x \in obs.pending \/ x \in marked')
    BY <1>3 DEF Scheduled
  <2>1. x # e /\ world[x].zone # "gone"
    BY <1>5
  <2>2. x \in fanout /\ (obs.lag[x] # {} => x \in obs.pending \/ x \in marked)
    BY <1>1, <2>1 DEF Scheduled
  <2> QED
    BY <1>3, <2>1, <2>2
<1>8. Told(world', obs, h[Len(Stream)])
  BY <1>2, <1>5, ZonesTellNothing DEF Linked
<1>9. Linked(world', obs, Stream, replica, h)
  BY <1>2, <1>8, LinkedAnew
<1>10. Stream' = Stream
  BY <1>3, <1>4 DEF Stream
<1> QED
  BY <1>3, <1>4, <1>6, <1>7, <1>9, <1>10 DEF StreamInv

LEMMA FreshType ==
  ASSUME NEW n \in 0 .. MaxChanges
  PROVE  /\ Fresh(n) \in ObsState /\ Fresh(n).epoch = n
         /\ \A e \in Subject : Fresh(n).life[e] = "none"
BY DEF Fresh, ObsState

(* Nothing of an older epoch is left in the queue.                         *)
LEMMA PurgedOfAll ==
  ASSUME NEW p \in Seq(Frame), NEW n \in Int, \A i \in 1 .. Len(p) : p[i].epoch < n
  PROVE  Purged(p, n) = <<>>
<1> DEFINE kept == {i \in 1 .. Len(p) : p[i].epoch >= n}
           nth(k) == CHOOSE i \in kept : Cardinality({j \in kept : j <= i}) = k
           s == [k \in 1 .. Cardinality(kept) |-> p[nth(k)]]
<1>1. \A i \in 1 .. Len(p) : p[i].epoch \in Int
  <2>1. \A f \in Frame : f.epoch \in Int
    BY Bounds DEF Frame
  <2> QED
    BY <2>1
<1>2. \A i \in 1 .. Len(p) : ~(p[i].epoch >= n)
  BY <1>1
<1>3. kept = {}
  BY <1>2
<1>4. Purged(p, n) = s
  BY DEF Purged
<1> HIDE DEF kept, nth
<1>5. Cardinality(kept) = 0
  BY <1>3, FS_EmptySet
<1>6. s = <<>>
  BY <1>5
<1> QED
  BY <1>4, <1>6

(* The queue holds no frame from beyond the observer's epoch.              *)
LEMMA QueueIsOld ==
  ASSUME Typed, NEW h, Chain(Stream, replica, h, obs.epoch), obs.epoch \in Nat
  PROVE  \A i \in 1 .. Len(pipe) : pipe[i].epoch < obs.epoch + 1
<1>1. wire \in Seq(Frame) /\ pipe \in Seq(Frame)
  BY DEF Typed
<1> SUFFICES ASSUME NEW i \in 1 .. Len(pipe) PROVE pipe[i].epoch < obs.epoch + 1
  OBVIOUS
<1>2. /\ Len(Stream) = Len(wire) + Len(pipe) /\ Len(wire) \in Nat /\ Len(pipe) \in Nat
      /\ Stream[Len(wire) + i] = pipe[i]
  BY <1>1, StreamParts DEF Stream
<1>3. Len(wire) + i \in 1 .. Len(Stream)
  BY <1>2
<1>4. pipe[i].epoch <= obs.epoch
  BY <1>2, <1>3 DEF Chain
<1>5. pipe[i].epoch \in Int
  <2>1. pipe[i] \in Frame
    BY <1>1
  <2> QED
    BY <2>1, Bounds DEF Frame
<1> QED
  BY <1>4, <1>5

(* Without the queue the stream is what is on the wire.                    *)
LEMMA WireIsKept ==
  ASSUME NEW w \in Seq(Frame), NEW p \in Seq(Frame), NEW f \in Frame
  PROVE  /\ SubSeq(w \o p, 1, Len(w)) = w
         /\ w \o Append(<<>>, f) = Append(w, f)
         /\ Len(w) \in 0 .. Len(w \o p)
<1> DEFINE s == w \o p
<1>1. /\ s \in Seq(Frame) /\ Len(s) = Len(w) + Len(p) /\ Len(w) \in Nat /\ Len(p) \in Nat
      /\ \A i \in 1 .. Len(w) : s[i] = w[i]
  BY StreamParts
<1> HIDE DEF s
<1>2. Len(w) \in 0 .. Len(s)
  BY <1>1
<1>3. /\ SubSeq(s, 1, Len(w)) \in Seq(Frame) /\ Len(SubSeq(s, 1, Len(w))) = Len(w)
      /\ \A i \in 1 .. Len(w) : SubSeq(s, 1, Len(w))[i] = s[i]
  BY <1>1, <1>2, PrefixParts
<1>4. SubSeq(s, 1, Len(w)) = w
  BY <1>1, <1>3, SameSequence
<1>5. /\ <<>> \in Seq(Frame) /\ Append(<<>>, f) \in Seq(Frame)
  OBVIOUS
<1>6. w \o <<>> = w
  OBVIOUS
<1>7. w \o Append(<<>>, f) = Append(w, f)
  BY <1>5, <1>6, QueuedIsLast
<1> QED
  BY <1>2, <1>4, <1>7 DEF s

LEMMA TransitionStep ==
  ASSUME StreamInv, Transition
  PROVE  StreamInv'
<1>1. Typed
  BY DEF StreamInv
<1>2. PICK h : Linked(world, obs, Stream, replica, h)
  BY DEF StreamInv
<1>3. /\ changes' \in 0 .. MaxChanges /\ changes' = changes + 1 /\ changes < MaxChanges
      /\ obs.epoch \in Nat /\ obs.epoch <= changes /\ changes \in Nat
      /\ UNCHANGED <<wire, replica>>
  BY <1>1, OneMoreChange DEF Transition
<1>4. marked' = {} /\ stale' = FALSE
  BY DEF Transition
<1>5. PICK z \in [Subject -> {"near", "far"}] :
        /\ world' = Relocated(z)
        /\ Publish(Relocated(z), Classified(Relocated(z), Bumped(obs)), {},
                   Purged(pipe, Classified(Relocated(z), Bumped(obs)).epoch))
  BY DEF Transition
<1> DEFINE w == Relocated(z)
           b == Bumped(obs)
           o == Classified(w, b)
<1>6. w \in WorldState
  <2>1. z \in [Subject -> {"near", "edge", "far"}]
    OBVIOUS
  <2> QED
    BY <1>1, <2>1, RelocatedParts DEF Typed
<1>7. b \in ObsState /\ b.epoch = obs.epoch + 1 /\ \A e \in Subject : b.life[e] = "none"
  <2>1. obs.epoch + 1 \in 0 .. MaxChanges
    BY <1>3, Bounds
  <2> QED
    BY <2>1, FreshType DEF Bumped
<1> HIDE DEF b, w
<1>8. IsClassified(o, b)
  BY <1>7, ClassifiedFields
<1> HIDE DEF o
<1>9. /\ o \in ObsState /\ o.epoch = obs.epoch + 1
      /\ \A e \in Subject : o.life[e] \notin {"known", "wantLeave"}
  BY <1>7, <1>8 DEF IsClassified
<1>10. Chain(Stream, replica, h, obs.epoch)
  BY <1>2 DEF Linked
<1>11. Purged(pipe, o.epoch) = <<>>
  <2>1. \A i \in 1 .. Len(pipe) : pipe[i].epoch < obs.epoch + 1
    BY <1>1, <1>3, <1>10, QueueIsOld
  <2>2. pipe \in Seq(Frame) /\ obs.epoch + 1 \in Int
    BY <1>1, <1>3 DEF Typed
  <2> QED
    BY <1>9, <2>1, <2>2, PurgedOfAll
<1>12. Publish(w, o, {}, <<>>)
  BY <1>5, <1>11 DEF o, w, b
<1>13. Publication(w, o, {}, <<>>)
  BY <1>9, <1>12, PublishChooses
<1>14. PICK friends, silent, out, in, upd :
        \E kept \in SUBSET Subject :
           /\ Chosen(w, o, friends, silent, out, in, upd)
           /\ pipe' = Append(<<>>, Packed(w, o, out, in, upd, friends))
           /\ obs' = Committed(w, o, friends, silent, out, in, upd, kept)
           /\ fanout' = Registered({}, in, out)
  BY <1>13 DEF Publication
<1>15. PICK kept \in SUBSET Subject :
           /\ Chosen(w, o, friends, silent, out, in, upd)
           /\ pipe' = Append(<<>>, Packed(w, o, out, in, upd, friends))
           /\ obs' = Committed(w, o, friends, silent, out, in, upd, kept)
           /\ fanout' = Registered({}, in, out)
  BY <1>14
<1> DEFINE f == Packed(w, o, out, in, upd, friends)
           s == Committed(w, o, friends, silent, out, in, upd, kept)
<1>16. f \in Frame /\ f.epoch = o.epoch
  BY <1>6, <1>9, PackedParts
<1>17. IsCommitted(s, w, o, friends, silent, out, in, upd, kept)
  BY <1>9, <1>15, CommittedFields
<1>18. s \in ObsState /\ s.epoch = o.epoch
  BY <1>17 DEF IsCommitted
<1>19. wire \in Seq(Frame) /\ pipe \in Seq(Frame)
  BY <1>1 DEF Typed
<1>20. PICK g : /\ Chain(wire, replica, g, o.epoch)
                /\ g[Len(wire)] = h[Len(wire)] /\ h[Len(wire)].epoch <= obs.epoch
                /\ h[Len(wire)] \in ReplicaState
  <2>1. /\ SubSeq(Stream, 1, Len(wire)) = wire /\ Len(wire) \in 0 .. Len(Stream)
    BY <1>16, <1>19, WireIsKept DEF Stream
  <2>2. obs.epoch \in Int /\ o.epoch \in Int /\ obs.epoch <= o.epoch
    BY <1>3, <1>9
  <2> DEFINE m == Len(wire)
  <2>3. m \in 0 .. Len(Stream)
    BY <2>1
  <2> HIDE DEF m
  <2>4. \E g : /\ Chain(SubSeq(Stream, 1, m), replica, g, o.epoch)
               /\ g[m] = h[m] /\ h[m].epoch <= obs.epoch /\ h[m] \in ReplicaState
    BY <1>10, <2>2, <2>3, ChainCut
  <2> QED
    BY <2>1, <2>4 DEF m
<1> DEFINE a == g[Len(wire)]
<1>21. a \in ReplicaState /\ a.epoch < o.epoch
  <2>1. a \in ReplicaState /\ a.epoch <= obs.epoch
    BY <1>20
  <2>2. a.epoch \in Int
    BY <2>1, Bounds DEF ReplicaState
  <2> QED
    BY <1>3, <1>9, <2>1, <2>2
<1>22. Fits(f, a) /\ Applied(a, f).epoch = o.epoch /\ Told(w, s, Applied(a, f))
  <2> HIDE DEF a
  <2> QED
    BY <1>6, <1>9, <1>15, <1>21, BaselineTold
<1>23. pipe' = Append(<<>>, f) /\ obs' = s
  BY <1>15
<1> HIDE DEF f, s
<1>24. PICK k : /\ Chain(Append(wire, f), replica, k, o.epoch)
                /\ k[Len(Append(wire, f))] = Applied(a, f)
  <2>1. o.epoch \in Int /\ f.epoch <= o.epoch
    BY <1>3, <1>9, <1>16
  <2> QED
    BY <1>16, <1>20, <1>22, <2>1, ChainExtended
<1>25. Linked(w, s, Append(wire, f), replica, k)
  BY <1>18, <1>22, <1>24 DEF Linked
<1>26. Stream' = Append(wire, f)
  BY <1>3, <1>16, <1>19, <1>23, WireIsKept DEF Stream
<1>27. world' = w
  BY <1>5 DEF w
<1>28. Typed'
  <2>1. fanout' \subseteq Subject
    <3>1. in \subseteq Subject
      BY <1>15 DEF Chosen, InState
    <3> QED
      BY <1>15, <3>1 DEF Registered
  <2>2. pipe' \in Seq(Frame) /\ Len(pipe') <= PipeCap
    <3>1. <<>> \in Seq(Frame) /\ Len(<<>>) = 0
      OBVIOUS
    <3>2. pipe' \in Seq(Frame) /\ Len(pipe') = 1
      BY <1>16, <1>23, <3>1, AppendParts
    <3> QED
      BY <3>2, Bounds
  <2>3. obs'.epoch <= changes'
    BY <1>3, <1>9, <1>18, <1>23
  <2> QED
    BY <1>1, <1>3, <1>4, <1>6, <1>18, <1>23, <1>27, <2>1, <2>2, <2>3 DEF Typed
<1>29. Scheduled(world', marked', obs', fanout')
  <2>1. \A e \in Subject : o.life[e] # "known"
    BY <1>9
  <2>2. Scheduled(w, {}, s, Registered({}, in, out))
    BY <1>9, <1>15, <1>17, <2>1, PublishScheduled
  <2> QED
    BY <1>4, <1>15, <1>23, <1>27, <2>2
<1> QED
  BY <1>3, <1>23, <1>25, <1>26, <1>27, <1>28, <1>29 DEF StreamInv

LEMMA InitInv ==
  Init => StreamInv
<1> SUFFICES ASSUME Init PROVE StreamInv
  OBVIOUS
<1>1. PICK z \in [Subject -> {"near", "far"}], u \in {"well", "dead"} :
        world = [e \in Subject |-> [zone |-> z[e], look |-> 0, health |-> u]]
  BY DEF Init
<1>2. /\ marked = {} /\ stale = TRUE /\ obs = Fresh(0) /\ fanout = {}
      /\ pipe = <<>> /\ wire = <<>> /\ changes = 0
      /\ replica = [epoch |-> 0, ent |-> [e \in Subject |-> Absent]]
  BY DEF Init
<1>3. 0 \in 0 .. MaxChanges
  BY Bounds
<1>4. obs \in ObsState /\ obs.epoch = 0 /\ \A e \in Subject : obs.life[e] = "none"
  BY <1>2, <1>3, FreshType
<1>5. world \in WorldState
  BY <1>1 DEF WorldState, Zone, Health
<1>6. replica \in ReplicaState /\ replica.epoch = 0
  BY <1>2, <1>3 DEF ReplicaState
<1>7. /\ pipe \in Seq(Frame) /\ Len(pipe) = 0 /\ wire \in Seq(Frame) /\ Len(wire) = 0
  BY <1>2
<1>8. Typed
  BY <1>2, <1>3, <1>4, <1>5, <1>6, <1>7, Bounds DEF Typed
<1>9. Scheduled(world, marked, obs, fanout)
  BY <1>4 DEF Scheduled
<1>10. Stream \in Seq(Frame) /\ Len(Stream) = 0
  BY <1>7, StreamParts DEF Stream
<1> DEFINE h == [k \in 0 .. 0 |-> replica]
<1>11. h \in [0 .. 0 -> ReplicaState] /\ h[0] = replica /\ 0 .. 0 = {0} /\ 1 .. 0 = {}
  BY <1>6
<1> HIDE DEF h
<1>12. Chain(Stream, replica, h, obs.epoch)
  BY <1>4, <1>6, <1>10, <1>11 DEF Chain
<1>13. Told(world, obs, replica)
  <2>1. \A e \in Subject : replica.ent[e] = Absent
    BY <1>2
  <2> QED
    BY <1>4, <2>1 DEF Told, Knows
<1>14. Linked(world, obs, Stream, replica, h)
  BY <1>4, <1>6, <1>10, <1>11, <1>12, <1>13 DEF Linked
<1> QED
  BY <1>8, <1>9, <1>14 DEF StreamInv

LEMMA StepInv ==
  ASSUME StreamInv, [Next]_vars
  PROVE  StreamInv'
<1>1. CASE Tick
  BY <1>1, TickStep
<1>2. CASE Write
  BY <1>2, WriteStep
<1>3. CASE Apply
  BY <1>3, ApplyStep
<1>4. CASE ObserverMove
  BY <1>4, ObserverMoveStep
<1>5. CASE Transition
  BY <1>5, TransitionStep
<1>6. ASSUME NEW e \in Subject, Move(e) PROVE StreamInv'
  BY <1>6, MoveStep
<1>7. ASSUME NEW e \in Subject, SetHealth(e) PROVE StreamInv'
  BY <1>7, SetHealthStep
<1>8. ASSUME NEW e \in Subject, Despawn(e) PROVE StreamInv'
  BY <1>8, DespawnStep
<1>9. CASE UNCHANGED vars
  BY <1>9 DEF vars, StreamInv, Typed, Stream
<1> QED
  BY <1>1, <1>2, <1>3, <1>4, <1>5, <1>6, <1>7, <1>8, <1>9 DEF Next

LEMMA InvIsSound ==
  ASSUME StreamInv
  PROVE  StreamIsSound
<1>1. Typed /\ Scheduled(world, marked, obs, fanout)
  BY DEF StreamInv
<1>2. PICK h : Linked(world, obs, Stream, replica, h)
  BY DEF StreamInv
<1>3. Chain(Stream, replica, h, obs.epoch)
  BY <1>2 DEF Linked
<1>4. (\A k \in 0 .. Len(Stream) : Replicas[k] = h[k]) /\ Len(Stream) \in Nat
  BY <1>3, ReplicasAreTheChain
<1>5. Len(Stream) \in 0 .. Len(Stream)
  BY <1>4
<1>6. Arriving = h[Len(Stream)]
  BY <1>4, <1>5 DEF Arriving
<1>7. Arriving.epoch = obs.epoch /\ \A e \in Subject : Knows(world, obs, e, Arriving.ent[e])
  BY <1>2, <1>6 DEF Linked, Told
<1>8. TypeOK
  BY <1>1 DEF Typed, TypeOK, WorldState, ObsState, ReplicaState
<1>9. StreamIsCommitted
  BY <1>7 DEF StreamIsCommitted, Held, InState, Knows
<1>10. RecordsFindEntities
  <2> SUFFICES ASSUME NEW k \in 1 .. Len(Stream), NEW e \in Subject,
                      Stream[k].epoch = Replicas[k - 1].epoch
               PROVE  /\ Stream[k].rec[e].op \in {"update", "leave"} =>
                           Replicas[k - 1].ent[e] # Absent
                      /\ Stream[k].rec[e].op = "enter" => Replicas[k - 1].ent[e] = Absent
    BY DEF RecordsFindEntities
  <2>1. k - 1 \in 0 .. Len(Stream)
    BY <1>4
  <2>2. Replicas[k - 1] = h[k - 1]
    BY <1>4, <2>1
  <2>3. Fits(Stream[k], h[k - 1])
    BY <1>3 DEF Chain
  <2> QED
    BY <2>2, <2>3 DEF Fits
<1>11. SettledIsShown
  BY <1>7 DEF SettledIsShown, InState, Knows
<1> QED
  BY <1>8, <1>9, <1>10, <1>11 DEF StreamIsSound

LEMMA InvIsScheduled ==
  ASSUME StreamInv
  PROVE  ChangesAreScheduled
<1>1. Scheduled(world, marked, obs, fanout)
  BY DEF StreamInv
<1> QED
  BY <1>1 DEF Scheduled, ChangesAreScheduled, InState, Alive

LEMMA InvHolds ==
  Spec => []StreamInv
BY InitInv, StepInv, PTL DEF Spec

(* Without any acknowledgement the server's record of what the client has  *)
(* stays true through deferrals, full queues, purges and new epochs: when  *)
(* the frames under way are applied, the client has exactly the entities   *)
(* that count as known, every record met the entity it is about, and what  *)
(* was settled in silence is shown as it is.                               *)
THEOREM StreamSound ==
  Spec => []StreamIsSound
BY InvHolds, InvIsSound, PTL

(* No change of a known entity is lost between the dirty set, the fan-out  *)
(* index and the pending updates: the recovery scan has nothing to rescue. *)
THEOREM ChangesScheduled ==
  Spec => []ChangesAreScheduled
BY InvHolds, InvIsScheduled, PTL

=============================================================================
