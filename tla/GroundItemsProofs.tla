---------------------------- MODULE GroundItemsProofs ----------------------------
(***************************************************************************)
(* Proofs about GroundItems, for any players, any ids and batches, both    *)
(* builds, and players who wander off or stay.                             *)
(*                                                                         *)
(* The invariant goes through the items: an id that was not shown yet is   *)
(* unknown everywhere; an item that no command holds is settled, that is   *)
(* in World what it is in the database; an item that a command holds is    *)
(* where the kind and the progress of that one command say.                *)
(***************************************************************************)
EXTENDS GroundItems, FiniteSetTheorems, TLAPS

OwnState ==
  [live : [Item -> Live \cup {Off}], expiry : SUBSET ((0 .. Lifetime) \X Item),
   deferred : Seq(Item), member : SUBSET Item, held : SUBSET Item,
   visible : SUBSET Item, durable : SUBSET Item]

WorldState == [Item -> Character \cup {"none", "drop"}]
RowState == [Item -> Character \cup {"none", "ground", "retired"}]
Plan == [killer : Character, left : 1 .. MaxRoll]

(* Nobody has seen the id i yet.                                           *)
Unknown(o, w, r, i) ==
  r[i] = "none" /\ w[i] = "none" /\ i \notin o.visible \cup o.durable \cup o.held

Distinct(s) == \A j, k \in 1 .. Len(s) : s[j] = s[k] => j = k

(* The ids in the pool p, in the answer g and above the last one issued.   *)
FreshIds(o, w, r, p, g, n) ==
  /\ \A i \in Item : i > n \/ i \in Range(p) \/ i \in Range(g) => Unknown(o, w, r, i)
  /\ \A i \in Range(p) \cup Range(g) : i <= n
  /\ Range(p) \cap Range(g) = {} /\ Distinct(p)

Formed(t, m) ==
  /\ m.kind = "retire" <=> t \in Item
  /\ t \in Item => m.item = t
  /\ m.kind = "drop" => ~m.reserved
  /\ m.stored => m.at \notin {"outbound", "refused"}
  /\ m.at \in {"done", "reconcile", "stuck"} => m.stored

(* A player with a command is not away.                                    *)
Commanded(cmd, pl) ==
  \A t \in Token : cmd[t] # Idle =>
    Formed(t, cmd[t]) /\ (t \in Character => pl[t] # "away")

(* What is held is held by one command, and a command holds its item.      *)
Reserved(held, cmd) ==
  /\ \A t \in Token : cmd[t] # Idle => cmd[t].item \in held
  /\ \A i \in held : \E t \in Token : cmd[t] # Idle /\ cmd[t].item = i
  /\ \A s, t \in Token :
       cmd[s] # Idle /\ cmd[t] # Idle /\ cmd[s].item = cmd[t].item => s = t

(* The bookkeeping will come back to i.                                    *)
Scheduled(o, i) == <<o.live[i].due, i>> \in o.expiry \/ i \in o.member

(* Every drop is scheduled or being retired.                               *)
Timed(o, w, cmd) ==
  \A i \in Item : w[i] = "drop" => o.live[i] # Off /\ (Scheduled(o, i) \/ cmd[i] # Idle)

Members(o) == o.member \subseteq Range(o.deferred)

(* An item that no command holds is in World what it is in the database.   *)
Settled(o, w, r, i) ==
  /\ w[i] = "drop" =>
       IF i \in o.visible THEN r[i] = "none" /\ i \notin o.durable
       ELSE r[i] = "ground" /\ i \in o.durable
  /\ w[i] \in Character => r[i] = w[i] /\ i \in o.durable \ o.visible
  /\ w[i] = "none" => r[i] # "ground" /\ i \notin o.visible \cup o.durable

(* The item of the command m of t.                                         *)
InHand(o, w, r, t, m) ==
  /\ m.kind = "drop" =>
       /\ w[m.item] = t /\ m.item \in o.durable \ o.visible
       /\ r[m.item] = IF m.stored THEN "ground" ELSE t
  /\ m.kind # "drop" =>
       /\ w[m.item] = "drop" /\ (m.reserved <=> m.item \in o.visible)
       /\ m.item \in o.durable <=> m.item \notin o.visible
       /\ m.stored => r[m.item] = IF m.kind = "pickup" THEN t ELSE "retired"
       /\ ~m.stored => r[m.item] = IF m.item \in o.visible THEN "none" ELSE "ground"

Stored(o, w, r, cmd) ==
  /\ \A i \in Item : i \notin o.held => Settled(o, w, r, i)
  /\ \A t \in Token : cmd[t] # Idle => InHand(o, w, r, t, cmd[t])

Typed ==
  /\ own \in OwnState /\ world \in WorldState /\ shown \subseteq Item
  /\ loot \in Seq(Plan) /\ Len(loot) <= MaxPlans /\ pool \in Seq(Item)
  /\ replenish \in [at : {"idle", "asked", "answered"}, got : Seq(Item)]
  /\ command \in [Token -> Command \cup {Idle}]
  /\ player \in [Character -> {"away", "here", "leaving"}]
  /\ row \in RowState /\ issued \in 0 .. MaxItem /\ channel \in {"live", "ended", "taken"}

(* What the bookkeeping promises whoever holds the channel.                *)
Kept(o, w, r, p, g, n, cmd, pl) ==
  /\ FreshIds(o, w, r, p, g, n)
  /\ Commanded(cmd, pl) /\ Reserved(o.held, cmd)
  /\ Timed(o, w, cmd) /\ Members(o)

GroundInv ==
  /\ Typed
  /\ Kept(own, world, row, pool, replenish.got, issued, command, player)
  /\ channel # "taken" => Stored(own, world, row, command)
  /\ channel = "taken" => \A i \in Item : row[i] # "ground"

(***************************************************************************)
(* Constants, sequences, and loops.                                        *)
(***************************************************************************)

(* A set of numbers that has members has a least one.                      *)
LEMMA LeastNumber ==
  ASSUME NEW T \in SUBSET Nat, T # {}
  PROVE  \E x \in T : \A y \in T : x <= y
<1> DEFINE F == {0 .. x : x \in T}
<1>1. IsWellFoundedOn(StrictSubsetOrdering(Nat), FiniteSubsetsOf(Nat))
  BY FS_StrictSubsetOrderingWellFounded
<1>2. F \subseteq FiniteSubsetsOf(Nat) /\ F # {}
  <2>1. \A x \in Nat : IsFiniteSet(0 .. x) /\ 0 .. x \in SUBSET Nat
    BY FS_Interval
  <2> QED
    BY <2>1 DEF FiniteSubsetsOf
<1>3. PICK m \in F : \A f \in F : <<f, m>> \notin StrictSubsetOrdering(Nat)
  BY <1>1, <1>2, WFMin
<1>4. PICK x \in T : m = 0 .. x
  OBVIOUS
<1>5. ASSUME NEW y \in T, y < x PROVE FALSE
  <2>1. 0 .. y \subseteq 0 .. x /\ 0 .. y # 0 .. x /\ 0 .. x \subseteq Nat
    BY <1>5
  <2>2. <<0 .. y, 0 .. x>> \in StrictSubsetOrdering(Nat)
    BY <2>1 DEF StrictSubsetOrdering
  <2> QED
    BY <1>3, <1>4, <2>2
<1> QED
  BY <1>5

LEMMA Bounds ==
  /\ MaxItem \in Nat /\ Carried \in 0 .. MaxItem
  /\ Lifetime \in Nat /\ Lifetime > 0 /\ Window \in Nat /\ Window > 0
  /\ WakeBatch \in Nat /\ WakeBatch > 0 /\ ReserveBatch \in Nat /\ ReserveBatch > 0
  /\ MaxRoll \in Nat /\ MaxRoll > 0 /\ LowWater \in Nat /\ MaxPlans \in Nat
  /\ \A c \in Character : c \notin Item /\ c \notin {"none", "drop", "ground", "retired"}
BY GroundAssumption DEF GroundAssumption, Item

LEMMA ItemIsNumber == Item \subseteq Nat
BY Bounds DEF Item

LEMMA OffIsOff ==
  /\ Off.kind = "off" /\ \A l \in Live : l # Off
<1>1. \A l \in Live : l.kind \in {"drop", "loot"}
  BY DEF Live
<1>2. Off.kind = "off"
  BY DEF Off
<1> QED
  BY <1>1, <1>2

LEMMA IdleIsIdle ==
  \A m \in Command : m # Idle
<1>1. \A m \in Command : m.kind \in {"drop", "pickup", "retire"}
  BY DEF Command
<1>2. Idle.kind = "idle"
  BY DEF Idle
<1> QED
  BY <1>1, <1>2

LEMMA AppendParts ==
  ASSUME NEW S, NEW s \in Seq(S), NEW x \in S
  PROVE  /\ Append(s, x) \in Seq(S) /\ Len(Append(s, x)) = Len(s) + 1 /\ Len(s) \in Nat
         /\ \A i \in 1 .. Len(s) : Append(s, x)[i] = s[i]
         /\ Append(s, x)[Len(s) + 1] = x
OBVIOUS

LEMMA TailParts ==
  ASSUME NEW S, NEW s \in Seq(S), s # <<>>
  PROVE  /\ Tail(s) \in Seq(S) /\ Len(s) \in Nat \ {0} /\ Len(Tail(s)) = Len(s) - 1
         /\ \A i \in 1 .. Len(s) - 1 : Tail(s)[i] = s[i + 1]
         /\ Head(s) = s[1] /\ Head(s) \in S
OBVIOUS

LEMMA RangeParts ==
  ASSUME NEW S, NEW s \in Seq(S)
  PROVE  /\ \A i \in 1 .. Len(s) : s[i] \in Range(s) /\ s[i] \in S
         /\ \A x \in Range(s) : \E i \in 1 .. Len(s) : x = s[i]
         /\ Range(s) \subseteq S /\ Len(s) \in Nat
<1>1. DOMAIN s = 1 .. Len(s) /\ Len(s) \in Nat /\ \A i \in 1 .. Len(s) : s[i] \in S
  OBVIOUS
<1> QED
  BY <1>1 DEF Range

LEMMA AppendRange ==
  ASSUME NEW S, NEW s \in Seq(S), NEW x \in S
  PROVE  /\ Range(Append(s, x)) = Range(s) \cup {x}
         /\ Distinct(s) /\ x \notin Range(s) => Distinct(Append(s, x))
<1> DEFINE t == Append(s, x)
           n == Len(s)
<1>1. /\ t \in Seq(S) /\ Len(t) = n + 1 /\ n \in Nat
      /\ \A i \in 1 .. n : t[i] = s[i]
      /\ t[n + 1] = x
  BY AppendParts
<1> HIDE DEF t
<1>2. /\ \A i \in 1 .. n : s[i] \in Range(s)
      /\ \A y \in Range(s) : \E i \in 1 .. n : y = s[i]
  BY RangeParts
<1>3. /\ \A i \in 1 .. n + 1 : t[i] \in Range(t)
      /\ \A y \in Range(t) : \E i \in 1 .. n + 1 : y = t[i]
  BY <1>1, RangeParts
<1>4. \A i \in 1 .. n + 1 : i = n + 1 \/ i \in 1 .. n
  BY <1>1
<1>5. \A i \in 1 .. n : i \in 1 .. n + 1
  BY <1>1
<1>6. n + 1 \in 1 .. n + 1
  BY <1>1
<1>7. Range(t) = Range(s) \cup {x}
  <2>1. ASSUME NEW y \in Range(t) PROVE y \in Range(s) \cup {x}
    BY <1>1, <1>2, <1>3, <1>4
  <2>2. ASSUME NEW y \in Range(s) PROVE y \in Range(t)
    BY <1>1, <1>2, <1>3, <1>5
  <2>3. x \in Range(t)
    BY <1>1, <1>3, <1>6
  <2> QED
    BY <2>1, <2>2, <2>3
<1>8. ASSUME Distinct(s), x \notin Range(s), NEW j \in 1 .. n + 1, NEW k \in 1 .. n + 1,
             t[j] = t[k]
      PROVE  j = k
  <2>1. CASE j \in 1 .. n /\ k \in 1 .. n
    BY <1>1, <1>8, <2>1 DEF Distinct, n
  <2>2. CASE j = n + 1 /\ k \in 1 .. n
    BY <1>1, <1>2, <1>8, <2>2
  <2>3. CASE k = n + 1 /\ j \in 1 .. n
    BY <1>1, <1>2, <1>8, <2>3
  <2> QED
    BY <1>4, <2>1, <2>2, <2>3
<1>9. Distinct(s) /\ x \notin Range(s) => Distinct(t)
  BY <1>1, <1>8 DEF Distinct
<1> QED
  BY <1>7, <1>9 DEF t

LEMMA TailRange ==
  ASSUME NEW S, NEW s \in Seq(S), s # <<>>
  PROVE  /\ Range(s) = {Head(s)} \cup Range(Tail(s))
         /\ Distinct(s) => Distinct(Tail(s)) /\ Head(s) \notin Range(Tail(s))
<1> DEFINE t == Tail(s)
           n == Len(s)
<1>1. /\ t \in Seq(S) /\ n \in Nat \ {0} /\ Len(t) = n - 1
      /\ \A i \in 1 .. n - 1 : t[i] = s[i + 1]
      /\ Head(s) = s[1]
  BY TailParts
<1> HIDE DEF t
<1>2. /\ \A i \in 1 .. n : s[i] \in Range(s)
      /\ \A y \in Range(s) : \E i \in 1 .. n : y = s[i]
  BY RangeParts
<1>3. /\ \A i \in 1 .. n - 1 : t[i] \in Range(t)
      /\ \A y \in Range(t) : \E i \in 1 .. n - 1 : y = t[i]
  BY <1>1, RangeParts
<1>4. \A i \in 1 .. n : i = 1 \/ (i - 1 \in 1 .. n - 1 /\ (i - 1) + 1 = i)
  BY <1>1
<1>5. \A i \in 1 .. n - 1 : i + 1 \in 1 .. n /\ i + 1 # 1
  BY <1>1
<1>6. 1 \in 1 .. n
  BY <1>1
<1>7. Range(s) = {s[1]} \cup Range(t)
  <2>1. ASSUME NEW y \in Range(s) PROVE y \in {s[1]} \cup Range(t)
    <3>1. PICK i \in 1 .. n : y = s[i]
      BY <1>2
    <3>2. CASE i = 1
      BY <3>1, <3>2
    <3>3. CASE i - 1 \in 1 .. n - 1 /\ (i - 1) + 1 = i
      BY <1>1, <1>3, <3>1, <3>3
    <3> QED
      BY <1>4, <3>2, <3>3
  <2>2. ASSUME NEW y \in Range(t) PROVE y \in Range(s)
    BY <1>1, <1>2, <1>3, <1>5
  <2>3. s[1] \in Range(s)
    BY <1>2, <1>6
  <2> QED
    BY <2>1, <2>2, <2>3
<1>8. ASSUME Distinct(s) PROVE Distinct(t) /\ s[1] \notin Range(t)
  <2>1. ASSUME NEW j \in 1 .. n - 1, NEW k \in 1 .. n - 1, t[j] = t[k] PROVE j = k
    <3>1. s[j + 1] = s[k + 1] /\ j + 1 \in 1 .. n /\ k + 1 \in 1 .. n
      BY <1>1, <1>5, <2>1
    <3>2. j + 1 = k + 1
      BY <1>8, <3>1 DEF Distinct, n
    <3> QED
      BY <3>2
  <2>2. ASSUME s[1] \in Range(t) PROVE FALSE
    <3>1. PICK i \in 1 .. n - 1 : s[1] = t[i]
      BY <1>3, <2>2
    <3>2. s[1] = s[i + 1] /\ i + 1 \in 1 .. n /\ i + 1 # 1
      BY <1>1, <1>5, <3>1
    <3> QED
      BY <1>6, <1>8, <3>2 DEF Distinct, n
  <2> QED
    BY <1>1, <2>1, <2>2 DEF Distinct
<1> QED
  BY <1>1, <1>7, <1>8 DEF t

(* As many different members as there are places.                          *)
LEMMA DistinctCounts ==
  ASSUME NEW S, NEW s \in Seq(S), Distinct(s)
  PROVE  Cardinality(Range(s)) = Len(s)
<1>1. /\ \A i \in 1 .. Len(s) : s[i] \in Range(s)
      /\ \A x \in Range(s) : \E i \in 1 .. Len(s) : x = s[i]
      /\ Len(s) \in Nat
  BY RangeParts
<1> DEFINE f == [i \in 1 .. Len(s) |-> s[i]]
<1>2. f \in Bijection(1 .. Len(s), Range(s))
  <2>1. f \in Injection(1 .. Len(s), Range(s))
    BY <1>1 DEF Injection, IsInjective, Distinct
  <2>2. f \in Surjection(1 .. Len(s), Range(s))
    BY <1>1 DEF Surjection
  <2> QED
    BY <2>1, <2>2 DEF Bijection
<1>3. ASSUME NEW n \in Nat PROVE IsFiniteSet(1 .. n) /\ Cardinality(1 .. n) = n
  <2>1. /\ IsFiniteSet(1 .. n)
        /\ Cardinality(1 .. n) = IF 1 > n THEN 0 ELSE n - 1 + 1
    BY FS_Interval
  <2>2. (IF 1 > n THEN 0 ELSE n - 1 + 1) = n
    OBVIOUS
  <2> QED
    BY <2>1, <2>2
<1> QED
  BY <1>1, <1>2, <1>3, FS_Bijection DEF ExistsBijection

(* A loop of N turns of f, which keeps P.                                  *)
Keeps(f, P) == \A s \in P : f[s] \in P
Runs(g, f, P, a, N) ==
  g \in [0 .. N -> P] /\ g[0] = a /\ \A k \in 1 .. N : g[k] = f[g[k - 1]]

LEMMA LoopRuns ==
  ASSUME NEW P, NEW f, Keeps(f, P), NEW a \in P, NEW N \in Nat
  PROVE  \E g : Runs(g, f, P, a, N)
<1> DEFINE Run(n, g) == g[0] = a /\ \A k \in 1 .. n : g[k] = f[g[k - 1]]
           T == {n \in Nat : ~\E g \in [0 .. n -> P] : Run(n, g)}
<1>1. ASSUME T # {} PROVE FALSE
  <2>1. T \in SUBSET Nat
    OBVIOUS
  <2> HIDE DEF T
  <2>2. PICK x \in T : \A y \in T : x <= y
    BY <1>1, <2>1, LeastNumber
  <2>3. x \in Nat /\ ~\E g \in [0 .. x -> P] : Run(x, g)
    BY <2>2 DEF T
  <2>4. CASE x = 0
    <3>1. [k \in 0 .. 0 |-> a] \in [0 .. 0 -> P] /\ Run(0, [k \in 0 .. 0 |-> a])
      OBVIOUS
    <3> QED
      BY <2>3, <2>4, <3>1
  <2>5. CASE x # 0
    <3>1. x - 1 \in Nat /\ ~(x <= x - 1)
      BY <2>3, <2>5
    <3>2. x - 1 \notin T
      BY <2>2, <3>1
    <3>3. PICK g \in [0 .. x - 1 -> P] : Run(x - 1, g)
      BY <3>1, <3>2 DEF T
    <3> DEFINE h == [k \in 0 .. x |-> IF k = x THEN f[g[x - 1]] ELSE g[k]]
    <3>4. g[x - 1] \in P
      BY <3>1
    <3>5. f[g[x - 1]] \in P
      BY <3>4 DEF Keeps
    <3>6. \A k \in 0 .. x : k = x \/ k \in 0 .. x - 1
      BY <2>3
    <3>7. h \in [0 .. x -> P]
      BY <3>5, <3>6
    <3>8. h[0] = a
      BY <2>3, <2>5, <3>3
    <3>9. ASSUME NEW k \in 1 .. x PROVE h[k] = f[h[k - 1]]
      <4>1. h[k - 1] = g[k - 1] /\ k \in 0 .. x /\ k - 1 \in 0 .. x - 1
        BY <2>3
      <4>2. CASE k = x
        BY <4>1, <4>2
      <4>3. CASE k # x
        <5>1. k \in 1 .. x - 1 /\ h[k] = g[k]
          BY <2>3, <4>1, <4>3
        <5> QED
          BY <3>3, <4>1, <5>1
      <4> QED
        BY <4>2, <4>3
    <3>10. Run(x, h)
      <4> HIDE DEF h
      <4> QED
        BY <3>8, <3>9
    <3> QED
      BY <2>3, <3>7, <3>10
  <2> QED
    BY <2>4, <2>5
<1>2. N \notin T
  BY <1>1
<1>3. PICK g \in [0 .. N -> P] : Run(N, g)
  BY <1>2
<1> QED
  BY <1>3 DEF Runs

LEMMA LoopKeeps ==
  ASSUME NEW P, NEW f, Keeps(f, P), NEW N \in Nat, NEW g,
         g[0] \in P, \A k \in 1 .. N : g[k - 1] \in P => g[k] = f[g[k - 1]]
  PROVE  \A k \in 0 .. N : g[k] \in P
<1> DEFINE T == {k \in 0 .. N : g[k] \notin P}
<1> SUFFICES ASSUME T # {} PROVE FALSE
  OBVIOUS
<1>1. T \in SUBSET Nat
  OBVIOUS
<1> HIDE DEF T
<1>2. PICK x \in T : \A y \in T : x <= y
  BY <1>1, LeastNumber
<1>3. x \in 0 .. N /\ g[x] \notin P
  BY <1>2 DEF T
<1>4. x # 0
  BY <1>3
<1>5. x \in 1 .. N /\ x - 1 \in 0 .. N /\ ~(x <= x - 1)
  BY <1>3, <1>4
<1>6. x - 1 \notin T
  BY <1>2, <1>5
<1>7. g[x - 1] \in P
  BY <1>5, <1>6 DEF T
<1> QED
  BY <1>3, <1>5, <1>7 DEF Keeps

(***************************************************************************)
(* What the bookkeeping of one item changes.                               *)
(***************************************************************************)

StaysTimed(s, o, j) ==
  o.live[j] # Off => s.live[j] # Off /\ (Scheduled(o, j) => Scheduled(s, j))

SameFlags(s, o) == s.held = o.held /\ s.visible = o.visible /\ s.durable = o.durable
SameTimes(s, o) ==
  s.live = o.live /\ s.expiry = o.expiry /\ s.member = o.member /\ s.deferred = o.deferred

LEMMA SameTimesStay ==
  ASSUME NEW s, NEW o, SameTimes(s, o)
  PROVE  /\ \A j : StaysTimed(s, o, j) /\ (Scheduled(s, j) <=> Scheduled(o, j))
         /\ Members(o) => Members(s)
BY DEF SameTimes, StaysTimed, Scheduled, Members

IsTracked(s, o, i) ==
  /\ s \in OwnState /\ s.deferred = o.deferred /\ s.member = o.member /\ SameFlags(s, o)
  /\ s.live[i] # Off /\ Scheduled(s, i)
  /\ \A j \in Item : j # i => StaysTimed(s, o, j)

LEMMA EntryParts ==
  ASSUME NEW o, NEW i \in Item
  PROVE  \A d : \A j \in Item : j # i => <<d, j>> \notin Entry(o, i)
BY DEF Entry

LEMMA TrackFields ==
  ASSUME NEW o \in OwnState, NEW i \in Item, NEW kind \in {"drop", "loot"},
         NEW killer \in Character
  PROVE  IsTracked(Track(o, i, kind, killer), o, i)
<1> DEFINE l == [kind |-> kind, killer |-> killer, age |-> 0, due |-> Lifetime]
           live == [o.live EXCEPT ![i] = l]
           e == (o.expiry \ Entry(o, i)) \cup {<<Lifetime, i>>}
           t == [o EXCEPT !.live = live]
           s == [t EXCEPT !.expiry = e]
<1>1. Track(o, i, kind, killer) = s
  BY DEF Track, OwnState
<1>2. l \in Live /\ l # Off /\ l.due = Lifetime /\ Lifetime \in 0 .. Lifetime
  <2>1. l \in Live /\ l.due = Lifetime /\ Lifetime \in 0 .. Lifetime
    BY Bounds DEF Live
  <2> QED
    BY <2>1, OffIsOff
<1> HIDE DEF l
<1>3. /\ live \in [Item -> Live \cup {Off}] /\ live[i] = l
      /\ \A j \in Item : j # i => live[j] = o.live[j]
  BY <1>2 DEF OwnState
<1>4. /\ e \in SUBSET ((0 .. Lifetime) \X Item) /\ <<Lifetime, i>> \in e
      /\ \A d : \A j \in Item : j # i /\ <<d, j>> \in o.expiry => <<d, j>> \in e
  BY <1>2, EntryParts DEF OwnState
<1> HIDE DEF live, e
<1>5. /\ t \in OwnState /\ t.live = live /\ t.deferred = o.deferred /\ t.member = o.member
      /\ SameFlags(t, o)
  BY <1>3 DEF OwnState, SameFlags
<1> HIDE DEF t
<1>6. /\ s \in OwnState /\ s.live = live /\ s.expiry = e /\ s.deferred = o.deferred
      /\ s.member = o.member /\ SameFlags(s, o)
  BY <1>4, <1>5 DEF OwnState, SameFlags
<1> HIDE DEF s
<1>7. s.live[i] # Off /\ Scheduled(s, i)
  BY <1>2, <1>3, <1>4, <1>6 DEF Scheduled
<1>8. ASSUME NEW j \in Item, j # i PROVE StaysTimed(s, o, j)
  BY <1>3, <1>4, <1>6, <1>8 DEF StaysTimed, Scheduled
<1> QED
  BY <1>1, <1>6, <1>7, <1>8 DEF IsTracked

IsForgotten(s, o, i) ==
  /\ s \in OwnState /\ s.deferred = o.deferred /\ s.member = o.member \ {i}
  /\ SameFlags(s, o) /\ \A j \in Item : j # i => StaysTimed(s, o, j)

LEMMA ForgetFields ==
  ASSUME NEW o \in OwnState, NEW i \in Item
  PROVE  IsForgotten(Forget(o, i), o, i)
<1> DEFINE live == [o.live EXCEPT ![i] = Off]
           e == o.expiry \ Entry(o, i)
           m == o.member \ {i}
           t == [o EXCEPT !.live = live]
           u == [t EXCEPT !.expiry = e]
           s == [u EXCEPT !.member = m]
<1>1. Forget(o, i) = s
  BY DEF Forget, OwnState
<1>2. /\ live \in [Item -> Live \cup {Off}]
      /\ \A j \in Item : j # i => live[j] = o.live[j]
  BY DEF OwnState
<1>3. /\ e \in SUBSET ((0 .. Lifetime) \X Item) /\ m \in SUBSET Item
      /\ \A d : \A j \in Item : j # i /\ <<d, j>> \in o.expiry => <<d, j>> \in e
      /\ \A j : j # i /\ j \in o.member => j \in m
  BY EntryParts DEF OwnState
<1>4. m = o.member \ {i}
  OBVIOUS
<1> HIDE DEF live, e, m
<1>5. /\ t \in OwnState /\ t.live = live /\ t.deferred = o.deferred /\ t.member = o.member
      /\ SameFlags(t, o)
  BY <1>2 DEF OwnState, SameFlags
<1> HIDE DEF t
<1>6. /\ u \in OwnState /\ u.live = live /\ u.expiry = e /\ u.deferred = o.deferred
      /\ SameFlags(u, o)
  BY <1>3, <1>5 DEF OwnState, SameFlags
<1> HIDE DEF u
<1>7. /\ s \in OwnState /\ s.live = live /\ s.expiry = e /\ s.deferred = o.deferred
      /\ s.member = m /\ SameFlags(s, o)
  BY <1>3, <1>6 DEF OwnState, SameFlags
<1> HIDE DEF s
<1>8. ASSUME NEW j \in Item, j # i PROVE StaysTimed(s, o, j)
  BY <1>2, <1>3, <1>7, <1>8 DEF StaysTimed, Scheduled
<1> QED
  BY <1>1, <1>4, <1>7, <1>8 DEF IsForgotten

LEMMA UnholdFields ==
  ASSUME NEW o \in OwnState, NEW i
  PROVE  LET s == Unhold(o, i)
         IN  /\ s \in OwnState /\ SameTimes(s, o) /\ s.held = o.held \ {i}
             /\ s.visible = o.visible /\ s.durable = o.durable
<1> DEFINE h == o.held \ {i}
           s == [o EXCEPT !.held = h]
<1>1. Unhold(o, i) = s
  BY DEF Unhold, OwnState
<1>2. h \in SUBSET Item
  BY DEF OwnState
<1> HIDE DEF h
<1>3. /\ s \in OwnState /\ s.held = h /\ s.visible = o.visible /\ s.durable = o.durable
      /\ s.live = o.live /\ s.expiry = o.expiry /\ s.member = o.member /\ s.deferred = o.deferred
  BY <1>2 DEF OwnState
<1> HIDE DEF s
<1> QED
  BY <1>1, <1>3 DEF SameTimes, h

LEMMA DurableFields ==
  ASSUME NEW o \in OwnState, NEW d \in SUBSET Item
  PROVE  LET s == [o EXCEPT !.durable = d]
         IN  /\ s \in OwnState /\ SameTimes(s, o) /\ s.durable = d
             /\ s.visible = o.visible /\ s.held = o.held
BY DEF OwnState, SameTimes

LEMMA VisibleFields ==
  ASSUME NEW o \in OwnState, NEW v \in SUBSET Item
  PROVE  LET s == [o EXCEPT !.visible = v]
         IN  /\ s \in OwnState /\ SameTimes(s, o) /\ s.visible = v
             /\ s.durable = o.durable /\ s.held = o.held
BY DEF OwnState, SameTimes

LEMMA HeldFields ==
  ASSUME NEW o \in OwnState, NEW h \in SUBSET Item
  PROVE  LET s == [o EXCEPT !.held = h]
         IN  /\ s \in OwnState /\ SameTimes(s, o) /\ s.held = h
             /\ s.durable = o.durable /\ s.visible = o.visible
BY DEF OwnState, SameTimes

(* Picked up or retired: the item is not timed any more.                   *)
IsCleared(s, o, i, v, d) ==
  /\ s \in OwnState /\ s.deferred = o.deferred /\ s.member = o.member \ {i}
  /\ s.held = o.held /\ s.visible = v /\ s.durable = d
  /\ \A j \in Item : j # i => StaysTimed(s, o, j)

LEMMA FlaggedFields ==
  ASSUME NEW o \in OwnState, NEW i \in Item, NEW v \in SUBSET Item, NEW d \in SUBSET Item
  PROVE  /\ IsCleared([Forget(o, i) EXCEPT !.visible = v, !.durable = d], o, i, v, d)
         /\ IsCleared([Forget(o, i) EXCEPT !.durable = d, !.visible = v], o, i, v, d)
<1> DEFINE f == Forget(o, i)
           t == [f EXCEPT !.visible = v]
           s == [t EXCEPT !.durable = d]
<1>1. IsForgotten(f, o, i)
  BY ForgetFields
<1>2. /\ [f EXCEPT !.visible = v, !.durable = d] = s
      /\ [f EXCEPT !.durable = d, !.visible = v] = s
  BY <1>1 DEF IsForgotten, OwnState
<1> HIDE DEF f
<1>3. /\ f \in OwnState /\ f.deferred = o.deferred /\ f.member = o.member \ {i}
      /\ f.held = o.held /\ \A j \in Item : j # i => StaysTimed(f, o, j)
  BY <1>1 DEF IsForgotten, SameFlags
<1>4. t \in OwnState /\ SameTimes(t, f) /\ t.visible = v /\ t.held = f.held
  BY <1>3, VisibleFields
<1> HIDE DEF t
<1>5. /\ s \in OwnState /\ SameTimes(s, t) /\ s.visible = t.visible /\ s.held = t.held
      /\ s.durable = d
  BY <1>4, DurableFields
<1> HIDE DEF s
<1>6. \A j \in Item : j # i => StaysTimed(s, o, j)
  BY <1>3, <1>4, <1>5 DEF SameTimes, StaysTimed, Scheduled
<1> QED
  BY <1>2, <1>3, <1>4, <1>5, <1>6 DEF IsCleared, SameTimes, f

LEMMA NotePickedFields ==
  ASSUME NEW o \in OwnState, NEW i \in Item
  PROVE  IsCleared(NotePicked(o, i), o, i, o.visible \ {i}, o.durable \cup {i})
<1> DEFINE v == o.visible \ {i}
           d == o.durable \cup {i}
<1>1. v \in SUBSET Item /\ d \in SUBSET Item
  BY DEF OwnState
<1>2. Forget(o, i) \in OwnState /\ SameFlags(Forget(o, i), o)
  BY ForgetFields DEF IsForgotten
<1>3. NotePicked(o, i) = [Forget(o, i) EXCEPT !.visible = v, !.durable = d]
  BY <1>2 DEF NotePicked, SameFlags, OwnState
<1> HIDE DEF v, d
<1>4. IsCleared([Forget(o, i) EXCEPT !.visible = v, !.durable = d], o, i, v, d)
  BY <1>1, FlaggedFields
<1> QED
  BY <1>3, <1>4 DEF v, d

LEMMA RetiredFields ==
  ASSUME NEW o \in OwnState, NEW i \in Item
  PROVE  LET f == Forget(o, i)
         IN  IsCleared([f EXCEPT !.durable = @ \ {i}, !.visible = @ \ {i}], o, i,
                       o.visible \ {i}, o.durable \ {i})
<1> DEFINE v == o.visible \ {i}
           d == o.durable \ {i}
           f == Forget(o, i)
<1>1. v \in SUBSET Item /\ d \in SUBSET Item
  BY DEF OwnState
<1>2. f \in OwnState /\ SameFlags(f, o)
  BY ForgetFields DEF IsForgotten
<1>3. [f EXCEPT !.durable = @ \ {i}, !.visible = @ \ {i}] = [f EXCEPT !.durable = d, !.visible = v]
  BY <1>2 DEF SameFlags, OwnState
<1> HIDE DEF v, d
<1>4. IsCleared([f EXCEPT !.durable = d, !.visible = v], o, i, v, d)
  BY <1>1, FlaggedFields
<1> QED
  BY <1>3, <1>4 DEF v, d

IsRestored(s, o, i) ==
  /\ s \in OwnState /\ s.deferred = o.deferred /\ s.member = o.member /\ SameFlags(s, o)
  /\ \A j \in Item : j # i => StaysTimed(s, o, j)
  /\ world[i] = "drop" /\ o.live[i] # Off => s.live[i] # Off /\ Scheduled(s, i)

LEMMA RestoreFields ==
  ASSUME NEW o \in OwnState, NEW i \in Item
  PROVE  IsRestored(RestoreUnretired(o, i), o, i)
<1>1. CASE world[i] # "drop"
  <2> DEFINE live == [o.live EXCEPT ![i] = Off]
             s == [o EXCEPT !.live = live]
  <2>1. RestoreUnretired(o, i) = s
    BY <1>1 DEF RestoreUnretired, OwnState
  <2>2. /\ live \in [Item -> Live \cup {Off}]
        /\ \A j \in Item : j # i => live[j] = o.live[j]
    BY DEF OwnState
  <2> HIDE DEF live
  <2>3. /\ s \in OwnState /\ s.live = live /\ s.expiry = o.expiry /\ s.deferred = o.deferred
        /\ s.member = o.member /\ SameFlags(s, o)
    BY <2>2 DEF OwnState, SameFlags
  <2> HIDE DEF s
  <2>4. ASSUME NEW j \in Item, j # i PROVE StaysTimed(s, o, j)
    BY <2>2, <2>3, <2>4 DEF StaysTimed, Scheduled
  <2> QED
    BY <1>1, <2>1, <2>3, <2>4 DEF IsRestored
<1>2. CASE world[i] = "drop" /\ o.live[i] = Off
  <2>1. RestoreUnretired(o, i) = o
    BY <1>2 DEF RestoreUnretired
  <2> QED
    BY <1>2, <2>1 DEF IsRestored, StaysTimed, SameFlags
<1>3. CASE world[i] = "drop" /\ o.live[i] # Off
  <2> DEFINE l == [o.live[i] EXCEPT !.due = 1]
             live == [o.live EXCEPT ![i] = l]
             e == o.expiry \cup {<<1, i>>}
             t == [o EXCEPT !.live = live]
             s == [t EXCEPT !.expiry = e]
  <2>1. RestoreUnretired(o, i) = s
    BY <1>3 DEF RestoreUnretired, OwnState
  <2>2. l \in Live /\ l # Off /\ l.due = 1 /\ 1 \in 0 .. Lifetime
    <3>1. o.live[i] \in Live
      BY <1>3 DEF OwnState
    <3>2. 1 \in 0 .. Lifetime
      BY Bounds
    <3>3. l \in Live /\ l.due = 1
      BY <3>1, <3>2 DEF Live
    <3> QED
      BY <3>2, <3>3, OffIsOff
  <2> HIDE DEF l
  <2>3. /\ live \in [Item -> Live \cup {Off}] /\ live[i] = l
        /\ \A j \in Item : j # i => live[j] = o.live[j]
    BY <2>2 DEF OwnState
  <2>4. /\ e \in SUBSET ((0 .. Lifetime) \X Item) /\ <<1, i>> \in e /\ o.expiry \subseteq e
    BY <2>2 DEF OwnState
  <2> HIDE DEF live, e
  <2>5. /\ t \in OwnState /\ t.live = live /\ t.deferred = o.deferred /\ t.member = o.member
        /\ SameFlags(t, o)
    BY <2>3 DEF OwnState, SameFlags
  <2> HIDE DEF t
  <2>6. /\ s \in OwnState /\ s.live = live /\ s.expiry = e /\ s.deferred = o.deferred
        /\ s.member = o.member /\ SameFlags(s, o)
    BY <2>4, <2>5 DEF OwnState, SameFlags
  <2> HIDE DEF s
  <2>7. s.live[i] # Off /\ Scheduled(s, i)
    BY <2>2, <2>3, <2>4, <2>6 DEF Scheduled
  <2>8. ASSUME NEW j \in Item, j # i PROVE StaysTimed(s, o, j)
    BY <2>3, <2>4, <2>6, <2>8 DEF StaysTimed, Scheduled
  <2> QED
    BY <2>1, <2>6, <2>7, <2>8 DEF IsRestored
<1> QED
  BY <1>1, <1>2, <1>3

IsDeferred(s, o, i) ==
  /\ s \in OwnState /\ SameFlags(s, o) /\ s.live = o.live /\ i \in s.member
  /\ \A j \in Item : Scheduled(o, j) => Scheduled(s, j)
  /\ Members(o) => Members(s)

LEMMA DeferFields ==
  ASSUME NEW o \in OwnState, NEW i \in Item
  PROVE  IsDeferred(Defer(o, i), o, i)
<1>1. CASE i \in o.member
  BY <1>1 DEF Defer, IsDeferred, SameFlags
<1>2. CASE i \notin o.member
  <2> DEFINE m == o.member \cup {i}
             d == Append(o.deferred, i)
             t == [o EXCEPT !.member = m]
             s == [t EXCEPT !.deferred = d]
  <2>1. Defer(o, i) = s
    BY <1>2 DEF Defer, OwnState
  <2>2. o.deferred \in Seq(Item)
    BY DEF OwnState
  <2>3. d \in Seq(Item) /\ Range(d) = Range(o.deferred) \cup {i}
    BY <2>2, AppendParts, AppendRange
  <2>4. m \in SUBSET Item /\ o.member \subseteq m /\ i \in m /\ m \subseteq o.member \cup {i}
    BY DEF OwnState
  <2> HIDE DEF m, d
  <2>5. /\ t \in OwnState /\ SameFlags(t, o) /\ t.live = o.live /\ t.expiry = o.expiry
        /\ t.member = m
    BY <2>4 DEF OwnState, SameFlags
  <2> HIDE DEF t
  <2>6. /\ s \in OwnState /\ SameFlags(s, o) /\ s.live = o.live /\ s.expiry = o.expiry
        /\ s.member = m /\ s.deferred = d
    BY <2>3, <2>5 DEF OwnState, SameFlags
  <2> HIDE DEF s
  <2>7. \A j \in Item : Scheduled(o, j) => Scheduled(s, j)
    BY <2>4, <2>6 DEF Scheduled
  <2>8. Members(o) => Members(s)
    BY <2>3, <2>4, <2>6 DEF Members
  <2> QED
    BY <2>1, <2>4, <2>6, <2>7, <2>8 DEF IsDeferred
<1> QED
  BY <1>1, <1>2

(***************************************************************************)
(* The wake: what a turn of the loop keeps, begun with the bookkeeping b.  *)
(***************************************************************************)

(* All but the timing of the items that a turn has taken out.              *)
AwokenBut(o, b, w, cmd, out) ==
  /\ o \in OwnState /\ Members(o)
  /\ b.held \subseteq o.held /\ \A i \in o.held : i \notin b.held => w[i] = "drop"
  /\ o.durable = b.durable /\ o.visible \subseteq b.visible
  /\ \A i \in b.visible : w[i] = "drop" \/ i \in b.held => i \in o.visible
  /\ \A i \in Item : w[i] = "drop" =>
       /\ o.live[i] # Off
       /\ i \notin out => Scheduled(o, i) \/ cmd[i] # Idle \/ i \in o.held \ b.held

Awoken(o, b, w, cmd) == AwokenBut(o, b, w, cmd, {})

LEMMA AwokenIsTimed ==
  ASSUME NEW o, NEW b, NEW w, NEW cmd, NEW x, AwokenBut(o, b, w, cmd, {x}),
         x \in Item /\ w[x] = "drop" => Scheduled(o, x) \/ cmd[x] # Idle \/ x \in o.held \ b.held
  PROVE  Awoken(o, b, w, cmd)
BY DEF Awoken, AwokenBut

LEMMA ConsiderKeeps ==
  ASSUME NEW o, NEW i \in Item, NEW b, NEW cmd, AwokenBut(o, b, world, cmd, {i})
  PROVE  Awoken(Consider(o, i), b, world, cmd)
<1>1. o \in OwnState
  BY DEF AwokenBut
<1>2. CASE i \in o.held
  <2> DEFINE s == Defer(o, i)
  <2>1. Consider(o, i) = s
    BY <1>2 DEF Consider
  <2>2. IsDeferred(s, o, i)
    BY <1>1, DeferFields
  <2> HIDE DEF s
  <2>3. AwokenBut(s, b, world, cmd, {i})
    BY <2>2 DEF IsDeferred, AwokenBut, SameFlags
  <2>4. Scheduled(s, i)
    BY <2>2 DEF IsDeferred, Scheduled
  <2> QED
    BY <2>1, <2>3, <2>4, AwokenIsTimed
<1>3. CASE i \notin o.held /\ world[i] # "drop"
  <2> DEFINE live == [o.live EXCEPT ![i] = Off]
             v == o.visible \ {i}
             t == [o EXCEPT !.live = live]
             s == [t EXCEPT !.visible = v]
  <2>1. Consider(o, i) = s
    BY <1>3 DEF Consider, OwnState
  <2>2. /\ live \in [Item -> Live \cup {Off}] /\ v \in SUBSET Item
        /\ \A j \in Item : j # i => live[j] = o.live[j]
    BY <1>1 DEF OwnState
  <2>3. v \subseteq o.visible /\ \A j \in o.visible : j # i => j \in v
    OBVIOUS
  <2> HIDE DEF live, v
  <2>4. /\ t \in OwnState /\ t.live = live /\ t.expiry = o.expiry /\ t.deferred = o.deferred
        /\ t.member = o.member /\ t.held = o.held /\ t.durable = o.durable
    BY <1>1, <2>2 DEF OwnState
  <2> HIDE DEF t
  <2>5. /\ s \in OwnState /\ s.live = live /\ s.expiry = o.expiry /\ s.deferred = o.deferred
        /\ s.member = o.member /\ s.held = o.held /\ s.durable = o.durable /\ s.visible = v
    BY <2>2, <2>4 DEF OwnState
  <2> HIDE DEF s
  <2>6. AwokenBut(s, b, world, cmd, {i})
    <3>1. Members(s) /\ b.held \subseteq s.held
      BY <2>5 DEF AwokenBut, Members
    <3>2. \A j \in s.held : j \notin b.held => world[j] = "drop"
      BY <2>5 DEF AwokenBut
    <3>3. s.durable = b.durable /\ s.visible \subseteq b.visible
      BY <2>3, <2>5 DEF AwokenBut
    <3>4. \A j \in b.visible : world[j] = "drop" \/ j \in b.held => j \in s.visible
      <4>1. i \notin b.held
        BY <1>3 DEF AwokenBut
      <4> QED
        BY <1>3, <2>3, <2>5, <4>1 DEF AwokenBut
    <3>5. ASSUME NEW j \in Item, world[j] = "drop"
          PROVE  /\ s.live[j] # Off
                 /\ j \notin {i} => Scheduled(s, j) \/ cmd[j] # Idle \/ j \in s.held \ b.held
      <4>1. j # i
        BY <1>3, <3>5
      <4>2. s.live[j] = o.live[j] /\ (Scheduled(s, j) <=> Scheduled(o, j))
        BY <2>2, <2>5, <4>1 DEF Scheduled
      <4> QED
        BY <2>5, <3>5, <4>1, <4>2 DEF AwokenBut
    <3> QED
      BY <2>5, <3>1, <3>2, <3>3, <3>4, <3>5 DEF AwokenBut
  <2> QED
    BY <1>3, <2>1, <2>6, AwokenIsTimed
<1>4. CASE i \notin o.held /\ world[i] = "drop"
  <2> DEFINE h == o.held \cup {i}
             s == [o EXCEPT !.held = h]
  <2>1. Consider(o, i) = s
    BY <1>4 DEF Consider, OwnState
  <2>2. h \in SUBSET Item
    BY <1>1 DEF OwnState
  <2>3. /\ s \in OwnState /\ SameTimes(s, o) /\ s.held = h
        /\ s.durable = o.durable /\ s.visible = o.visible
    BY <1>1, <2>2, HeldFields
  <2> HIDE DEF s
  <2>4. AwokenBut(s, b, world, cmd, {i})
    <3>1. Members(s) /\ \A j : Scheduled(s, j) <=> Scheduled(o, j)
      BY <2>3, SameTimesStay DEF AwokenBut
    <3>2. s.live = o.live
      BY <2>3 DEF SameTimes
    <3>3. b.held \subseteq s.held /\ \A j \in s.held : j \notin b.held => world[j] = "drop"
      BY <1>4, <2>3 DEF AwokenBut
    <3>4. \A j : j \in o.held \ b.held => j \in s.held \ b.held
      BY <2>3
    <3> QED
      BY <2>3, <3>1, <3>2, <3>3, <3>4 DEF AwokenBut
  <2>5. i \in s.held \ b.held
    BY <1>4, <2>3 DEF AwokenBut
  <2> QED
    BY <2>1, <2>4, <2>5, AwokenIsTimed
<1> QED
  BY <1>2, <1>3, <1>4

LEMMA InspectKeeps ==
  ASSUME NEW o, NEW b, NEW cmd, Awoken(o, b, world, cmd)
  PROVE  Awoken(Inspect(o), b, world, cmd)
<1>1. o \in OwnState
  BY DEF Awoken, AwokenBut
<1>2. CASE o.deferred # <<>>
  <2> DEFINE i == Head(o.deferred)
             d == Tail(o.deferred)
             m == o.member \ {i}
             t == [o EXCEPT !.deferred = d]
             s == [t EXCEPT !.member = m]
  <2>1. Inspect(o) = IF i \in o.member THEN Consider(s, i) ELSE s
    BY <1>1, <1>2 DEF Inspect, OwnState
  <2>2. o.deferred \in Seq(Item)
    BY <1>1 DEF OwnState
  <2>3. d \in Seq(Item) /\ i \in Item /\ Range(o.deferred) = {i} \cup Range(d)
    BY <1>2, <2>2, TailParts, TailRange
  <2>4. m \in SUBSET Item /\ m = o.member \ {i}
    BY <1>1 DEF OwnState
  <2> HIDE DEF i, d, m
  <2>5. /\ t \in OwnState /\ t.live = o.live /\ t.expiry = o.expiry /\ SameFlags(t, o)
        /\ t.deferred = d
    BY <1>1, <2>3 DEF OwnState, SameFlags
  <2> HIDE DEF t
  <2>6. /\ s \in OwnState /\ s.live = o.live /\ s.expiry = o.expiry /\ SameFlags(s, o)
        /\ s.deferred = d /\ s.member = m
    BY <2>4, <2>5 DEF OwnState, SameFlags
  <2> HIDE DEF s
  <2>7. Members(s)
    BY <2>3, <2>4, <2>6 DEF Awoken, AwokenBut, Members
  <2>8. \A j : j # i \/ i \notin o.member => (Scheduled(o, j) => Scheduled(s, j))
    BY <2>4, <2>6 DEF Scheduled
  <2>9. CASE i \in o.member
    <3>1. AwokenBut(s, b, world, cmd, {i})
      BY <2>6, <2>7, <2>8 DEF Awoken, AwokenBut, SameFlags
    <3>2. Awoken(Consider(s, i), b, world, cmd)
      BY <2>3, <3>1, ConsiderKeeps
    <3> QED
      BY <2>1, <2>9, <3>2
  <2>10. CASE i \notin o.member
    <3>1. Awoken(s, b, world, cmd)
      BY <2>6, <2>7, <2>8, <2>10 DEF Awoken, AwokenBut, SameFlags
    <3> QED
      BY <2>1, <2>10, <3>1
  <2> QED
    BY <2>9, <2>10
<1>3. CASE o.deferred = <<>> /\ Due(o) # {}
  <2> DEFINE i == First(Due(o))
             e == o.expiry \ {<<0, i>>}
             s == [o EXCEPT !.expiry = e]
  <2>1. Inspect(o) = Consider(s, i)
    BY <1>1, <1>3 DEF Inspect, OwnState
  <2>2. i \in Item
    <3>1. Due(o) \in SUBSET Nat
      BY ItemIsNumber DEF Due
    <3>2. \E x \in Due(o) : \A y \in Due(o) : x <= y
      BY <1>3, <3>1, LeastNumber
    <3> QED
      BY <3>2 DEF First, Due
  <2> HIDE DEF i
  <2>3. e \in SUBSET ((0 .. Lifetime) \X Item)
    BY <1>1 DEF OwnState
  <2>4. \A d : \A j \in Item : j # i /\ <<d, j>> \in o.expiry => <<d, j>> \in e
    OBVIOUS
  <2> HIDE DEF e
  <2>5. /\ s \in OwnState /\ s.live = o.live /\ s.member = o.member /\ SameFlags(s, o)
        /\ s.deferred = o.deferred /\ s.expiry = e
    BY <1>1, <2>3 DEF OwnState, SameFlags
  <2> HIDE DEF s
  <2>6. \A j \in Item : j # i => (Scheduled(o, j) => Scheduled(s, j))
    BY <2>4, <2>5 DEF Scheduled
  <2>7. AwokenBut(s, b, world, cmd, {i})
    BY <2>5, <2>6 DEF Awoken, AwokenBut, SameFlags, Members
  <2> QED
    BY <2>1, <2>2, <2>7, ConsiderKeeps
<1>4. CASE o.deferred = <<>> /\ Due(o) = {}
  <2>1. Inspect(o) = o
    BY <1>4 DEF Inspect
  <2> QED
    BY <2>1
<1> QED
  BY <1>2, <1>3, <1>4

LEMMA PromotedIsAwoken ==
  ASSUME own \in OwnState, NEW cmd, Awoken(own, own, world, cmd)
  PROVE  Awoken(Promoted, own, world, cmd)
<1> DEFINE P == {o \in OwnState : Awoken(o, own, world, cmd)}
           f == [o \in OwnState |-> Inspect(o)]
           Turns(g) == g = [n \in 0 .. WakeBatch |-> IF n = 0 THEN own ELSE Inspect(g[n - 1])]
           turn == CHOOSE g : Turns(g)
<1>1. WakeBatch \in Nat
  BY Bounds
<1>2. ASSUME NEW o \in P PROVE f[o] \in P /\ f[o] = Inspect(o)
  <2>1. o \in OwnState /\ Awoken(o, own, world, cmd)
    OBVIOUS
  <2>2. Awoken(Inspect(o), own, world, cmd)
    BY <2>1, InspectKeeps
  <2>3. Inspect(o) \in OwnState
    BY <2>2 DEF Awoken, AwokenBut
  <2> QED
    BY <2>1, <2>2, <2>3
<1>3. own \in P
  OBVIOUS
<1> HIDE DEF P, f
<1>11. Keeps(f, P)
  BY <1>2 DEF Keeps
<1>4. PICK g : Runs(g, f, P, own, WakeBatch)
  BY <1>1, <1>11, <1>3, LoopRuns
<1>5. Turns(g)
  <2>1. ASSUME NEW n \in 0 .. WakeBatch
        PROVE  g[n] = IF n = 0 THEN own ELSE Inspect(g[n - 1])
    <3>1. CASE n = 0
      BY <1>4, <3>1 DEF Runs
    <3>2. CASE n # 0
      <4>1. n \in 1 .. WakeBatch /\ n - 1 \in 0 .. WakeBatch
        BY <1>1, <3>2
      <4>2. g[n] = f[g[n - 1]] /\ g[n - 1] \in P
        BY <1>4, <4>1 DEF Runs
      <4> QED
        BY <1>2, <3>2, <4>2
    <3> QED
      BY <3>1, <3>2
  <2> QED
    BY <1>4, <2>1 DEF Runs
<1>6. Turns(turn)
  <2> HIDE DEF Turns
  <2> QED
    BY <1>5
<1>7. Promoted = turn[WakeBatch]
  BY DEF Promoted
<1> HIDE DEF turn
<1>8. turn[0] = own /\ \A n \in 1 .. WakeBatch : turn[n] = Inspect(turn[n - 1])
  BY <1>1, <1>6
<1>9. \A n \in 0 .. WakeBatch : turn[n] \in P
  <2>1. \A n \in 1 .. WakeBatch : turn[n - 1] \in P => turn[n] = f[turn[n - 1]]
    BY <1>2, <1>8
  <2> QED
    BY <1>1, <1>11, <1>3, <1>8, <2>1, LoopKeeps
<1>10. turn[WakeBatch] \in P
  BY <1>1, <1>9
<1> QED
  BY <1>7, <1>10 DEF P

(***************************************************************************)
(* An answer of the database is installed, and planned drops are shown.    *)
(***************************************************************************)

InstallState == [got : Seq(Item), pool : Seq(Item)]

(* From the pool p and the answer g.                                       *)
IsInstalled(s, p, g) ==
  /\ s \in InstallState /\ Range(s.got) \subseteq Range(g) /\ Distinct(s.pool)
  /\ Range(s.pool) \subseteq Range(p) \cup Range(g)

LEMMA InstallKeeps ==
  ASSUME NEW s, NEW p, NEW g, IsInstalled(s, p, g)
  PROVE  IsInstalled(Install(s), p, g)
<1>1. s.got \in Seq(Item) /\ s.pool \in Seq(Item)
  BY DEF IsInstalled, InstallState
<1>2. CASE s.got = <<>>
  <2>1. Install(s) = s
    BY <1>2 DEF Install
  <2> QED
    BY <2>1
<1>3. CASE s.got # <<>>
  <2> DEFINE i == Head(s.got)
             r == Tail(s.got)
             q == IF i \in own.visible \cup own.durable \cup Range(s.pool) THEN s.pool
                  ELSE Append(s.pool, i)
  <2>1. Install(s) = [got |-> r, pool |-> q]
    BY <1>3 DEF Install
  <2>2. r \in Seq(Item) /\ i \in Item /\ Range(s.got) = {i} \cup Range(r)
    BY <1>1, <1>3, TailParts, TailRange
  <2> HIDE DEF i, r
  <2>3. q \in Seq(Item) /\ Range(q) \subseteq Range(s.pool) \cup {i} /\ Distinct(q)
    <3>1. CASE q = s.pool
      BY <1>1, <3>1 DEF IsInstalled
    <3>2. CASE q = Append(s.pool, i) /\ i \notin Range(s.pool)
      <4>1. Append(s.pool, i) \in Seq(Item) /\ Range(Append(s.pool, i)) = Range(s.pool) \cup {i}
        BY <1>1, <2>2, AppendParts, AppendRange
      <4>2. Distinct(Append(s.pool, i))
        BY <1>1, <2>2, <3>2, AppendRange DEF IsInstalled
      <4> QED
        BY <3>2, <4>1, <4>2
    <3>3. q = s.pool \/ (q = Append(s.pool, i) /\ i \notin Range(s.pool))
      OBVIOUS
    <3> QED
      BY <3>1, <3>2, <3>3
  <2> HIDE DEF q
  <2> DEFINE t == [got |-> r, pool |-> q]
  <2>4. t \in InstallState /\ t.got = r /\ t.pool = q
    BY <2>2, <2>3 DEF InstallState
  <2> HIDE DEF t
  <2>5. IsInstalled(t, p, g)
    BY <2>2, <2>3, <2>4 DEF IsInstalled
  <2> QED
    BY <2>1, <2>5 DEF t
<1> QED
  BY <1>2, <1>3

LEMMA InstalledParts ==
  ASSUME pool \in Seq(Item), replenish.got \in Seq(Item), Distinct(pool)
  PROVE  /\ Installed \in Seq(Item) /\ Distinct(Installed)
         /\ Range(Installed) \subseteq Range(pool) \cup Range(replenish.got)
<1> DEFINE P == {s \in InstallState : IsInstalled(s, pool, replenish.got)}
           f == [s \in InstallState |-> Install(s)]
           N == Len(replenish.got)
           a == [got |-> replenish.got, pool |-> pool]
           Turns(g) == g = [n \in 0 .. N |-> IF n = 0 THEN a ELSE Install(g[n - 1])]
           turn == CHOOSE g : Turns(g)
<1>1. N \in Nat
  OBVIOUS
<1>2. ASSUME NEW s \in P PROVE f[s] \in P /\ f[s] = Install(s)
  <2>1. s \in InstallState /\ IsInstalled(s, pool, replenish.got)
    OBVIOUS
  <2>2. IsInstalled(Install(s), pool, replenish.got)
    BY <2>1, InstallKeeps
  <2>3. Install(s) \in InstallState
    BY <2>2 DEF IsInstalled
  <2> QED
    BY <2>1, <2>2, <2>3
<1>3. a \in P
  <2>1. a \in InstallState /\ a.got = replenish.got /\ a.pool = pool
    BY DEF InstallState
  <2> HIDE DEF a
  <2> QED
    BY <2>1 DEF IsInstalled
<1>4. Installed = turn[N].pool
  BY DEF Installed
<1> HIDE DEF P, f, a, N
<1>5. Keeps(f, P)
  BY <1>2 DEF Keeps
<1>6. PICK g : Runs(g, f, P, a, N)
  BY <1>1, <1>5, <1>3, LoopRuns
<1>7. Turns(g)
  <2>1. ASSUME NEW n \in 0 .. N
        PROVE  g[n] = IF n = 0 THEN a ELSE Install(g[n - 1])
    <3>1. CASE n = 0
      BY <1>6, <3>1 DEF Runs
    <3>2. CASE n # 0
      <4>1. n \in 1 .. N /\ n - 1 \in 0 .. N
        BY <1>1, <3>2
      <4>2. g[n] = f[g[n - 1]] /\ g[n - 1] \in P
        BY <1>6, <4>1 DEF Runs
      <4> QED
        BY <1>2, <3>2, <4>2
    <3> QED
      BY <3>1, <3>2
  <2> QED
    BY <1>6, <2>1 DEF Runs
<1>8. Turns(turn)
  <2> HIDE DEF Turns
  <2> QED
    BY <1>7
<1> HIDE DEF turn
<1>9. turn[0] = a /\ \A n \in 1 .. N : turn[n] = Install(turn[n - 1])
  BY <1>1, <1>8
<1>10. \A n \in 0 .. N : turn[n] \in P
  <2>1. \A n \in 1 .. N : turn[n - 1] \in P => turn[n] = f[turn[n - 1]]
    BY <1>2, <1>9
  <2> QED
    BY <1>1, <1>5, <1>3, <1>9, <2>1, LoopKeeps
<1>11. turn[N] \in P
  BY <1>1, <1>10
<1> QED
  BY <1>4, <1>11 DEF P, IsInstalled, InstallState

FlushState == [pool : Seq(Item), loot : Seq(Plan), own : OwnState, new : SUBSET Item]

(* From the bookkeeping b, the pool p and n plans.                         *)
IsFlushed(s, b, p, n) ==
  /\ s \in FlushState /\ Len(s.loot) <= n /\ Distinct(s.pool)
  /\ Range(s.pool) \subseteq Range(p) /\ s.new \subseteq Range(p)
  /\ Range(s.pool) \cap s.new = {}
  /\ s.own.held = b.held /\ s.own.durable = b.durable /\ s.own.visible = b.visible \cup s.new
  /\ Members(s.own)
  /\ \A i \in s.new : s.own.live[i] # Off /\ Scheduled(s.own, i)
  /\ \A i \in Item : i \notin s.new => StaysTimed(s.own, b, i)

LEMMA ManifestKeeps ==
  ASSUME NEW s, NEW b, NEW p, NEW n \in Nat, IsFlushed(s, b, p, n)
  PROVE  IsFlushed(Manifest(s), b, p, n)
<1>1. /\ s.pool \in Seq(Item) /\ s.loot \in Seq(Plan) /\ s.own \in OwnState
      /\ s.new \in SUBSET Item
  BY DEF IsFlushed, FlushState
<1>2. CASE s.pool = <<>> \/ s.loot = <<>>
  <2>1. Manifest(s) = s
    BY <1>2 DEF Manifest
  <2> QED
    BY <2>1
<1>3. CASE s.pool # <<>> /\ s.loot # <<>>
  <2> DEFINE i == Head(s.pool)
             q == Tail(s.pool)
             plan == Head(s.loot)
             l == IF plan.left = 1 THEN Tail(s.loot)
                  ELSE <<[plan EXCEPT !.left = plan.left - 1]>> \o Tail(s.loot)
             t == Track(s.own, i, "loot", plan.killer)
             v == t.visible \cup {i}
             u == [t EXCEPT !.visible = v]
             m == s.new \cup {i}
             r == [pool |-> q, loot |-> l, own |-> u, new |-> m]
  <2>1. plan \in Plan /\ l \in Seq(Plan) /\ Len(l) <= Len(s.loot)
    <3>1. plan \in Plan /\ Tail(s.loot) \in Seq(Plan)
          /\ Len(Tail(s.loot)) = Len(s.loot) - 1 /\ Len(s.loot) \in Nat \ {0}
      BY <1>1, <1>3, TailParts
    <3> DEFINE x == [plan EXCEPT !.left = plan.left - 1]
               d == Tail(s.loot)
    <3>2. CASE plan.left = 1
      BY <3>1, <3>2
    <3>3. CASE plan.left # 1
      <4> HIDE DEF plan
      <4>1. x \in Plan
        <5>1. \A k \in 1 .. MaxRoll : k # 1 => k - 1 \in 1 .. MaxRoll
          BY Bounds
        <5>2. plan.left - 1 \in 1 .. MaxRoll
          BY <3>1, <3>3, <5>1 DEF Plan
        <5> QED
          BY <3>1, <5>2 DEF Plan
      <4> HIDE DEF x, d
      <4>2. <<x>> \o d \in Seq(Plan) /\ Len(<<x>> \o d) = 1 + Len(d)
        BY <3>1, <4>1 DEF d
      <4>3. l = <<x>> \o d
        BY <3>3 DEF x, d
      <4> HIDE DEF l
      <4> QED
        BY <3>1, <4>2, <4>3 DEF d
    <3> QED
      BY <3>2, <3>3
  <2>2. Manifest(s) = r
    <3>1. [t EXCEPT !.visible = @ \cup {i}] = u
      OBVIOUS
    <3>2. [plan EXCEPT !.left = @ - 1] = [plan EXCEPT !.left = plan.left - 1]
      BY <2>1 DEF Plan
    <3> QED
      BY <1>3, <3>1, <3>2 DEF Manifest
  <2>3. /\ q \in Seq(Item) /\ i \in Item /\ Range(s.pool) = {i} \cup Range(q)
        /\ Distinct(q) /\ i \notin Range(q)
    <3>1. q \in Seq(Item) /\ i \in Item
      BY <1>1, <1>3, TailParts
    <3> QED
      BY <1>1, <1>3, <3>1, TailRange DEF IsFlushed
  <2>4. IsTracked(t, s.own, i)
    <3>1. plan.killer \in Character
      BY <2>1 DEF Plan
    <3> HIDE DEF i, plan
    <3> QED
      BY <1>1, <2>3, <3>1, TrackFields
  <2> HIDE DEF i, q, plan, l, t
  <2>5. t \in OwnState /\ t.visible = s.own.visible /\ v \in SUBSET Item /\ v = s.own.visible \cup {i}
    BY <1>1, <2>3, <2>4 DEF IsTracked, SameFlags, OwnState
  <2> HIDE DEF v
  <2>6. /\ u \in OwnState /\ SameTimes(u, t) /\ u.visible = v /\ u.durable = t.durable
        /\ u.held = t.held
    BY <2>5, VisibleFields
  <2> HIDE DEF u
  <2>7. /\ Members(u) /\ u.live[i] # Off /\ Scheduled(u, i)
        /\ \A j \in Item : j # i => StaysTimed(u, s.own, j)
    <3>1. Members(t)
      BY <2>4 DEF IsTracked, IsFlushed, Members
    <3>2. Members(u) /\ \A j : Scheduled(u, j) <=> Scheduled(t, j)
      BY <2>6, <3>1, SameTimesStay
    <3>3. u.live = t.live
      BY <2>6 DEF SameTimes
    <3> QED
      BY <2>4, <3>2, <3>3 DEF IsTracked, StaysTimed
  <2>8. m \in SUBSET Item /\ i \in m /\ s.new \subseteq m /\ m \subseteq s.new \cup {i}
        /\ m = s.new \cup {i}
    BY <1>1, <2>3
  <2> HIDE DEF m
  <2>9. /\ r \in FlushState /\ r.pool = q /\ r.loot = l /\ r.own = u /\ r.new = m
    BY <2>1, <2>3, <2>6, <2>8 DEF FlushState
  <2> HIDE DEF r
  <2>10. IsFlushed(r, b, p, n)
    <3>1. Len(r.loot) <= n
      <4>1. Len(l) \in Nat /\ Len(s.loot) \in Nat /\ Len(s.loot) <= n
        BY <1>1, <2>1 DEF IsFlushed
      <4> QED
        BY <2>1, <2>9, <4>1
    <3>2. /\ Range(r.pool) \subseteq Range(p) /\ r.new \subseteq Range(p)
          /\ Range(r.pool) \cap r.new = {} /\ Distinct(r.pool)
      BY <2>3, <2>8, <2>9 DEF IsFlushed
    <3>3. /\ r.own.held = b.held /\ r.own.durable = b.durable
          /\ r.own.visible = b.visible \cup r.new
      BY <2>4, <2>5, <2>6, <2>8, <2>9 DEF IsFlushed, IsTracked, SameFlags
    <3>4. ASSUME NEW j \in r.new PROVE r.own.live[j] # Off /\ Scheduled(r.own, j)
      <4>1. CASE j = i
        BY <2>7, <2>9, <4>1
      <4>2. CASE j # i
        <5>1. j \in s.new /\ j \in Item
          BY <2>8, <2>9, <4>2
        <5> QED
          BY <2>7, <2>9, <4>2, <5>1 DEF IsFlushed, StaysTimed
      <4> QED
        BY <4>1, <4>2
    <3>5. ASSUME NEW j \in Item, j \notin r.new PROVE StaysTimed(r.own, b, j)
      <4>1. j # i /\ j \notin s.new
        BY <2>8, <2>9, <3>5
      <4> QED
        BY <2>7, <2>9, <4>1 DEF IsFlushed, StaysTimed
    <3> QED
      BY <2>7, <2>9, <3>1, <3>2, <3>3, <3>4, <3>5 DEF IsFlushed
  <2> QED
    BY <2>2, <2>10
<1> QED
  BY <1>2, <1>3

LEMMA FlushedParts ==
  ASSUME own \in OwnState, Members(own), pool \in Seq(Item), Distinct(pool),
         NEW plans \in Seq(Plan)
  PROVE  IsFlushed(Flushed(plans), own, pool, Len(plans))
<1> DEFINE P == {s \in FlushState : IsFlushed(s, own, pool, Len(plans))}
           f == [s \in FlushState |-> Manifest(s)]
           N == Len(pool)
           a == [pool |-> pool, loot |-> plans, own |-> own, new |-> {}]
           Turns(g) == g = [n \in 0 .. N |-> IF n = 0 THEN a ELSE Manifest(g[n - 1])]
           turn == CHOOSE g : Turns(g)
<1>1. N \in Nat /\ Len(plans) \in Nat
  OBVIOUS
<1>2. ASSUME NEW s \in P PROVE f[s] \in P /\ f[s] = Manifest(s)
  <2>1. s \in FlushState /\ IsFlushed(s, own, pool, Len(plans))
    OBVIOUS
  <2>2. IsFlushed(Manifest(s), own, pool, Len(plans))
    BY <1>1, <2>1, ManifestKeeps
  <2>3. Manifest(s) \in FlushState
    BY <2>2 DEF IsFlushed
  <2> QED
    BY <2>1, <2>2, <2>3
<1>3. a \in P
  <2>1. a \in FlushState /\ a.pool = pool /\ a.loot = plans /\ a.own = own /\ a.new = {}
    BY DEF FlushState
  <2> HIDE DEF a
  <2> QED
    BY <1>1, <2>1 DEF IsFlushed, StaysTimed
<1>4. Flushed(plans) = turn[N]
  BY DEF Flushed
<1> HIDE DEF P, f, a, N
<1>5. Keeps(f, P)
  BY <1>2 DEF Keeps
<1>6. PICK g : Runs(g, f, P, a, N)
  BY <1>1, <1>5, <1>3, LoopRuns
<1>7. Turns(g)
  <2>1. ASSUME NEW n \in 0 .. N
        PROVE  g[n] = IF n = 0 THEN a ELSE Manifest(g[n - 1])
    <3>1. CASE n = 0
      BY <1>6, <3>1 DEF Runs
    <3>2. CASE n # 0
      <4>1. n \in 1 .. N /\ n - 1 \in 0 .. N
        BY <1>1, <3>2
      <4>2. g[n] = f[g[n - 1]] /\ g[n - 1] \in P
        BY <1>6, <4>1 DEF Runs
      <4> QED
        BY <1>2, <3>2, <4>2
    <3> QED
      BY <3>1, <3>2
  <2> QED
    BY <1>6, <2>1 DEF Runs
<1>8. Turns(turn)
  <2> HIDE DEF Turns
  <2> QED
    BY <1>7
<1> HIDE DEF turn
<1>9. turn[0] = a /\ \A n \in 1 .. N : turn[n] = Manifest(turn[n - 1])
  BY <1>1, <1>8
<1>10. \A n \in 0 .. N : turn[n] \in P
  <2>1. \A n \in 1 .. N : turn[n - 1] \in P => turn[n] = f[turn[n - 1]]
    BY <1>2, <1>9
  <2> QED
    BY <1>1, <1>5, <1>3, <1>9, <2>1, LoopKeeps
<1>11. turn[N] \in P
  BY <1>1, <1>10
<1> QED
  BY <1>4, <1>11 DEF P

(***************************************************************************)
(* What keeps the invariant, whatever the step.                            *)
(***************************************************************************)

CommandState == [Token -> Command \cup {Idle}]

LEMMA CommandParts ==
  ASSUME NEW cmd \in CommandState, NEW t \in Token, cmd[t] # Idle
  PROVE  /\ cmd[t] \in Command /\ cmd[t].item \in Item
         /\ cmd[t].kind \in {"drop", "pickup", "retire"}
         /\ cmd[t].reserved \in BOOLEAN /\ cmd[t].stored \in BOOLEAN
<1>1. cmd[t] \in Command
  BY DEF CommandState
<1> QED
  BY <1>1 DEF Command

(* Nothing unknown becomes known and every drop stays timed.               *)
Advances(s, v, q, o, w, r) ==
  /\ s.held = o.held /\ Members(s)
  /\ \A j \in Item : Unknown(o, w, r, j) => Unknown(s, v, q, j)
  /\ \A j \in Item : v[j] = "drop" => w[j] = "drop" /\ StaysTimed(s, o, j)

LEMMA KeptStays ==
  ASSUME NEW o, NEW w, NEW r, NEW p, NEW g, NEW n, NEW cmd, NEW pl,
         Kept(o, w, r, p, g, n, cmd, pl),
         NEW s, NEW v, NEW q, Advances(s, v, q, o, w, r)
  PROVE  Kept(s, v, q, p, g, n, cmd, pl)
<1>1. FreshIds(s, v, q, p, g, n)
  BY DEF Kept, FreshIds, Advances
<1>2. Timed(s, v, cmd)
  BY DEF Kept, Timed, Advances, StaysTimed
<1> QED
  BY <1>1, <1>2 DEF Kept, Advances

(* A command that is over, or waits for something else.                    *)
LEMMA ItemsDiffer ==
  ASSUME NEW held, NEW cmd, Reserved(held, cmd), NEW s \in Token, NEW t \in Token, s # t,
         cmd[s] # Idle, cmd[t] # Idle
  PROVE  cmd[s].item # cmd[t].item
BY DEF Reserved

LEMMA AnswerKeeps ==
  ASSUME NEW o, NEW w, NEW r, NEW p, NEW g, NEW n, NEW cmd \in CommandState, NEW pl,
         Kept(o, w, r, p, g, n, cmd, pl),
         NEW t \in Token, cmd[t] # Idle, NEW m \in Command,
         m.item = cmd[t].item, Formed(t, m)
  PROVE  Kept(o, w, r, p, g, n, [cmd EXCEPT ![t] = m], pl)
<1> DEFINE cm == [cmd EXCEPT ![t] = m]
<1>1. /\ cm[t] = m /\ m # Idle
      /\ \A s \in Token : s # t => cm[s] = cmd[s]
      /\ \A s \in Token : (cm[s] # Idle <=> cmd[s] # Idle) /\ (cmd[s] # Idle => cm[s].item = cmd[s].item)
  BY IdleIsIdle DEF CommandState
<1> HIDE DEF cm
<1>2. Commanded(cm, pl)
  BY <1>1 DEF Kept, Commanded
<1>3. Reserved(o.held, cm)
  BY <1>1 DEF Kept, Reserved
<1>4. Timed(o, w, cm)
  <2>1. Item \subseteq Token
    BY DEF Token
  <2> QED
    BY <1>1, <2>1 DEF Kept, Timed
<1>5. Kept(o, w, r, p, g, n, cm, pl)
  BY <1>2, <1>3, <1>4 DEF Kept
<1> QED
  BY <1>5 DEF cm

LEMMA AnswerStored ==
  ASSUME NEW o, NEW w, NEW r, NEW q, NEW cmd \in CommandState, Reserved(o.held, cmd),
         Stored(o, w, r, cmd), NEW t \in Token, cmd[t] # Idle, NEW m,
         m.item = cmd[t].item, \A j \in Item : j # m.item => q[j] = r[j],
         InHand(o, w, q, t, m)
  PROVE  Stored(o, w, q, [cmd EXCEPT ![t] = m])
<1> DEFINE cm == [cmd EXCEPT ![t] = m]
<1>1. cm[t] = m /\ \A s \in Token : s # t => cm[s] = cmd[s]
  BY DEF CommandState
<1> HIDE DEF cm
<1>2. ASSUME NEW i \in Item, i \notin o.held PROVE Settled(o, w, q, i)
  <2>1. i # m.item
    BY <1>2 DEF Reserved
  <2>2. q[i] = r[i] /\ Settled(o, w, r, i)
    BY <1>2, <2>1 DEF Stored
  <2> QED
    BY <2>2 DEF Settled
<1>3. ASSUME NEW s \in Token, cm[s] # Idle, s # t PROVE InHand(o, w, q, s, cm[s])
  <2>1. cm[s] = cmd[s] /\ InHand(o, w, r, s, cmd[s])
    BY <1>1, <1>3 DEF Stored
  <2>2. cmd[s].item # m.item
    BY <1>3, <2>1, ItemsDiffer
  <2>3. cmd[s].item \in Item
    BY <1>3, <2>1, CommandParts
  <2>4. q[cmd[s].item] = r[cmd[s].item]
    BY <2>2, <2>3
  <2> QED
    BY <2>1, <2>4 DEF InHand
<1>4. Stored(o, w, q, cm)
  BY <1>1, <1>2, <1>3 DEF Stored
<1> QED
  BY <1>4 DEF cm

(* Only the item i may have changed.                                       *)
Moves(s, v, o, w, i) ==
  /\ Members(s)
  /\ \A j \in Item : j # i =>
       /\ v[j] = w[j] /\ StaysTimed(s, o, j)
       /\ j \in s.visible <=> j \in o.visible
       /\ j \in s.durable <=> j \in o.durable
  /\ s.held = o.held \ {i}

LEMMA ReleaseKeeps ==
  ASSUME NEW o, NEW w, NEW r, NEW p, NEW g, NEW n, NEW cmd \in CommandState, NEW pl,
         Kept(o, w, r, p, g, n, cmd, pl),
         NEW t \in Token, cmd[t] # Idle,
         NEW s, NEW v, Moves(s, v, o, w, cmd[t].item),
         v[cmd[t].item] = "drop" => s.live[cmd[t].item] # Off /\ Scheduled(s, cmd[t].item)
  PROVE  Kept(s, v, r, p, g, n, [cmd EXCEPT ![t] = Idle], pl)
<1> DEFINE cm == [cmd EXCEPT ![t] = Idle]
           i == cmd[t].item
<1>1. cm[t] = Idle /\ \A x \in Token : x # t => cm[x] = cmd[x]
  BY DEF CommandState
<1>2. i \in Item /\ i \in o.held
  BY CommandParts DEF Kept, Reserved
<1>9. Moves(s, v, o, w, i) /\ (v[i] = "drop" => s.live[i] # Off /\ Scheduled(s, i))
  OBVIOUS
<1>3. \A j \in Item : j # i => j # t
  BY DEF Kept, Commanded, Formed
<1>4. \A x \in Token : x # t /\ cmd[x] # Idle => cmd[x].item # i
  BY DEF Kept, Reserved
<1>5. \A j \in o.held : \E x \in Token : cmd[x] # Idle /\ cmd[x].item = j
  BY DEF Kept, Reserved
<1>6. cmd[t].item = i
  OBVIOUS
<1> HIDE DEF cm, i
<1>7. FreshIds(s, v, r, p, g, n)
  <2>1. ASSUME NEW j \in Item, Unknown(o, w, r, j) PROVE Unknown(s, v, r, j)
    <3>1. j # i
      BY <1>2, <2>1 DEF Unknown
    <3> QED
      BY <1>9, <2>1, <3>1 DEF Moves, Unknown
  <2> QED
    BY <2>1 DEF Kept, FreshIds
<1>8. Commanded(cm, pl)
  BY <1>1 DEF Kept, Commanded
<1>10. Reserved(s.held, cm)
  <2>1. ASSUME NEW x \in Token, cm[x] # Idle
        PROVE x # t /\ cm[x] = cmd[x] /\ cm[x].item \in s.held
    BY <1>1, <1>4, <1>9, <2>1 DEF Kept, Reserved, Moves
  <2>2. ASSUME NEW j \in s.held PROVE \E x \in Token : cm[x] # Idle /\ cm[x].item = j
    <3>1. j \in o.held /\ j # i
      BY <1>9 DEF Moves
    <3>2. PICK x \in Token : cmd[x] # Idle /\ cmd[x].item = j
      BY <1>5, <3>1
    <3> QED
      BY <1>1, <1>6, <3>1, <3>2
  <2>3. \A x, y \in Token : cm[x] # Idle /\ cm[y] # Idle /\ cm[x].item = cm[y].item => x = y
    BY <2>1 DEF Kept, Reserved
  <2> QED
    BY <2>1, <2>2, <2>3 DEF Reserved
<1>11. Timed(s, v, cm)
  <2>1. ASSUME NEW j \in Item, v[j] = "drop"
        PROVE s.live[j] # Off /\ (Scheduled(s, j) \/ cm[j] # Idle)
    <3>1. CASE j = i
      BY <1>9, <2>1, <3>1
    <3>2. CASE j # i
      <4>1. w[j] = "drop" /\ StaysTimed(s, o, j)
        BY <1>9, <2>1, <3>2 DEF Moves
      <4>2. cm[j] = cmd[j]
        <5>1. j # t /\ j \in Token
          BY <1>3, <3>2 DEF Token
        <5> QED
          BY <1>1, <5>1
      <4> QED
        BY <4>1, <4>2 DEF Kept, Timed, StaysTimed
    <3> QED
      BY <3>1, <3>2
  <2> QED
    BY <2>1 DEF Timed
<1>12. Kept(s, v, r, p, g, n, cm, pl)
  BY <1>7, <1>8, <1>9, <1>10, <1>11 DEF Kept, Moves
<1> QED
  BY <1>12 DEF cm

LEMMA ReleaseStored ==
  ASSUME NEW o, NEW w, NEW r, NEW cmd \in CommandState, Reserved(o.held, cmd),
         Stored(o, w, r, cmd), NEW t \in Token, cmd[t] # Idle,
         NEW s, NEW v, Moves(s, v, o, w, cmd[t].item), Settled(s, v, r, cmd[t].item)
  PROVE  Stored(s, v, r, [cmd EXCEPT ![t] = Idle])
<1> DEFINE cm == [cmd EXCEPT ![t] = Idle]
           i == cmd[t].item
<1>1. cm[t] = Idle /\ \A x \in Token : x # t => cm[x] = cmd[x]
  BY DEF CommandState
<1>2. Moves(s, v, o, w, i) /\ Settled(s, v, r, i) /\ cmd[t].item = i
  OBVIOUS
<1> HIDE DEF cm, i
<1>3. ASSUME NEW j \in Item, j \notin s.held PROVE Settled(s, v, r, j)
  <2>1. CASE j = i
    BY <1>2, <2>1
  <2>2. CASE j # i
    <3>1. Settled(o, w, r, j)
      BY <1>2, <1>3, <2>2 DEF Moves, Stored
    <3>2. v[j] = w[j] /\ (j \in s.visible <=> j \in o.visible) /\ (j \in s.durable <=> j \in o.durable)
      BY <1>2, <2>2 DEF Moves
    <3> QED
      BY <3>1, <3>2 DEF Settled
  <2> QED
    BY <2>1, <2>2
<1>4. ASSUME NEW x \in Token, cm[x] # Idle PROVE InHand(s, v, r, x, cm[x])
  <2>1. x # t /\ cm[x] = cmd[x] /\ InHand(o, w, r, x, cmd[x])
    BY <1>1, <1>4 DEF Stored
  <2>2. cmd[x].item # i
    BY <1>2, <1>4, <2>1, ItemsDiffer
  <2>3. cmd[x].item \in Item
    BY <1>4, <2>1, CommandParts
  <2> DEFINE j == cmd[x].item
  <2>4. v[j] = w[j] /\ (j \in s.visible <=> j \in o.visible) /\ (j \in s.durable <=> j \in o.durable)
    BY <1>2, <2>2, <2>3 DEF Moves
  <2> QED
    BY <2>1, <2>4 DEF InHand
<1>5. Stored(s, v, r, cm)
  BY <1>3, <1>4 DEF Stored
<1> QED
  BY <1>5 DEF cm

(***************************************************************************)
(* A player without a command leaves.                                      *)
(***************************************************************************)

LEMMA ClearedParts ==
  ASSUME NEW w \in WorldState, NEW c \in Character
  PROVE  /\ Cleared(w, c) \in WorldState
         /\ \A j \in Item : w[j] = c => Cleared(w, c)[j] = "none"
         /\ \A j \in Item : w[j] # c => Cleared(w, c)[j] = w[j]
         /\ \A j \in Item : Cleared(w, c)[j] = "drop" <=> w[j] = "drop"
         /\ \A j \in Item : Cleared(w, c)[j] # c
         /\ \A j \in Item : Cleared(w, c)[j] # "none" => Cleared(w, c)[j] = w[j]
<1> DEFINE x == Cleared(w, c)
<1>1. c # "none" /\ c # "drop"
  BY Bounds
<1>2. x \in WorldState
  BY DEF Cleared, WorldState
<1>3. \A j \in Item : x[j] = IF w[j] = c THEN "none" ELSE w[j]
  BY DEF Cleared
<1> HIDE DEF x
<1>4. \A j \in Item : (w[j] = c => x[j] = "none") /\ (w[j] # c => x[j] = w[j])
  BY <1>3
<1>5. \A j \in Item : x[j] = "drop" <=> w[j] = "drop"
  BY <1>1, <1>3
<1>6. \A j \in Item : x[j] # c /\ (x[j] # "none" => x[j] = w[j])
  BY <1>1, <1>4
<1> QED
  BY <1>2, <1>4, <1>5, <1>6 DEF x

LEMMA RegisteredFields ==
  ASSUME NEW o \in OwnState, NEW v
  PROVE  LET s == Registered(o, v)
         IN  /\ s \in OwnState /\ SameTimes(s, o) /\ s.held = o.held /\ s.visible = o.visible
             /\ \A i : i \in s.durable <=> i \in o.durable /\ v[i] # "none"
<1> DEFINE d == {i \in o.durable : v[i] # "none"}
<1>1. d \in SUBSET Item
  BY DEF OwnState
<1>2. Registered(o, v) = [o EXCEPT !.durable = d]
  BY DEF Registered
<1>3. \A i : i \in d <=> i \in o.durable /\ v[i] # "none"
  OBVIOUS
<1> HIDE DEF d
<1>4. LET s == [o EXCEPT !.durable = d]
      IN  /\ s \in OwnState /\ SameTimes(s, o) /\ s.durable = d
          /\ s.visible = o.visible /\ s.held = o.held
  BY <1>1, DurableFields
<1> QED
  BY <1>2, <1>3, <1>4

LEMMA GoneKeeps ==
  ASSUME NEW o \in OwnState, NEW w \in WorldState, NEW r, NEW p, NEW g, NEW n, NEW cmd, NEW pl,
         Kept(o, w, r, p, g, n, cmd, pl), DOMAIN pl = Character,
         NEW c \in Character, cmd[c] = Idle
  PROVE  LET v == Cleared(w, c)
         IN  Kept(Registered(o, v), v, r, p, g, n, cmd, [pl EXCEPT ![c] = "away"])
<1> DEFINE v == Cleared(w, c)
           s == Registered(o, v)
           pm == [pl EXCEPT ![c] = "away"]
<1>1. \A j \in Item : (w[j] # c => v[j] = w[j]) /\ (v[j] = "drop" <=> w[j] = "drop")
  BY ClearedParts
<1>2. /\ s \in OwnState /\ SameTimes(s, o) /\ s.held = o.held /\ s.visible = o.visible
      /\ \A i : i \in s.durable <=> i \in o.durable /\ v[i] # "none"
  BY RegisteredFields
<1>3. \A x \in Character : x # c => pm[x] = pl[x]
  OBVIOUS
<1> HIDE DEF v, s, pm
<1>4. Members(s) /\ \A j : StaysTimed(s, o, j)
  <2>1. Members(o)
    BY DEF Kept
  <2> QED
    BY <1>2, <2>1, SameTimesStay
<1>5. ASSUME NEW j \in Item, Unknown(o, w, r, j) PROVE Unknown(s, v, r, j)
  BY <1>1, <1>2, <1>5, Bounds DEF Unknown
<1>6. Advances(s, v, r, o, w, r)
  BY <1>1, <1>2, <1>4, <1>5 DEF Advances
<1>7. Kept(s, v, r, p, g, n, cmd, pl)
  BY <1>6, KeptStays
<1>8. Commanded(cmd, pm)
  <2>1. Commanded(cmd, pl)
    BY DEF Kept
  <2> QED
    BY <1>3, <2>1 DEF Commanded
<1>9. Kept(s, v, r, p, g, n, cmd, pm)
  BY <1>7, <1>8 DEF Kept
<1> QED
  BY <1>9 DEF v, s, pm

(* The records of c are gone, and their registrations with them.           *)
Vacated(s, v, o, w, c) ==
  /\ s.held = o.held /\ s.visible = o.visible /\ s.durable \subseteq o.durable
  /\ \A j \in Item : w[j] = c => v[j] = "none" /\ j \notin s.durable
  /\ \A j \in Item : w[j] # c => v[j] = w[j]
  /\ \A j \in Item : w[j] \notin {c, "none"} => (j \in s.durable <=> j \in o.durable)

LEMMA VacatedStored ==
  ASSUME NEW o, NEW w, NEW r, NEW cmd \in CommandState, NEW pl,
         Commanded(cmd, pl), Stored(o, w, r, cmd), NEW c \in Character,
         cmd[c] # Idle => cmd[c].kind = "pickup",
         NEW s, NEW v, Vacated(s, v, o, w, c)
  PROVE  Stored(s, v, r, cmd)
<1>3. c # "none" /\ c # "drop" /\ c # "ground" /\ "none" \notin Character /\ "drop" \notin Character
  BY Bounds
<1>4. ASSUME NEW j \in Item, j \notin s.held PROVE Settled(s, v, r, j)
  <2>1. Settled(o, w, r, j)
    BY <1>4 DEF Stored, Vacated
  <2>2. CASE w[j] = c
    <3>1. v[j] = "none" /\ j \notin s.durable
      BY <2>2 DEF Vacated
    <3>2. r[j] = c /\ j \notin s.visible
      BY <2>1, <2>2 DEF Settled, Vacated
    <3> QED
      BY <1>3, <3>1, <3>2 DEF Settled
  <2>3. CASE w[j] = "none"
    <3>1. v[j] = "none"
      BY <1>3, <2>3 DEF Vacated
    <3>2. j \notin s.visible \cup s.durable /\ r[j] # "ground"
      BY <2>1, <2>3 DEF Settled, Vacated
    <3> QED
      BY <1>3, <3>1, <3>2 DEF Settled
  <2>4. CASE w[j] # c /\ w[j] # "none"
    <3>1. v[j] = w[j] /\ (j \in s.visible <=> j \in o.visible)
      BY <2>4 DEF Vacated
    <3>2. j \in s.durable <=> j \in o.durable
      BY <2>4 DEF Vacated
    <3> QED
      BY <2>1, <3>1, <3>2 DEF Settled
  <2> QED
    BY <2>2, <2>3, <2>4
<1>5. ASSUME NEW t \in Token, cmd[t] # Idle PROVE InHand(s, v, r, t, cmd[t])
  <2> DEFINE j == cmd[t].item
  <2>1. InHand(o, w, r, t, cmd[t]) /\ j \in Item
    BY <1>5, CommandParts DEF Stored
  <2>2. t \in Item => cmd[t].kind = "retire"
    BY <1>5 DEF Commanded, Formed
  <2>3. cmd[t].kind = "drop" => t \in Character /\ t # c
    BY <1>5, <2>2 DEF Token
  <2>4. w[j] # c /\ w[j] # "none"
    BY <1>3, <2>1, <2>3 DEF InHand
  <2>5. v[j] = w[j] /\ (j \in s.visible <=> j \in o.visible) /\ (j \in s.durable <=> j \in o.durable)
    BY <2>1, <2>4 DEF Vacated
  <2> QED
    BY <2>1, <2>5 DEF InHand
<1> QED
  BY <1>4, <1>5 DEF Stored

LEMMA GoneStored ==
  ASSUME NEW o \in OwnState, NEW w \in WorldState, NEW r, NEW cmd \in CommandState, NEW pl,
         Commanded(cmd, pl), Stored(o, w, r, cmd), NEW c \in Character, cmd[c] = Idle
  PROVE  LET v == Cleared(w, c) IN Stored(Registered(o, v), v, r, cmd)
<1> DEFINE v == Cleared(w, c)
           s == Registered(o, v)
<1>1. /\ \A j \in Item : w[j] = c => v[j] = "none"
      /\ \A j \in Item : w[j] # c => v[j] = w[j]
  BY ClearedParts
<1>2. /\ s.held = o.held /\ s.visible = o.visible /\ s \in OwnState
      /\ \A i : i \in s.durable <=> i \in o.durable /\ v[i] # "none"
  BY RegisteredFields
<1> HIDE DEF v, s
<1>3. Vacated(s, v, o, w, c)
  BY <1>1, <1>2 DEF Vacated
<1>4. Stored(s, v, r, cmd)
  BY <1>3, VacatedStored
<1> QED
  BY <1>4 DEF v, s

(* A command of c is over, with the bookkeeping o and the records w.       *)
LEMMA FinishKeeps ==
  ASSUME GroundInv, NEW c \in Character, command[c] # Idle,
         NEW o \in OwnState, NEW w \in WorldState, Finish(c, o, w),
         LET s == Unhold(o, command[c].item)
             cm == [command EXCEPT ![c] = Idle]
         IN  /\ Kept(s, w, row, pool, replenish.got, issued, cm, player)
             /\ channel # "taken" => Stored(s, w, row, cm),
         shown' \in SUBSET Item, UNCHANGED <<loot, ids, row, channel>>
  PROVE  GroundInv'
<1> DEFINE s == Unhold(o, command[c].item)
           cm == [command EXCEPT ![c] = Idle]
<1>1. /\ s \in OwnState
      /\ cm \in CommandState /\ cm[c] = Idle /\ command' = cm
      /\ player \in [Character -> {"away", "here", "leaving"}]
  <2>1. s \in OwnState
    BY UnholdFields
  <2>2. command \in CommandState /\ player \in [Character -> {"away", "here", "leaving"}]
    BY DEF GroundInv, Typed, CommandState
  <2>3. c \in Token
    BY DEF Token
  <2>4. cm \in CommandState /\ cm[c] = Idle
    BY <2>2, <2>3 DEF CommandState
  <2> QED
    BY <2>1, <2>2, <2>4 DEF Finish
<1>2. /\ Kept(s, w, row, pool, replenish.got, issued, cm, player)
      /\ channel # "taken" => Stored(s, w, row, cm)
  OBVIOUS
<1>3. CASE player[c] = "leaving"
  <2> DEFINE v == Cleared(w, c)
             u == Registered(s, v)
             pm == [player EXCEPT ![c] = "away"]
  <2>1. own' = u /\ world' = v /\ player' = pm
    BY <1>3 DEF Finish
  <2>2. u \in OwnState /\ v \in WorldState /\ pm \in [Character -> {"away", "here", "leaving"}]
    BY <1>1, ClearedParts, RegisteredFields
  <2>3. Kept(u, v, row, pool, replenish.got, issued, cm, pm)
    <3> HIDE DEF s, cm
    <3> QED
      BY <1>1, <1>2, GoneKeeps
  <2>4. channel # "taken" => Stored(u, v, row, cm)
    <3>1. Commanded(cm, player)
      BY <1>2 DEF Kept
    <3> HIDE DEF s, cm
    <3> QED
      BY <1>1, <1>2, <3>1, GoneStored
  <2> HIDE DEF s, cm, u, v, pm
  <2> QED
    BY <1>1, <2>1, <2>2, <2>3, <2>4 DEF GroundInv, Typed, ids, CommandState
<1>4. CASE player[c] # "leaving"
  <2>1. own' = s /\ world' = w /\ player' = player
    BY <1>4 DEF Finish
  <2> HIDE DEF s, cm
  <2> QED
    BY <1>1, <1>2, <2>1 DEF GroundInv, Typed, ids, CommandState
<1> QED
  BY <1>3, <1>4

(***************************************************************************)
(* The worker and the answers.                                             *)
(***************************************************************************)

Place == {"outbound", "sent", "done", "refused", "unknown", "retry", "reconcile", "stuck"}

LEMMA AnswerFields ==
  ASSUME NEW m \in Command, NEW a \in Place
  PROVE  LET k == [m EXCEPT !.at = a]
         IN  /\ k \in Command /\ k.kind = m.kind /\ k.item = m.item
             /\ k.reserved = m.reserved /\ k.stored = m.stored /\ k.at = a
BY DEF Command, Place

LEMMA DoneFields ==
  ASSUME NEW m \in Command, NEW a \in Place
  PROVE  LET k == [m EXCEPT !.at = a, !.stored = TRUE]
         IN  /\ k \in Command /\ k.kind = m.kind /\ k.item = m.item
             /\ k.reserved = m.reserved /\ k.stored = TRUE /\ k.at = a
BY DEF Command, Place

(* What the invariant says of one command.                                 *)
LEMMA ActiveParts ==
  ASSUME GroundInv, NEW t \in Token, command[t] # Idle
  PROVE  /\ command \in CommandState /\ own \in OwnState /\ world \in WorldState
         /\ row \in RowState
         /\ command[t] \in Command /\ command[t].item \in Item /\ command[t].item \in own.held
         /\ Formed(t, command[t])
         /\ command[t].kind \in {"drop", "pickup", "retire"}
         /\ command[t].stored \in BOOLEAN
         /\ t \in Character \/ command[t].kind = "retire"
         /\ channel # "taken" => InHand(own, world, row, t, command[t])
<1>1. command \in CommandState /\ own \in OwnState /\ world \in WorldState /\ row \in RowState
  BY DEF GroundInv, Typed, CommandState
<1>2. /\ command[t] \in Command /\ command[t].item \in Item
      /\ command[t].kind \in {"drop", "pickup", "retire"} /\ command[t].stored \in BOOLEAN
  BY <1>1, CommandParts
<1>3. command[t].item \in own.held /\ Formed(t, command[t])
  BY DEF GroundInv, Kept, Reserved, Commanded
<1>4. t \in Character \/ command[t].kind = "retire"
  BY <1>3 DEF Formed, Token
<1>5. channel # "taken" => InHand(own, world, row, t, command[t])
  BY DEF GroundInv, Stored
<1> QED
  BY <1>1, <1>2, <1>3, <1>4, <1>5

LEMMA AnswerStep ==
  ASSUME GroundInv, NEW t \in Token, command[t] # Idle, NEW a \in Place, Answer(t, a),
         a \in {"done", "reconcile", "stuck"} => command[t].stored,
         command[t].stored => a \notin {"outbound", "refused"},
         UNCHANGED <<own, world, shown, loot, ids, player, row, channel>>
  PROVE  GroundInv'
<1> DEFINE m == [command[t] EXCEPT !.at = a]
           cm == [command EXCEPT ![t] = m]
<1>1. /\ command \in CommandState /\ own \in OwnState /\ world \in WorldState
      /\ command[t] \in Command /\ command[t].item \in Item /\ Formed(t, command[t])
      /\ channel # "taken" => InHand(own, world, row, t, command[t])
  BY ActiveParts
<1>2. command' = cm
  BY <1>1 DEF Answer, CommandState
<1>3. /\ m \in Command /\ m.kind = command[t].kind /\ m.item = command[t].item
      /\ m.reserved = command[t].reserved /\ m.stored = command[t].stored /\ m.at = a
  BY <1>1, AnswerFields
<1> HIDE DEF m
<1>4. Formed(t, m)
  BY <1>1, <1>3 DEF Formed
<1>5. Kept(own, world, row, pool, replenish.got, issued, command, player)
  BY DEF GroundInv
<1>6. Kept(own, world, row, pool, replenish.got, issued, cm, player)
  BY <1>1, <1>3, <1>4, <1>5, AnswerKeeps
<1>7. channel # "taken" => Stored(own, world, row, cm)
  <2>1. SUFFICES ASSUME channel # "taken" PROVE Stored(own, world, row, cm)
    OBVIOUS
  <2>2. InHand(own, world, row, t, m)
    BY <1>1, <1>3, <2>1 DEF InHand
  <2>3. Stored(own, world, row, command) /\ Reserved(own.held, command)
    BY <1>5, <2>1 DEF GroundInv, Kept
  <2>4. \A j \in Item : j # m.item => row[j] = row[j]
    OBVIOUS
  <2> QED
    BY <1>1, <1>3, <2>2, <2>3, <2>4, AnswerStored
<1>8. cm \in [Token -> Command \cup {Idle}]
  BY <1>1, <1>3 DEF CommandState
<1> HIDE DEF cm
<1> QED
  BY <1>2, <1>6, <1>7, <1>8 DEF GroundInv, Typed, ids

(* A command that writes finds a channel that nobody has taken.            *)
LEMMA WritesUntaken ==
  ASSUME GroundInv, NEW t \in Token, command[t] # Idle, Accepts(t)
  PROVE  channel # "taken"
<1> SUFFICES ASSUME channel = "taken" PROVE FALSE
  OBVIOUS
<1>1. \A i \in Item : row[i] # "ground"
  BY DEF GroundInv
<1>2. command[t].item \in Item
  BY ActiveParts
<1>3. command[t].kind = "pickup" /\ ~command[t].reserved
  BY DEF Accepts, Fenced
<1>4. row[command[t].item] = "ground"
  BY <1>3 DEF Accepts, Needs
<1> QED
  BY <1>1, <1>2, <1>4

LEMMA WriteStep ==
  ASSUME GroundInv, NEW t \in Token, command[t] # Idle, Accepts(t), ~command[t].stored,
         row' = [row EXCEPT ![command[t].item] = Becomes(t)],
         NEW a \in {"done", "unknown"},
         command' = [command EXCEPT ![t].at = a, ![t].stored = TRUE],
         UNCHANGED <<own, world, shown, loot, ids, player, channel>>
  PROVE  GroundInv'
<1> DEFINE m == [command[t] EXCEPT !.at = a, !.stored = TRUE]
           cm == [command EXCEPT ![t] = m]
           i == command[t].item
           q == [row EXCEPT ![i] = Becomes(t)]
<1>0. channel # "taken"
  BY WritesUntaken
<1>1. /\ command \in CommandState /\ own \in OwnState /\ world \in WorldState /\ row \in RowState
      /\ command[t] \in Command /\ i \in Item /\ i \in own.held /\ Formed(t, command[t])
      /\ command[t].kind \in {"drop", "pickup", "retire"}
      /\ t \in Character \/ command[t].kind = "retire"
      /\ InHand(own, world, row, t, command[t])
  BY <1>0, ActiveParts
<1>2. command' = cm /\ row' = q
  BY <1>1 DEF CommandState
<1>3. a \in Place
  BY DEF Place
<1>4. /\ m \in Command /\ m.kind = command[t].kind /\ m.item = i
      /\ m.reserved = command[t].reserved /\ m.stored = TRUE /\ m.at = a
  BY <1>1, <1>3, DoneFields
<1> HIDE DEF m
<1>5. Formed(t, m)
  <2>1. a \notin {"outbound", "refused"}
    OBVIOUS
  <2> QED
    BY <1>1, <1>4, <2>1 DEF Formed
<1>6. /\ q \in RowState /\ q[i] = Becomes(t) /\ \A j \in Item : j # i => q[j] = row[j]
  <2>1. Becomes(t) \in Character \cup {"none", "ground", "retired"}
    BY <1>1 DEF Becomes
  <2> QED
    BY <1>1, <2>1 DEF RowState
<1>7. Becomes(t) = IF m.kind = "drop" THEN "ground" ELSE IF m.kind = "pickup" THEN t ELSE "retired"
  BY <1>1, <1>4 DEF Becomes
<1>13. i = command[t].item
  OBVIOUS
<1> HIDE DEF i, q
<1>8. Kept(own, world, row, pool, replenish.got, issued, command, player)
  BY DEF GroundInv
<1>9. Kept(own, world, q, pool, replenish.got, issued, command, player)
  <2>1. \A j : StaysTimed(own, own, j)
    BY DEF StaysTimed
  <2>2. Advances(own, world, q, own, world, row)
    BY <1>1, <1>6, <1>8, <2>1 DEF Advances, Unknown, Kept
  <2> QED
    BY <1>8, <2>2, KeptStays
<1>10. Kept(own, world, q, pool, replenish.got, issued, cm, player)
  BY <1>1, <1>4, <1>5, <1>9, AnswerKeeps DEF i
<1>11. Stored(own, world, q, cm)
  <2>1. InHand(own, world, q, t, m)
    <3>1. q[i] = IF m.kind = "drop" THEN "ground" ELSE IF m.kind = "pickup" THEN t ELSE "retired"
      BY <1>6, <1>7
    <3>2. m.kind = "drop" => world[i] = t /\ i \in own.durable \ own.visible
      BY <1>1, <1>4, <1>13 DEF InHand
    <3>3. m.kind # "drop" =>
            /\ world[i] = "drop" /\ (m.reserved <=> i \in own.visible)
            /\ i \in own.durable <=> i \notin own.visible
      BY <1>1, <1>4, <1>13 DEF InHand
    <3> QED
      BY <1>4, <3>1, <3>2, <3>3 DEF InHand
  <2>2. Stored(own, world, row, command) /\ Reserved(own.held, command)
    BY <1>0, <1>8 DEF GroundInv, Kept
  <2>3. m.item = command[t].item /\ \A j \in Item : j # m.item => q[j] = row[j]
    BY <1>4, <1>6, <1>13
  <2> QED
    BY <1>1, <2>1, <2>2, <2>3, AnswerStored
<1>12. cm \in [Token -> Command \cup {Idle}]
  BY <1>1, <1>4 DEF CommandState
<1> HIDE DEF cm
<1> QED
  BY <1>0, <1>2, <1>6, <1>10, <1>11, <1>12 DEF GroundInv, Typed, ids, RowState

LEMMA ExecuteStep ==
  ASSUME GroundInv, NEW t \in Token, Execute(t)
  PROVE  GroundInv'
<1>1. command[t] # Idle /\ command[t].stored \in BOOLEAN
  BY ActiveParts DEF Execute, Active
<1>2. "done" \in Place /\ "refused" \in Place
  BY DEF Place
<1>3. CASE command[t].stored /\ Answer(t, "done") /\ UNCHANGED row
  BY <1>1, <1>2, <1>3, AnswerStep DEF Execute
<1>4. CASE /\ ~command[t].stored /\ Accepts(t)
           /\ row' = [row EXCEPT ![command[t].item] = Becomes(t)]
           /\ \E at \in {"done", "unknown"} :
                command' = [command EXCEPT ![t].at = at, ![t].stored = TRUE]
  <2>1. PICK at \in {"done", "unknown"} :
          command' = [command EXCEPT ![t].at = at, ![t].stored = TRUE]
    BY <1>4
  <2> QED
    BY <1>1, <1>4, <2>1, WriteStep DEF Execute
<1>5. CASE ~command[t].stored /\ ~Accepts(t) /\ Answer(t, "refused") /\ UNCHANGED row
  BY <1>1, <1>2, <1>5, AnswerStep DEF Execute
<1> QED
  BY <1>3, <1>4, <1>5 DEF Execute

LEMMA FaultStep ==
  ASSUME GroundInv, NEW t \in Token, Fault(t)
  PROVE  GroundInv'
<1>1. command[t] # Idle /\ "unknown" \in Place /\ "refused" \in Place
  BY DEF Fault, Active, Place
<1>2. CASE Answer(t, "unknown")
  BY <1>1, <1>2, AnswerStep DEF Fault
<1>3. CASE ~command[t].stored /\ Answer(t, "refused")
  BY <1>1, <1>3, AnswerStep DEF Fault
<1> QED
  BY <1>2, <1>3 DEF Fault

LEMMA SettleUnknownStep ==
  ASSUME GroundInv, NEW t \in Token, SettleUnknown(t)
  PROVE  GroundInv'
<1>1. command[t] # Idle /\ "retry" \in Place
  BY DEF SettleUnknown, Active, Place
<1> QED
  BY <1>1, AnswerStep DEF SettleUnknown

LEMMA SettleUnappliedStep ==
  ASSUME GroundInv, NEW t \in Character, SettleUnapplied(t)
  PROVE  GroundInv'
<1>1. t \in Token /\ command[t] # Idle /\ "reconcile" \in Place
  BY DEF SettleUnapplied, Active, Place, Token
<1>2. command[t].stored
  BY <1>1, ActiveParts DEF SettleUnapplied, Formed
<1> QED
  BY <1>1, <1>2, AnswerStep DEF SettleUnapplied

(***************************************************************************)
(* A command ends, and only its item moves.                                *)
(***************************************************************************)

(* The command of c ends, begun with the bookkeeping b and the records v.  *)
LEMMA PlayerSettles ==
  ASSUME GroundInv, NEW c \in Character, command[c] # Idle, NEW b, NEW v,
         Kept(b, v, row, pool, replenish.got, issued, command, player),
         channel # "taken" => Stored(b, v, row, command),
         NEW o \in OwnState, NEW w \in WorldState, Finish(c, o, w),
         NEW i, i = command[c].item,
         Moves(Unhold(o, i), w, b, v, i),
         w[i] = "drop" => o.live[i] # Off /\ Scheduled(o, i),
         channel # "taken" => Settled(o, w, row, i),
         shown' \in SUBSET Item, UNCHANGED <<loot, ids, row, channel>>
  PROVE  GroundInv'
<1> DEFINE s == Unhold(o, i)
           cm == [command EXCEPT ![c] = Idle]
<1>1. c \in Token /\ command \in CommandState
  BY DEF Token, GroundInv, Typed, CommandState
<1>2. Reserved(b.held, command)
  BY DEF Kept
<1>3. SameTimes(s, o) /\ s.visible = o.visible /\ s.durable = o.durable
  BY UnholdFields
<1>4. Moves(s, w, b, v, i)
  OBVIOUS
<1> HIDE DEF s
<1>5. w[i] = "drop" => s.live[i] # Off /\ Scheduled(s, i)
  BY <1>3 DEF SameTimes, Scheduled
<1>6. channel # "taken" => Settled(s, w, row, i)
  BY <1>3 DEF Settled
<1>7. Kept(s, w, row, pool, replenish.got, issued, cm, player)
  BY <1>1, <1>4, <1>5, ReleaseKeeps
<1>8. channel # "taken" => Stored(s, w, row, cm)
  BY <1>1, <1>2, <1>4, <1>6, ReleaseStored
<1>9. LET x == Unhold(o, command[c].item)
          y == [command EXCEPT ![c] = Idle]
      IN  /\ Kept(x, w, row, pool, replenish.got, issued, y, player)
          /\ channel # "taken" => Stored(x, w, row, y)
  BY <1>7, <1>8 DEF s
<1> QED
  BY <1>9, FinishKeeps

LEMMA InvParts ==
  ASSUME GroundInv
  PROVE  /\ Kept(own, world, row, pool, replenish.got, issued, command, player)
         /\ channel # "taken" => Stored(own, world, row, command)
         /\ Reserved(own.held, command) /\ Commanded(command, player)
         /\ Members(own) /\ command \in CommandState /\ own \in OwnState
         /\ world \in WorldState /\ row \in RowState
BY DEF GroundInv, Kept, Typed, CommandState

(* The retirement of an item ends.                                         *)
LEMMA ItemSettles ==
  ASSUME GroundInv, NEW i \in Item, command[i] # Idle,
         command' = [command EXCEPT ![i] = Idle],
         own' \in OwnState, world' \in WorldState,
         NEW s, own' = s, NEW w, world' = w,
         Moves(s, w, own, world, i),
         w[i] = "drop" => s.live[i] # Off /\ Scheduled(s, i),
         channel # "taken" => Settled(s, w, row, i),
         shown' \in SUBSET Item, UNCHANGED <<loot, ids, player, row, channel>>
  PROVE  GroundInv'
<1> DEFINE cm == [command EXCEPT ![i] = Idle]
<1>1. i \in Token /\ command \in CommandState
  BY DEF Token, GroundInv, Typed, CommandState
<1>2. /\ Kept(own, world, row, pool, replenish.got, issued, command, player)
      /\ Reserved(own.held, command)
      /\ channel # "taken" => Stored(own, world, row, command)
  BY DEF GroundInv, Kept
<1>3. command[i].item = i
  BY <1>1 DEF GroundInv, Kept, Commanded, Formed
<1> DEFINE k == command[i].item
<1>4. /\ Moves(s, w, own, world, k)
      /\ w[k] = "drop" => s.live[k] # Off /\ Scheduled(s, k)
      /\ channel # "taken" => Settled(s, w, row, k)
  BY <1>3
<1>7. Kept(s, w, row, pool, replenish.got, issued, cm, player)
  BY <1>1, <1>2, <1>4, ReleaseKeeps
<1>8. channel # "taken" => Stored(s, w, row, cm)
  BY <1>1, <1>2, <1>4, ReleaseStored
<1>9. cm \in [Token -> Command \cup {Idle}]
  BY <1>1 DEF CommandState
<1>10. command' = cm
  OBVIOUS
<1> HIDE DEF cm
<1> QED
  BY <1>7, <1>8, <1>9, <1>10 DEF GroundInv, Typed, ids

(* A player's item that is a drop is in the expiry map or in the queue.    *)
LEMMA PlayersTimed ==
  ASSUME GroundInv, NEW c \in Character, command[c] # Idle
  PROVE  world[command[c].item] = "drop" =>
           own.live[command[c].item] # Off /\ Scheduled(own, command[c].item)
<1> DEFINE i == command[c].item
<1>1. i \in Item /\ c \in Token /\ i \in Token /\ i # c
  <2>1. c \in Token
    BY DEF Token
  <2>2. i \in Item
    BY <2>1, ActiveParts
  <2> QED
    BY <2>1, <2>2, Bounds DEF Token
<1>2. command[i] = Idle
  <2>1. command[i] # Idle => command[i].item = i
    BY <1>1 DEF GroundInv, Kept, Commanded, Formed
  <2> HIDE DEF i
  <2>2. Reserved(own.held, command)
    BY DEF GroundInv, Kept
  <2>3. command[i] # Idle => command[i].item # command[c].item
    BY <1>1, <2>2, ItemsDiffer
  <2> QED
    BY <2>1, <2>3 DEF i
<1>3. Timed(own, world, command)
  BY DEF GroundInv, Kept
<1> QED
  BY <1>1, <1>2, <1>3 DEF Timed

LEMMA SettleRefusedStep ==
  ASSUME GroundInv, NEW t \in Token, SettleRefused(t)
  PROVE  GroundInv'
<1> DEFINE i == command[t].item
<1>1. command[t] # Idle /\ ~command[t].stored
  <2>1. command[t] # Idle /\ command[t].at = "refused"
    BY DEF SettleRefused, Active
  <2> QED
    BY <2>1, ActiveParts DEF Formed
<1>2. /\ own \in OwnState /\ world \in WorldState /\ i \in Item /\ Formed(t, command[t])
      /\ t \in Character \/ command[t].kind = "retire"
      /\ command[t].kind \in {"drop", "pickup", "retire"}
      /\ channel # "taken" => InHand(own, world, row, t, command[t])
  BY <1>1, ActiveParts
<1>3. Members(own) /\ shown \in SUBSET Item
  BY DEF GroundInv, Kept, Typed
<1>4. channel # "taken" => Settled(own, world, row, i)
  <2>1. SUFFICES ASSUME channel # "taken" PROVE Settled(own, world, row, i)
    OBVIOUS
  <2>2. InHand(own, world, row, t, command[t])
    BY <1>2, <2>1
  <2>3. CASE command[t].kind = "drop"
    <3>1. t \in Character /\ t # "drop" /\ t # "none"
      BY <1>2, <2>3, Bounds
    <3>2. world[i] = t /\ i \in own.durable \ own.visible /\ row[i] = t
      BY <1>1, <2>2, <2>3 DEF InHand
    <3> QED
      BY <3>1, <3>2 DEF Settled
  <2>4. CASE command[t].kind # "drop"
    <3>1. /\ world[i] = "drop" /\ (i \in own.durable <=> i \notin own.visible)
          /\ row[i] = IF i \in own.visible THEN "none" ELSE "ground"
      BY <1>1, <2>2, <2>4 DEF InHand
    <3> QED
      BY <3>1, Bounds DEF Settled
  <2> QED
    BY <2>3, <2>4
<1>5. /\ Unhold(own, i) \in OwnState /\ SameTimes(Unhold(own, i), own)
      /\ Unhold(own, i).held = own.held \ {i}
      /\ Unhold(own, i).visible = own.visible /\ Unhold(own, i).durable = own.durable
  BY <1>2, UnholdFields
<1>6. CASE t \in Character
  <2>1. Finish(t, own, world) /\ UNCHANGED <<shown, loot, ids, row, channel>>
    BY <1>6 DEF SettleRefused
  <2>2. world[i] = "drop" => own.live[i] # Off /\ Scheduled(own, i)
    BY <1>1, <1>6, PlayersTimed
  <2>3. Moves(Unhold(own, i), world, own, world, i)
    <3>1. Members(Unhold(own, i)) /\ \A j : StaysTimed(Unhold(own, i), own, j)
      BY <1>3, <1>5, SameTimesStay
    <3> QED
      BY <1>5, <3>1 DEF Moves
  <2>4. shown' \in SUBSET Item
    BY <1>3, <2>1
  <2> QED
    BY <1>1, <1>2, <1>4, <1>6, <2>1, <2>2, <2>3, <2>4, InvParts, PlayerSettles
<1>7. CASE t \notin Character
  <2>1. t \in Item /\ i = t
    BY <1>2, <1>7 DEF Token, Formed
  <2> DEFINE u == Unhold(own, t)
             s == RestoreUnretired(u, t)
  <2>2. /\ own' = s /\ command' = [command EXCEPT ![t] = Idle]
        /\ UNCHANGED <<world, player, shown, loot, ids, row, channel>>
    BY <1>7 DEF SettleRefused
  <2>3. /\ u \in OwnState /\ SameTimes(u, own) /\ u.held = own.held \ {t}
        /\ u.visible = own.visible /\ u.durable = own.durable
    BY <1>5, <2>1
  <2> HIDE DEF u
  <2>4. IsRestored(s, u, t)
    BY <2>1, <2>3, RestoreFields
  <2> HIDE DEF s
  <2>5. /\ s \in OwnState /\ s.held = own.held \ {t}
        /\ s.visible = own.visible /\ s.durable = own.durable
    BY <2>3, <2>4 DEF IsRestored, SameFlags
  <2>6. Moves(s, world, own, world, t)
    <3>1. Members(u) /\ \A j : StaysTimed(u, own, j)
      BY <1>3, <2>3, SameTimesStay
    <3>2. Members(s)
      BY <2>4, <3>1 DEF IsRestored, Members
    <3>3. \A j \in Item : j # t => StaysTimed(s, own, j)
      BY <2>4, <3>1 DEF IsRestored, StaysTimed
    <3> QED
      BY <2>5, <3>2, <3>3 DEF Moves
  <2>7. world[t] = "drop" => s.live[t] # Off /\ Scheduled(s, t)
    <3>1. world[t] = "drop" => own.live[t] # Off
      BY <2>1 DEF GroundInv, Kept, Timed
    <3>2. u.live = own.live
      BY <2>3 DEF SameTimes
    <3> QED
      BY <2>4, <3>1, <3>2 DEF IsRestored
  <2>8. channel # "taken" => Settled(s, world, row, t)
    BY <1>4, <2>1, <2>5 DEF Settled
  <2>9. own' \in OwnState /\ world' = world /\ world' \in WorldState /\ shown' \in SUBSET Item
    BY <1>2, <1>3, <2>2, <2>5
  <2> QED
    BY <1>1, <2>1, <2>2, <2>6, <2>7, <2>8, <2>9, ItemSettles
<1> QED
  BY <1>6, <1>7

LEMMA SettleRetiredStep ==
  ASSUME GroundInv, NEW i \in Item, SettleRetired(i)
  PROVE  GroundInv'
<1> DEFINE u == Unhold(own, i)
           f == Forget(u, i)
           s == [f EXCEPT !.durable = @ \ {i}, !.visible = @ \ {i}]
           w == [world EXCEPT ![i] = IF @ = "drop" THEN "none" ELSE @]
<1>1. /\ i \in Token /\ command[i] # Idle /\ command[i].at = "done"
      /\ own' = s /\ world' = w /\ command' = [command EXCEPT ![i] = Idle]
      /\ shown' \subseteq shown /\ UNCHANGED <<loot, ids, player, row, channel>>
  BY DEF SettleRetired, Active, Token
<1>2. /\ own \in OwnState /\ world \in WorldState /\ Formed(i, command[i])
      /\ channel # "taken" => InHand(own, world, row, i, command[i])
  BY <1>1, ActiveParts
<1>3. command[i].stored /\ command[i].kind = "retire" /\ command[i].item = i
  BY <1>1, <1>2 DEF Formed
<1>4. /\ u \in OwnState /\ SameTimes(u, own) /\ u.held = own.held \ {i}
      /\ u.visible = own.visible /\ u.durable = own.durable
  BY <1>2, UnholdFields
<1> HIDE DEF u
<1>5. IsCleared(s, u, i, u.visible \ {i}, u.durable \ {i})
  BY <1>4, RetiredFields
<1>6. /\ w \in WorldState /\ \A j \in Item : j # i => w[j] = world[j]
      /\ w[i] = IF world[i] = "drop" THEN "none" ELSE world[i]
  BY <1>2 DEF WorldState
<1> HIDE DEF s, w
<1>7. Moves(s, w, own, world, i)
  <2>1. Members(u) /\ \A j : StaysTimed(u, own, j)
    BY <1>4, SameTimesStay DEF GroundInv, Kept
  <2>2. Members(s)
    BY <1>5, <2>1 DEF IsCleared, Members
  <2>3. \A j \in Item : j # i => StaysTimed(s, own, j)
    BY <1>5, <2>1 DEF IsCleared, StaysTimed
  <2>4. \A j \in Item : j # i =>
          (j \in s.visible <=> j \in own.visible) /\ (j \in s.durable <=> j \in own.durable)
    BY <1>4, <1>5 DEF IsCleared
  <2>5. s.held = own.held \ {i}
    BY <1>4, <1>5 DEF IsCleared
  <2> QED
    BY <1>6, <2>2, <2>3, <2>4, <2>5 DEF Moves
<1>8. w[i] # "drop"
  BY <1>6
<1>9. channel # "taken" => Settled(s, w, row, i)
  <2>1. SUFFICES ASSUME channel # "taken" PROVE Settled(s, w, row, i)
    OBVIOUS
  <2>2. world[i] = "drop" /\ row[i] = "retired"
    BY <1>2, <1>3, <2>1 DEF InHand
  <2>3. i \notin s.visible /\ i \notin s.durable
    BY <1>5 DEF IsCleared
  <2> QED
    BY <1>6, <2>2, <2>3, Bounds DEF Settled
<1>10. s \in OwnState /\ shown' \in SUBSET Item
  BY <1>1, <1>5 DEF IsCleared, GroundInv, Typed
<1> QED
  BY <1>1, <1>6, <1>7, <1>8, <1>9, <1>10, ItemSettles

LEMMA SettleDroppedStep ==
  ASSUME GroundInv, NEW c \in Character, SettleDropped(c)
  PROVE  GroundInv'
<1> DEFINE i == command[c].item
           s == Track(own, i, "drop", c)
           w == [world EXCEPT ![i] = "drop"]
<1>1. /\ c \in Token /\ command[c] # Idle /\ command[c].at = "done" /\ command[c].kind = "drop"
      /\ Finish(c, s, w) /\ shown' = shown \cup {i}
      /\ UNCHANGED <<loot, ids, row, channel>>
  BY DEF SettleDropped, Active, Token
<1>2. /\ own \in OwnState /\ world \in WorldState /\ i \in Item /\ Formed(c, command[c])
      /\ channel # "taken" => InHand(own, world, row, c, command[c])
  BY <1>1, ActiveParts
<1>3. command[c].stored
  BY <1>1, <1>2 DEF Formed
<1>11. command[c].item = i
  OBVIOUS
<1> HIDE DEF i
<1>4. IsTracked(s, own, i)
  BY <1>2, TrackFields
<1>5. w \in WorldState /\ w[i] = "drop" /\ \A j \in Item : j # i => w[j] = world[j]
  BY <1>2 DEF WorldState
<1> HIDE DEF s, w
<1>6. s \in OwnState /\ s.live[i] # Off /\ Scheduled(s, i) /\ SameFlags(s, own)
  BY <1>4 DEF IsTracked
<1>7. Moves(Unhold(s, i), w, own, world, i)
  <2> DEFINE u == Unhold(s, i)
  <2>1. /\ SameTimes(u, s) /\ u.held = s.held \ {i}
        /\ u.visible = s.visible /\ u.durable = s.durable
    BY <1>6, UnholdFields
  <2> HIDE DEF u
  <2>2. Members(s)
    BY <1>4 DEF IsTracked, GroundInv, Kept, Members
  <2>3. Members(u) /\ \A j : StaysTimed(u, s, j)
    BY <2>1, <2>2, SameTimesStay
  <2>4. \A j \in Item : j # i => StaysTimed(u, own, j)
    BY <1>4, <2>3 DEF IsTracked, StaysTimed
  <2>5. Moves(u, w, own, world, i)
    BY <1>5, <1>6, <2>1, <2>3, <2>4 DEF Moves, SameFlags
  <2> QED
    BY <2>5 DEF u
<1>8. channel # "taken" => Settled(s, w, row, i)
  <2>1. SUFFICES ASSUME channel # "taken" PROVE Settled(s, w, row, i)
    OBVIOUS
  <2>2. i \in own.durable \ own.visible /\ row[i] = "ground"
    BY <1>1, <1>2, <1>3, <1>11, <2>1 DEF InHand
  <2> QED
    BY <1>5, <1>6, <2>2, Bounds DEF Settled, SameFlags
<1>9. shown' \in SUBSET Item
  BY <1>1, <1>2 DEF GroundInv, Typed
<1> QED
  BY <1>1, <1>5, <1>6, <1>7, <1>8, <1>9, <1>11, InvParts, PlayerSettles

LEMMA SettlePickedStep ==
  ASSUME GroundInv, NEW c \in Character, SettlePicked(c)
  PROVE  GroundInv'
<1> DEFINE i == command[c].item
           s == NotePicked(own, i)
           w == [world EXCEPT ![i] = c]
<1>1. /\ c \in Token /\ command[c] # Idle /\ command[c].at = "done" /\ command[c].kind = "pickup"
      /\ Finish(c, s, w) /\ shown' \subseteq shown
      /\ UNCHANGED <<loot, ids, row, channel>>
  BY DEF SettlePicked, Active, Token
<1>2. /\ own \in OwnState /\ world \in WorldState /\ i \in Item /\ Formed(c, command[c])
      /\ channel # "taken" => InHand(own, world, row, c, command[c])
  BY <1>1, ActiveParts
<1>3. command[c].stored
  BY <1>1, <1>2 DEF Formed
<1>11. command[c].item = i
  OBVIOUS
<1> HIDE DEF i
<1>4. IsCleared(s, own, i, own.visible \ {i}, own.durable \cup {i})
  BY <1>2, NotePickedFields
<1>5. w \in WorldState /\ w[i] = c /\ \A j \in Item : j # i => w[j] = world[j]
  BY <1>2 DEF WorldState
<1> HIDE DEF s, w
<1>6. /\ s \in OwnState /\ s.held = own.held
      /\ \A j : j # i => (j \in s.visible <=> j \in own.visible) /\ (j \in s.durable <=> j \in own.durable)
  BY <1>4 DEF IsCleared
<1>7. Moves(Unhold(s, i), w, own, world, i)
  <2> DEFINE u == Unhold(s, i)
  <2>1. /\ SameTimes(u, s) /\ u.held = s.held \ {i}
        /\ u.visible = s.visible /\ u.durable = s.durable
    BY <1>6, UnholdFields
  <2> HIDE DEF u
  <2>2. Members(s)
    BY <1>4 DEF IsCleared, GroundInv, Kept, Members
  <2>3. Members(u) /\ \A j : StaysTimed(u, s, j)
    BY <2>1, <2>2, SameTimesStay
  <2>4. \A j \in Item : j # i => StaysTimed(u, own, j)
    BY <1>4, <2>3 DEF IsCleared, StaysTimed
  <2>5. Moves(u, w, own, world, i)
    BY <1>5, <1>6, <2>1, <2>3, <2>4 DEF Moves
  <2> QED
    BY <2>5 DEF u
<1>8. channel # "taken" => Settled(s, w, row, i)
  <2>1. SUFFICES ASSUME channel # "taken" PROVE Settled(s, w, row, i)
    OBVIOUS
  <2>2. row[i] = c
    BY <1>1, <1>2, <1>3, <1>11, <2>1 DEF InHand
  <2>3. i \in s.durable \ s.visible
    BY <1>4 DEF IsCleared
  <2> QED
    BY <1>5, <2>2, <2>3, Bounds DEF Settled
<1>9. shown' \in SUBSET Item /\ w[i] # "drop"
  BY <1>1, <1>5, Bounds DEF GroundInv, Typed
<1> QED
  BY <1>1, <1>5, <1>6, <1>7, <1>8, <1>9, <1>11, InvParts, PlayerSettles

(***************************************************************************)
(* The live character c is replaced by the stored one.                     *)
(***************************************************************************)

Removed(c) == [own EXCEPT !.durable = @ \ {j \in Item : world[j] = c}]
Carrying(c) == [j \in Item |-> IF row[j] = c THEN c ELSE Cleared(world, c)[j]]
Returned(c) == [Removed(c) EXCEPT !.durable = @ \cup ItemsOf(c)]

LEMMA RemovedFields ==
  ASSUME own \in OwnState, NEW c
  PROVE  LET s == Removed(c)
         IN  /\ s \in OwnState /\ SameTimes(s, own)
             /\ s.held = own.held /\ s.visible = own.visible
             /\ \A j \in Item : j \in s.durable <=> j \in own.durable /\ world[j] # c
             /\ s.durable \subseteq own.durable
<1> DEFINE d == own.durable \ {j \in Item : world[j] = c}
<1>1. d \in SUBSET Item
  BY DEF OwnState
<1>2. Removed(c) = [own EXCEPT !.durable = d]
  BY DEF Removed, OwnState
<1>3. /\ \A j \in Item : j \in d <=> j \in own.durable /\ world[j] # c
      /\ d \subseteq own.durable
  OBVIOUS
<1> HIDE DEF d
<1>4. LET s == [own EXCEPT !.durable = d]
      IN  /\ s \in OwnState /\ SameTimes(s, own) /\ s.durable = d
          /\ s.visible = own.visible /\ s.held = own.held
  BY <1>1, DurableFields
<1> QED
  BY <1>2, <1>3, <1>4

(* With the rows of c, and with e besides.                                 *)
IsReturned(s, c, e) ==
  /\ s \in OwnState /\ SameTimes(s, own)
  /\ s.held = own.held /\ s.visible = own.visible
  /\ \A j \in Item : j \in s.durable <=>
       (j \in own.durable /\ world[j] # c) \/ row[j] = c \/ j \in e

LEMMA ReturnedFields ==
  ASSUME own \in OwnState, NEW c, NEW e \in SUBSET Item
  PROVE  /\ IsReturned(Returned(c), c, {})
         /\ IsReturned([Returned(c) EXCEPT !.durable = @ \cup e], c, e)
<1> DEFINE k == Removed(c)
           d == k.durable \cup ItemsOf(c)
           x == Returned(c)
           y == [x EXCEPT !.durable = x.durable \cup e]
<1>1. /\ k \in OwnState /\ SameTimes(k, own)
      /\ k.held = own.held /\ k.visible = own.visible
      /\ \A j \in Item : j \in k.durable <=> j \in own.durable /\ world[j] # c
  BY RemovedFields
<1>2. x = [k EXCEPT !.durable = d]
  BY DEF Returned
<1>3. d \in SUBSET Item /\ \A j \in Item : j \in d <=> j \in k.durable \/ row[j] = c
  BY <1>1 DEF OwnState, ItemsOf
<1> HIDE DEF k, d, x
<1>4. /\ x \in OwnState /\ SameTimes(x, k) /\ x.held = k.held /\ x.visible = k.visible
      /\ x.durable = d
  BY <1>1, <1>2, <1>3, DurableFields
<1>5. IsReturned(x, c, {})
  BY <1>1, <1>3, <1>4 DEF IsReturned, SameTimes
<1>6. x.durable \cup e \in SUBSET Item
  BY <1>4 DEF OwnState
<1>7. /\ y \in OwnState /\ SameTimes(y, x) /\ y.held = x.held /\ y.visible = x.visible
      /\ y.durable = x.durable \cup e
  BY <1>4, <1>6, DurableFields
<1>8. [Returned(c) EXCEPT !.durable = @ \cup e] = y
  BY DEF x
<1> HIDE DEF y
<1>9. IsReturned(y, c, e)
  BY <1>5, <1>7 DEF IsReturned, SameTimes
<1> QED
  BY <1>5, <1>8, <1>9 DEF x

LEMMA CarryingParts ==
  ASSUME world \in WorldState, NEW c \in Character
  PROVE  /\ Carrying(c) \in WorldState
         /\ \A j \in Item : row[j] = c => Carrying(c)[j] = c
         /\ \A j \in Item : row[j] # c /\ world[j] # c => Carrying(c)[j] = world[j]
         /\ \A j \in Item : Carrying(c)[j] = "drop" => world[j] = "drop"
<1> DEFINE x == Cleared(world, c)
           y == Carrying(c)
<1>1. /\ x \in WorldState
      /\ \A j \in Item : world[j] # c => x[j] = world[j]
      /\ \A j \in Item : x[j] = "drop" <=> world[j] = "drop"
  BY ClearedParts
<1>2. y \in WorldState /\ \A j \in Item : y[j] = IF row[j] = c THEN c ELSE x[j]
  <2>1. y = [j \in Item |-> IF row[j] = c THEN c ELSE x[j]]
    BY DEF Carrying
  <2> HIDE DEF x, y
  <2> QED
    BY <1>1, <2>1 DEF WorldState
<1> HIDE DEF x, y
<1>3. /\ \A j \in Item : row[j] = c => y[j] = c
      /\ \A j \in Item : row[j] # c /\ world[j] # c => y[j] = world[j]
  BY <1>1, <1>2
<1>4. \A j \in Item : y[j] = "drop" => world[j] = "drop"
  BY <1>1, <1>2, Bounds
<1> QED
  BY <1>2, <1>3, <1>4 DEF y

(* Whose item a row is: nobody else's command is about it.                 *)
LEMMA RowOfPlayer ==
  ASSUME GroundInv, channel # "taken", NEW c \in Character, NEW j \in Item, row[j] = c
  PROVE  /\ j \notin own.held => world[j] \in {c, "none"} /\ j \notin own.visible
         /\ \A t \in Token : command[t] # Idle /\ command[t].item = j => t = c
<1>1. c \notin {"none", "drop", "ground", "retired"} /\ "none" \notin Character /\ "drop" \notin Character
  BY Bounds
<1>2. j \notin own.held => world[j] \in {c, "none"} /\ j \notin own.visible
  <2>1. SUFFICES ASSUME j \notin own.held PROVE world[j] \in {c, "none"} /\ j \notin own.visible
    OBVIOUS
  <2>2. Settled(own, world, row, j) /\ world[j] \in Character \cup {"none", "drop"}
    BY <2>1, InvParts DEF Stored, WorldState
  <2>3. world[j] # "drop"
    BY <1>1, <2>2 DEF Settled
  <2> QED
    BY <1>1, <2>2, <2>3 DEF Settled
<1>3. ASSUME NEW t \in Token, command[t] # Idle, command[t].item = j PROVE t = c
  <2>1. InHand(own, world, row, t, command[t]) /\ command[t].stored \in BOOLEAN
    BY <1>3, ActiveParts
  <2>2. CASE command[t].kind = "drop"
    BY <1>1, <1>3, <2>1, <2>2 DEF InHand
  <2>3. CASE command[t].kind # "drop"
    BY <1>1, <1>3, <2>1, <2>3 DEF InHand
  <2> QED
    BY <2>2, <2>3
<1> QED
  BY <1>2, <1>3

LEMMA StuckStep ==
  ASSUME GroundInv, NEW c \in Character, Reconcile(c),
         NEW k \in ItemsOf(c), Cleared(world, c)[k] # "none",
         own' = Removed(c), world' = Cleared(world, c), Answer(c, "stuck"),
         UNCHANGED <<shown, player>>
  PROVE  GroundInv'
<1> DEFINE i == command[c].item
           m == [command[c] EXCEPT !.at = "stuck"]
           cm == [command EXCEPT ![c] = m]
           s == Removed(c)
           v == Cleared(world, c)
<1>1. /\ c \in Token /\ command[c] # Idle /\ command[c].at = "reconcile"
      /\ UNCHANGED <<loot, ids, row, channel>>
  BY DEF Reconcile, Active, Token
<1>2. /\ command \in CommandState /\ own \in OwnState /\ world \in WorldState /\ row \in RowState
      /\ command[c] \in Command /\ i \in Item /\ Formed(c, command[c])
      /\ command[c].kind \in {"drop", "pickup", "retire"}
      /\ channel # "taken" => InHand(own, world, row, c, command[c])
  BY <1>1, ActiveParts
<1>3. command[c].stored /\ command[c].kind # "retire"
  BY <1>1, <1>2, Bounds DEF Formed
<1>4. command' = cm
  BY <1>1, <1>2 DEF Answer, CommandState
<1>5. /\ m \in Command /\ m.kind = command[c].kind /\ m.item = i
      /\ m.reserved = command[c].reserved /\ m.stored = command[c].stored /\ m.at = "stuck"
  BY <1>2, AnswerFields DEF Place
<1> HIDE DEF m
<1>6. Formed(c, m)
  BY <1>2, <1>3, <1>5 DEF Formed
<1>7. /\ s \in OwnState /\ SameTimes(s, own)
      /\ s.held = own.held /\ s.visible = own.visible
      /\ \A j \in Item : j \in s.durable <=> j \in own.durable /\ world[j] # c
      /\ s.durable \subseteq own.durable
  BY <1>2, RemovedFields
<1>8. /\ v \in WorldState
      /\ \A j \in Item : world[j] = c => v[j] = "none"
      /\ \A j \in Item : world[j] # c => v[j] = world[j]
      /\ \A j \in Item : v[j] = "drop" <=> world[j] = "drop"
  BY <1>2, ClearedParts
<1>9. own' = s /\ world' = v /\ v[k] # "none" /\ row[k] = c /\ k \in Item
  BY DEF ItemsOf
<1> HIDE DEF s, v
<1>10. Kept(s, v, row, pool, replenish.got, issued, command, player)
  <2>1. Members(s) /\ \A j : StaysTimed(s, own, j)
    BY <1>7, InvParts, SameTimesStay
  <2>2. \A j \in Item : Unknown(own, world, row, j) => Unknown(s, v, row, j)
    BY <1>7, <1>8, Bounds DEF Unknown
  <2>3. Advances(s, v, row, own, world, row)
    BY <1>7, <1>8, <2>1, <2>2 DEF Advances
  <2> QED
    BY <2>3, InvParts, KeptStays
<1>11. Kept(s, v, row, pool, replenish.got, issued, cm, player)
  BY <1>1, <1>2, <1>5, <1>6, <1>10, AnswerKeeps
<1>12. channel # "taken" => Stored(s, v, row, cm)
  <2>1. SUFFICES ASSUME channel # "taken" PROVE Stored(s, v, row, cm)
    OBVIOUS
  <2>2. command[c].kind = "pickup"
    <3>1. SUFFICES ASSUME command[c].kind = "drop" PROVE FALSE
      BY <1>2, <1>3
    <3>2. row[i] = "ground"
      BY <1>2, <1>3, <2>1, <3>1 DEF InHand
    <3>3. world[k] # c /\ world[k] # "none"
      BY <1>8, <1>9
    <3>4. k \in own.held
      BY <1>9, <2>1, <3>3, RowOfPlayer
    <3>5. PICK t \in Token : command[t] # Idle /\ command[t].item = k
      BY <3>4, InvParts DEF Reserved
    <3>6. t = c
      BY <1>9, <2>1, <3>5, RowOfPlayer
    <3>7. k = i
      BY <3>5, <3>6
    <3> QED
      BY <1>9, <3>2, <3>7, Bounds
  <2>3. Vacated(s, v, own, world, c)
    BY <1>7, <1>8 DEF Vacated
  <2>4. Stored(s, v, row, command)
    <3>1. command[c] # Idle => command[c].kind = "pickup"
      BY <2>2
    <3> QED
      BY <1>2, <2>1, <2>3, <3>1, InvParts, VacatedStored
  <2>5. InHand(s, v, row, c, m)
    <3>1. InHand(s, v, row, c, command[c])
      BY <1>1, <2>4 DEF Stored
    <3> QED
      BY <1>5, <3>1 DEF InHand
  <2>6. Reserved(s.held, command)
    BY <1>7, InvParts
  <2>7. \A j \in Item : j # m.item => row[j] = row[j]
    OBVIOUS
  <2> QED
    BY <1>1, <1>2, <1>5, <2>4, <2>5, <2>6, <2>7, AnswerStored
<1>13. cm \in [Token -> Command \cup {Idle}]
  BY <1>1, <1>2, <1>5 DEF CommandState
<1> HIDE DEF cm
<1> QED
  BY <1>1, <1>4, <1>7, <1>8, <1>9, <1>11, <1>12, <1>13 DEF GroundInv, Typed, ids

(* The stored character, before its command is over: i is where it was.    *)
LEMMA ReturnedKeeps ==
  ASSUME GroundInv, NEW c \in Character, command[c] # Idle,
         NEW e, e \subseteq {command[c].item}, NEW s, IsReturned(s, c, e),
         NEW v, \A j \in Item : v[j] = Carrying(c)[j] \/ (j = command[c].item /\ v[j] = world[j])
  PROVE  Kept(s, v, row, pool, replenish.got, issued, command, player)
<1>1. c \in Token /\ own \in OwnState /\ world \in WorldState
  BY InvParts DEF Token
<1>2. command[c].item \in own.held
  BY <1>1, ActiveParts
<1>3. /\ \A j \in Item : row[j] # c /\ world[j] # c => Carrying(c)[j] = world[j]
      /\ \A j \in Item : Carrying(c)[j] = "drop" => world[j] = "drop"
  BY <1>1, CarryingParts
<1>4. Members(s) /\ \A j : StaysTimed(s, own, j)
  BY InvParts, SameTimesStay DEF IsReturned
<1>5. ASSUME NEW j \in Item, Unknown(own, world, row, j) PROVE Unknown(s, v, row, j)
  <2>1. j # command[c].item /\ row[j] # c /\ world[j] # c /\ j \notin e
    BY <1>2, <1>5, Bounds DEF Unknown
  <2> QED
    BY <1>3, <1>5, <2>1 DEF Unknown, IsReturned
<1>6. \A j \in Item : v[j] = "drop" => world[j] = "drop"
  BY <1>3
<1>7. Advances(s, v, row, own, world, row)
  BY <1>4, <1>5, <1>6 DEF Advances, IsReturned
<1> QED
  BY <1>7, InvParts, KeptStays

LEMMA ReturnedStored ==
  ASSUME GroundInv, channel # "taken", NEW c \in Character, command[c] # Idle,
         command[c].kind = "drop", command[c].stored,
         NEW s, IsReturned(s, c, {command[c].item}),
         NEW v, \A j \in Item : j # command[c].item => v[j] = Carrying(c)[j],
         v[command[c].item] = world[command[c].item]
  PROVE  Stored(s, v, row, command)
<1> DEFINE i == command[c].item
<1>1. c \in Token /\ own \in OwnState /\ world \in WorldState /\ command \in CommandState
  BY InvParts DEF Token
<1>2. i \in Item /\ i \in own.held /\ InHand(own, world, row, c, command[c])
  BY <1>1, ActiveParts
<1>3. /\ \A j \in Item : row[j] = c => Carrying(c)[j] = c
      /\ \A j \in Item : row[j] # c /\ world[j] # c => Carrying(c)[j] = world[j]
  BY <1>1, CarryingParts
<1>4. Stored(own, world, row, command)
  BY InvParts
<1>5. c \notin {"none", "drop", "ground", "retired"} /\ "none" \notin Character /\ "drop" \notin Character
  BY Bounds
<1>6. ASSUME NEW j \in Item, j \notin s.held PROVE Settled(s, v, row, j)
  <2>1. j \notin own.held /\ j # i /\ Settled(own, world, row, j)
    BY <1>2, <1>4, <1>6 DEF IsReturned, Stored
  <2>2. v[j] = Carrying(c)[j]
    BY <2>1
  <2>3. CASE row[j] = c
    <3>1. v[j] = c /\ j \in s.durable
      BY <1>3, <2>2, <2>3 DEF IsReturned
    <3>2. j \notin s.visible
      BY <2>1, <2>3, RowOfPlayer DEF IsReturned
    <3> QED
      BY <1>5, <2>3, <3>1, <3>2 DEF Settled
  <2>4. CASE row[j] # c
    <3>1. world[j] # c
      BY <2>1, <2>4 DEF Settled
    <3>2. v[j] = world[j]
      BY <1>3, <2>2, <2>4, <3>1
    <3>3. (j \in s.durable <=> j \in own.durable) /\ (j \in s.visible <=> j \in own.visible)
      BY <2>1, <2>4, <3>1 DEF IsReturned
    <3> QED
      BY <2>1, <3>2, <3>3 DEF Settled
  <2> QED
    BY <2>3, <2>4
<1>7. ASSUME NEW t \in Token, command[t] # Idle, t # c PROVE InHand(s, v, row, t, command[t])
  <2> DEFINE j == command[t].item
  <2>1. j \in Item /\ InHand(own, world, row, t, command[t])
        /\ (t \in Character \/ command[t].kind = "retire")
    BY <1>7, ActiveParts
  <2>2. j # i
    BY <1>1, <1>7, InvParts, ItemsDiffer
  <2>3. row[j] # c
    BY <1>7, <2>1, RowOfPlayer
  <2>4. world[j] # c
    BY <1>5, <1>7, <2>1 DEF InHand
  <2>5. v[j] = world[j]
    BY <1>3, <2>1, <2>2, <2>3, <2>4
  <2>6. (j \in s.durable <=> j \in own.durable) /\ (j \in s.visible <=> j \in own.visible)
    BY <2>1, <2>2, <2>3, <2>4 DEF IsReturned
  <2> QED
    BY <2>1, <2>5, <2>6 DEF InHand
<1>8. InHand(s, v, row, c, command[c])
  <2>1. i \in s.durable /\ i \notin s.visible
    BY <1>2 DEF IsReturned, InHand
  <2> QED
    BY <1>2, <2>1 DEF InHand
<1> QED
  BY <1>6, <1>7, <1>8 DEF Stored

LEMMA ReturnedDropStep ==
  ASSUME GroundInv, NEW c \in Character, command[c] # Idle, command[c].at = "reconcile",
         command[c].kind = "drop",
         LET i == command[c].item
         IN  /\ Finish(c, Track([Returned(c) EXCEPT !.durable = @ \cup {i}], i, "drop", c),
                       [Carrying(c) EXCEPT ![i] = "drop"])
             /\ shown' = shown \cup {i},
         UNCHANGED <<loot, ids, row, channel>>
  PROVE  GroundInv'
<1> DEFINE i == command[c].item
           b == [Returned(c) EXCEPT !.durable = @ \cup {i}]
           v == [j \in Item |-> IF j = i THEN world[i] ELSE Carrying(c)[j]]
           s == Track(b, i, "drop", c)
           w == [Carrying(c) EXCEPT ![i] = "drop"]
<1>1. /\ c \in Token /\ own \in OwnState /\ world \in WorldState
      /\ i \in Item /\ i \in own.held /\ Formed(c, command[c])
      /\ channel # "taken" => InHand(own, world, row, c, command[c])
  <2>1. c \in Token
    BY DEF Token
  <2> QED
    BY <2>1, ActiveParts
<1>2. command[c].stored
  BY <1>1 DEF Formed
<1>3. command[c].item = i /\ shown' = shown \cup {i} /\ Finish(c, s, w)
  OBVIOUS
<1>4. {i} \in SUBSET Item /\ {i} \subseteq {command[c].item}
  BY <1>1
<1> HIDE DEF i
<1>5. IsReturned(b, c, {i})
  BY <1>1, <1>4, ReturnedFields
<1>6. Carrying(c) \in WorldState
  BY <1>1, CarryingParts
<1>7. v[i] = world[i] /\ \A j \in Item : j # i => v[j] = Carrying(c)[j]
  BY <1>1
<1>8. w \in WorldState /\ w[i] = "drop" /\ \A j \in Item : j # i => w[j] = Carrying(c)[j]
  BY <1>1, <1>6 DEF WorldState
<1> HIDE DEF b, v, w
<1>9. b \in OwnState /\ b.held = own.held /\ b.visible = own.visible /\ i \in b.durable
  BY <1>1, <1>5 DEF IsReturned
<1>10. IsTracked(s, b, i)
  BY <1>1, <1>9, TrackFields
<1> HIDE DEF s
<1>11. s \in OwnState /\ s.live[i] # Off /\ Scheduled(s, i) /\ SameFlags(s, b)
  BY <1>10 DEF IsTracked
<1>12. Kept(b, v, row, pool, replenish.got, issued, command, player)
  <2>1. \A j \in Item : v[j] = Carrying(c)[j] \/ (j = command[c].item /\ v[j] = world[j])
    BY <1>3, <1>7
  <2> QED
    BY <1>3, <1>4, <1>5, <2>1, ReturnedKeeps
<1>13. channel # "taken" => Stored(b, v, row, command)
  BY <1>2, <1>3, <1>5, <1>7, ReturnedStored
<1>14. Moves(Unhold(s, i), w, b, v, i)
  <2> DEFINE u == Unhold(s, i)
  <2>1. /\ SameTimes(u, s) /\ u.held = s.held \ {i}
        /\ u.visible = s.visible /\ u.durable = s.durable
    BY <1>11, UnholdFields
  <2> HIDE DEF u
  <2>2. Members(s)
    BY <1>10, <1>12 DEF IsTracked, Kept, Members
  <2>3. Members(u) /\ \A j : StaysTimed(u, s, j)
    BY <2>1, <2>2, SameTimesStay
  <2>4. \A j \in Item : j # i => StaysTimed(u, b, j)
    BY <1>10, <2>3 DEF IsTracked, StaysTimed
  <2>5. Moves(u, w, b, v, i)
    BY <1>7, <1>8, <1>11, <2>1, <2>3, <2>4 DEF Moves, SameFlags
  <2> QED
    BY <2>5 DEF u
<1>15. channel # "taken" => Settled(s, w, row, i)
  <2>1. SUFFICES ASSUME channel # "taken" PROVE Settled(s, w, row, i)
    OBVIOUS
  <2>2. i \notin own.visible /\ row[i] = "ground"
    BY <1>1, <1>2, <1>3, <2>1 DEF InHand
  <2>3. i \in s.durable /\ i \notin s.visible
    BY <1>9, <1>11, <2>2 DEF SameFlags
  <2> QED
    BY <1>8, <2>2, <2>3, Bounds DEF Settled
<1>16. shown' \in SUBSET Item
  BY <1>1, <1>3 DEF GroundInv, Typed
<1> QED
  BY <1>3, <1>8, <1>11, <1>12, <1>13, <1>14, <1>15, <1>16, PlayerSettles

(* A pickup cannot be reconciled that way before the channel is taken: the *)
(* item is still a drop in World and already the player's in the database. *)
LEMMA ReturnedPickupStep ==
  ASSUME GroundInv, NEW c \in Character, command[c] # Idle, command[c].at = "reconcile",
         command[c].kind = "pickup", \A j \in ItemsOf(c) : Cleared(world, c)[j] = "none",
         Finish(c, Returned(c), Carrying(c)),
         UNCHANGED <<shown, loot, ids, row, channel>>
  PROVE  GroundInv'
<1> DEFINE i == command[c].item
           s == Returned(c)
           w == Carrying(c)
<1>1. /\ c \in Token /\ own \in OwnState /\ world \in WorldState
      /\ i \in Item /\ i \in own.held /\ Formed(c, command[c])
      /\ channel # "taken" => InHand(own, world, row, c, command[c])
  <2>1. c \in Token
    BY DEF Token
  <2> QED
    BY <2>1, ActiveParts
<1>2. command[c].stored
  BY <1>1 DEF Formed
<1>3. channel = "taken"
  <2>1. SUFFICES ASSUME channel # "taken" PROVE FALSE
    OBVIOUS
  <2>2. world[i] = "drop" /\ row[i] = c
    BY <1>1, <1>2, <2>1 DEF InHand
  <2>3. Cleared(world, c)[i] = "drop"
    BY <1>1, <2>2, ClearedParts
  <2> QED
    BY <1>1, <2>2, <2>3 DEF ItemsOf
<1>4. IsReturned(s, c, {})
  BY <1>1, ReturnedFields
<1>5. w \in WorldState /\ \A j \in Item : w[j] = "drop" => world[j] = "drop"
  BY <1>1, CarryingParts
<1>6. Kept(s, w, row, pool, replenish.got, issued, command, player)
  BY <1>4, ReturnedKeeps
<1>7. world[i] = "drop" => own.live[i] # Off /\ Scheduled(own, i)
  BY PlayersTimed
<1>17. i = command[c].item
  OBVIOUS
<1> HIDE DEF s, w, i
<1>8. w[i] = "drop" => s.live[i] # Off /\ Scheduled(s, i)
  BY <1>1, <1>4, <1>5, <1>7 DEF IsReturned, SameTimes, Scheduled
<1>9. Moves(Unhold(s, i), w, s, w, i)
  <2> DEFINE u == Unhold(s, i)
  <2>1. /\ SameTimes(u, s) /\ u.held = s.held \ {i}
        /\ u.visible = s.visible /\ u.durable = s.durable
    BY <1>4, UnholdFields DEF IsReturned
  <2> HIDE DEF u
  <2>2. Members(s)
    BY <1>6 DEF Kept
  <2>3. Members(u) /\ \A j : StaysTimed(u, s, j)
    BY <2>1, <2>2, SameTimesStay
  <2>4. Moves(u, w, s, w, i)
    BY <2>1, <2>3 DEF Moves
  <2> QED
    BY <2>4 DEF u
<1>10. shown' \in SUBSET Item /\ s \in OwnState /\ Finish(c, s, w)
  BY <1>4 DEF GroundInv, Typed, IsReturned, s, w
<1> QED
  BY <1>3, <1>5, <1>6, <1>8, <1>9, <1>10, <1>17, PlayerSettles

LEMMA ReconcileStep ==
  ASSUME GroundInv, NEW c \in Character, Reconcile(c)
  PROVE  GroundInv'
<1> DEFINE i == command[c].item
<1>1. /\ c \in Token /\ command[c] # Idle /\ command[c].at = "reconcile"
      /\ UNCHANGED <<loot, ids, row, channel>>
  BY DEF Reconcile, Active, Token
<1>2. CASE /\ \E j \in ItemsOf(c) : Cleared(world, c)[j] # "none"
           /\ own' = Removed(c) /\ world' = Cleared(world, c)
           /\ Answer(c, "stuck")
           /\ UNCHANGED <<shown, player>>
  <2>1. PICK k \in ItemsOf(c) : Cleared(world, c)[k] # "none"
    BY <1>2
  <2> QED
    BY <1>2, <2>1, StuckStep
<1>3. CASE /\ \A j \in ItemsOf(c) : Cleared(world, c)[j] = "none"
           /\ command[c].kind = "drop"
           /\ Finish(c, Track([Returned(c) EXCEPT !.durable = @ \cup {i}], i, "drop", c),
                     [Carrying(c) EXCEPT ![i] = "drop"])
           /\ shown' = shown \cup {i}
  BY <1>1, <1>3, ReturnedDropStep
<1>4. CASE /\ \A j \in ItemsOf(c) : Cleared(world, c)[j] = "none"
           /\ command[c].kind # "drop"
           /\ Finish(c, Returned(c), Carrying(c)) /\ UNCHANGED shown
  <2>1. command[c].kind = "pickup"
    <3>1. Formed(c, command[c]) /\ command[c].kind \in {"drop", "pickup", "retire"}
      BY <1>1, ActiveParts
    <3> QED
      BY <1>4, <3>1, Bounds DEF Formed
  <2> QED
    BY <1>1, <1>4, <2>1, ReturnedPickupStep
<1>5. Reconcile(c) =>
        \/ /\ \E j \in ItemsOf(c) : Cleared(world, c)[j] # "none"
           /\ own' = Removed(c) /\ world' = Cleared(world, c)
           /\ Answer(c, "stuck")
           /\ UNCHANGED <<shown, player>>
        \/ /\ \A j \in ItemsOf(c) : Cleared(world, c)[j] = "none"
           /\ IF command[c].kind = "drop"
              THEN /\ Finish(c, Track([Returned(c) EXCEPT !.durable = @ \cup {i}], i, "drop", c),
                             [Carrying(c) EXCEPT ![i] = "drop"])
                   /\ shown' = shown \cup {i}
              ELSE Finish(c, Returned(c), Carrying(c)) /\ UNCHANGED shown
  BY DEF Reconcile, Removed, Returned, Carrying
<1> QED
  BY <1>2, <1>3, <1>4, <1>5

(***************************************************************************)
(* Item ids.                                                               *)
(***************************************************************************)

LEMMA FreshShrinks ==
  ASSUME NEW o, NEW w, NEW r, NEW p, NEW g, NEW n, NEW cmd, NEW pl,
         Kept(o, w, r, p, g, n, cmd, pl), NEW q, NEW h, Distinct(q),
         Range(q) \cup Range(h) \subseteq Range(p) \cup Range(g), Range(q) \cap Range(h) = {}
  PROVE  Kept(o, w, r, q, h, n, cmd, pl)
BY DEF Kept, FreshIds

LEMMA EmptyRange == Range(<<>>) = {} /\ \A S : <<>> \in Seq(S)
BY DEF Range

LEMMA IdTypes ==
  ASSUME GroundInv
  PROVE  /\ pool \in Seq(Item) /\ Distinct(pool) /\ replenish.got \in Seq(Item)
         /\ Range(pool) \cap Range(replenish.got) = {}
         /\ issued \in 0 .. MaxItem /\ loot \in Seq(Plan) /\ Len(loot) <= MaxPlans
<1>1. replenish \in [at : {"idle", "asked", "answered"}, got : Seq(Item)]
  BY DEF GroundInv, Typed
<1>2. replenish.got \in Seq(Item)
  BY <1>1
<1> QED
  BY <1>2 DEF GroundInv, Typed, Kept, FreshIds

LEMMA AskIdsStep ==
  ASSUME GroundInv, AskIds
  PROVE  GroundInv'
<1> DEFINE a == [at |-> "asked", got |-> <<>>]
<1>1. /\ replenish' = a
      /\ UNCHANGED <<own, world, shown, loot, pool, command, player, row, issued, channel>>
  BY DEF AskIds
<1>2. a \in [at : {"idle", "asked", "answered"}, got : Seq(Item)] /\ a.got = <<>>
  BY EmptyRange
<1> HIDE DEF a
<1>3. Kept(own, world, row, pool, a.got, issued, command, player)
  BY <1>2, EmptyRange, IdTypes, InvParts, FreshShrinks
<1> QED
  BY <1>1, <1>2, <1>3 DEF GroundInv, Typed

LEMMA InstallIdsStep ==
  ASSUME GroundInv, InstallIds
  PROVE  GroundInv'
<1> DEFINE a == [at |-> "idle", got |-> <<>>]
<1>1. /\ replenish' = a /\ pool' = Installed
      /\ UNCHANGED <<own, world, shown, loot, command, player, row, issued, channel>>
  BY DEF InstallIds
<1>2. a \in [at : {"idle", "asked", "answered"}, got : Seq(Item)] /\ a.got = <<>>
  BY EmptyRange
<1> HIDE DEF a
<1>3. /\ Installed \in Seq(Item) /\ Distinct(Installed)
      /\ Range(Installed) \subseteq Range(pool) \cup Range(replenish.got)
  BY IdTypes, InstalledParts
<1>4. Kept(own, world, row, Installed, a.got, issued, command, player)
  BY <1>2, <1>3, EmptyRange, InvParts, FreshShrinks
<1> QED
  BY <1>1, <1>2, <1>3, <1>4 DEF GroundInv, Typed

LEMMA ReserveIdsStep ==
  ASSUME GroundInv, ReserveIds
  PROVE  GroundInv'
<1>1. /\ UNCHANGED <<own, world, shown, loot, pool, command, player, row, channel>>
      /\ issued \in Nat /\ issued <= MaxItem
  BY IdTypes, Bounds DEF ReserveIds
<1> SUFFICES ASSUME NEW a \in [at : {"idle", "asked", "answered"}, got : Seq(Item)],
                    replenish' = a, issued' \in 0 .. MaxItem, NEW n, issued' = n,
                    Kept(own, world, row, pool, a.got, n, command, player)
             PROVE  GroundInv'
  <2>1. CASE replenish' = [at |-> "answered", got |-> <<>>] /\ UNCHANGED issued
    <3> DEFINE a == [at |-> "answered", got |-> <<>>]
    <3>1. a \in [at : {"idle", "asked", "answered"}, got : Seq(Item)] /\ a.got = <<>>
      BY EmptyRange
    <3>2. Kept(own, world, row, pool, a.got, issued, command, player)
      BY <3>1, EmptyRange, IdTypes, InvParts, FreshShrinks
    <3> QED
      BY <2>1, <3>1, <3>2, IdTypes
  <2>2. ASSUME issued + ReserveBatch <= MaxItem, issued' = issued + ReserveBatch,
               NEW got \in {<<>>, [k \in 1 .. ReserveBatch |-> issued + k]},
               replenish' = [at |-> "answered", got |-> got]
        PROVE  GroundInv'
    <3> DEFINE a == [at |-> "answered", got |-> got]
               n == issued + ReserveBatch
    <3>1. n \in 0 .. MaxItem /\ n >= issued
      BY <1>1, <2>2, Bounds
    <3>2. got \in Seq(Item) /\ \A x \in Range(got) : x \in Item /\ x > issued /\ x <= n
      <4>1. CASE got = <<>>
        BY <4>1, EmptyRange
      <4>2. CASE got = [k \in 1 .. ReserveBatch |-> issued + k]
        <5>1. \A k \in 1 .. ReserveBatch : issued + k \in Item /\ issued + k > issued /\ issued + k <= n
          BY <1>1, <2>2, Bounds DEF Item
        <5>2. got \in Seq(Item)
          BY <4>2, <5>1, Bounds
        <5>3. Range(got) = {issued + k : k \in 1 .. ReserveBatch}
          BY <4>2 DEF Range
        <5> QED
          BY <5>1, <5>2, <5>3
      <4> QED
        BY <4>1, <4>2
    <3>3. a \in [at : {"idle", "asked", "answered"}, got : Seq(Item)] /\ a.got = got
      BY <3>2
    <3>4. FreshIds(own, world, row, pool, got, n)
      <4>1. FreshIds(own, world, row, pool, replenish.got, issued)
        BY InvParts DEF Kept
      <4>2. \A x \in Range(pool) : x \in Item /\ x <= issued
        BY <4>1, IdTypes, RangeParts DEF FreshIds
      <4>3. \A x \in Item : x > n => x > issued
        BY <1>1, <3>1, ItemIsNumber
      <4>4. \A x \in Item : x <= issued => x <= n
        BY <1>1, <3>1, ItemIsNumber
      <4>5. \A x \in Item : ~(x <= issued /\ x > issued)
        BY <1>1, ItemIsNumber
      <4> HIDE DEF n
      <4> QED
        BY <3>2, <4>1, <4>2, <4>3, <4>4, <4>5 DEF FreshIds
    <3>5. Kept(own, world, row, pool, a.got, n, command, player)
      BY <3>3, <3>4, InvParts DEF Kept
    <3> HIDE DEF a
    <3>6. replenish' = a /\ issued' = n
      BY <2>2 DEF a
    <3> QED
      BY <3>1, <3>3, <3>5, <3>6
  <2> QED
    BY <2>1, <2>2 DEF ReserveIds
<1> QED
  BY <1>1 DEF GroundInv, Typed

(***************************************************************************)
(* Loot.                                                                   *)
(***************************************************************************)

LEMMA FlushStep ==
  ASSUME GroundInv, NEW plans \in Seq(Plan), Len(plans) <= MaxPlans, Flush(plans),
         UNCHANGED <<replenish, command, player, row, issued, channel>>
  PROVE  GroundInv'
<1>1. CASE channel # "live"
  <2>1. loot' = <<>> /\ UNCHANGED <<own, world, shown, pool>>
    BY <1>1 DEF Flush
  <2>2. <<>> \in Seq(Plan) /\ Len(<<>>) <= MaxPlans
    BY Bounds
  <2> QED
    BY <2>1, <2>2 DEF GroundInv, Typed
<1>2. CASE channel = "live"
  <2> DEFINE f == Flushed(plans)
             w == [i \in Item |-> IF i \in f.new THEN "drop" ELSE world[i]]
             s == f.own
  <2>1. /\ loot' = f.loot /\ pool' = f.pool /\ own' = s
        /\ world' = w /\ shown' = shown \cup f.new
    BY <1>2 DEF Flush
  <2>2. IsFlushed(f, own, pool, Len(plans))
    BY IdTypes, InvParts, FlushedParts
  <2> HIDE DEF f
  <2>3. /\ w \in WorldState
        /\ \A i \in f.new : i \in Item => w[i] = "drop"
        /\ \A i \in Item : i \notin f.new => w[i] = world[i]
    BY InvParts DEF WorldState
  <2> HIDE DEF w, s
  <2>4. /\ f.pool \in Seq(Item) /\ f.loot \in Seq(Plan) /\ f.own \in OwnState
        /\ f.new \in SUBSET Item
    BY <2>2 DEF IsFlushed, FlushState
  <2>5. /\ s = f.own /\ s.held = own.held /\ s.durable = own.durable
        /\ s.visible = own.visible \cup f.new
    BY <2>2 DEF IsFlushed, s
  <2>6. FreshIds(own, world, row, pool, replenish.got, issued)
    BY InvParts DEF Kept
  <2>7. \A i \in f.new : Unknown(own, world, row, i) /\ i \in Range(pool) /\ i <= issued
    BY <2>2, <2>4, <2>6 DEF FreshIds, IsFlushed
  <2>8. FreshIds(s, w, row, f.pool, replenish.got, issued)
    <3>1. ASSUME NEW j \in Item,
                 j > issued \/ j \in Range(f.pool) \/ j \in Range(replenish.got)
          PROVE  Unknown(s, w, row, j)
      <4>1. j \notin f.new
        <5>1. j \in Range(f.pool) => j \notin f.new
          BY <2>2 DEF IsFlushed
        <5>2. j > issued => ~(j <= issued)
          BY IdTypes, ItemIsNumber
        <5>3. j \in Range(replenish.got) => j \notin Range(pool)
          BY <2>6 DEF FreshIds
        <5> QED
          BY <2>7, <3>1, <5>1, <5>2, <5>3
      <4>2. Unknown(own, world, row, j)
        BY <2>2, <2>6, <3>1 DEF FreshIds, IsFlushed
      <4> QED
        BY <2>3, <2>5, <4>1, <4>2 DEF Unknown
    <3>2. Range(f.pool) \subseteq Range(pool) /\ Distinct(f.pool)
      BY <2>2 DEF IsFlushed
    <3> QED
      BY <2>6, <3>1, <3>2 DEF FreshIds
  <2>9. Timed(s, w, command)
    <3>1. ASSUME NEW j \in Item, w[j] = "drop"
          PROVE  s.live[j] # Off /\ (Scheduled(s, j) \/ command[j] # Idle)
      <4>1. CASE j \in f.new
        BY <2>2, <2>5, <4>1 DEF IsFlushed
      <4>2. CASE j \notin f.new
        <5>1. world[j] = "drop" /\ StaysTimed(s, own, j)
          BY <2>2, <2>3, <2>5, <3>1, <4>2 DEF IsFlushed
        <5> QED
          BY <5>1, InvParts DEF Kept, Timed, StaysTimed
      <4> QED
        BY <4>1, <4>2
    <3> QED
      BY <3>1 DEF Timed
  <2>10. Kept(s, w, row, f.pool, replenish.got, issued, command, player)
    <3>1. Members(s)
      BY <2>2, <2>5 DEF IsFlushed
    <3> QED
      BY <2>5, <2>8, <2>9, <3>1, InvParts DEF Kept
  <2>11. Stored(s, w, row, command)
    <3>1. Stored(own, world, row, command)
      BY <1>2, InvParts
    <3>2. ASSUME NEW j \in Item, j \notin s.held PROVE Settled(s, w, row, j)
      <4>1. CASE j \in f.new
        <5>1. w[j] = "drop" /\ row[j] = "none" /\ j \in s.visible /\ j \notin s.durable
          BY <2>3, <2>5, <2>7, <4>1 DEF Unknown
        <5> QED
          BY <5>1, Bounds DEF Settled
      <4>2. CASE j \notin f.new
        <5>1. Settled(own, world, row, j)
          BY <2>5, <3>1, <3>2 DEF Stored
        <5>2. w[j] = world[j] /\ (j \in s.visible <=> j \in own.visible) /\ s.durable = own.durable
          BY <2>3, <2>5, <4>2
        <5> QED
          BY <5>1, <5>2 DEF Settled
      <4> QED
        BY <4>1, <4>2
    <3>3. ASSUME NEW t \in Token, command[t] # Idle PROVE InHand(s, w, row, t, command[t])
      <4> DEFINE j == command[t].item
      <4>1. InHand(own, world, row, t, command[t]) /\ j \in Item /\ j \in own.held
        BY <3>1, <3>3, ActiveParts DEF Stored
      <4>2. j \notin f.new
        BY <2>7, <4>1 DEF Unknown
      <4>3. w[j] = world[j] /\ (j \in s.visible <=> j \in own.visible) /\ s.durable = own.durable
        BY <2>3, <2>5, <4>1, <4>2
      <4> QED
        BY <4>1, <4>3 DEF InHand
    <3> QED
      BY <3>2, <3>3 DEF Stored
  <2>12. Len(f.loot) <= MaxPlans
    <3>1. Len(f.loot) <= Len(plans) /\ Len(f.loot) \in Nat /\ Len(plans) \in Nat
      BY <2>2, <2>4 DEF IsFlushed
    <3> QED
      BY <3>1, Bounds
  <2>13. shown' \in SUBSET Item
    BY <2>1, <2>4 DEF GroundInv, Typed
  <2> QED
    BY <1>2, <2>1, <2>3, <2>4, <2>5, <2>10, <2>11, <2>12, <2>13 DEF GroundInv, Typed
<1> QED
  BY <1>1, <1>2

LEMMA FlushLootStep ==
  ASSUME GroundInv, FlushLoot
  PROVE  GroundInv'
BY IdTypes, FlushStep DEF FlushLoot

LEMMA KillStep ==
  ASSUME GroundInv, NEW c \in Character, Kill(c)
  PROVE  GroundInv'
<1>1. PICK n \in 1 .. MaxRoll : Flush(Append(loot, [killer |-> c, left |-> n]))
  BY DEF Kill
<1> DEFINE x == [killer |-> c, left |-> n]
           plans == Append(loot, x)
<1>2. x \in Plan
  BY DEF Plan
<1> HIDE DEF x
<1>3. plans \in Seq(Plan) /\ Len(plans) = Len(loot) + 1 /\ Len(loot) \in Nat
  BY <1>2, IdTypes, AppendParts
<1> HIDE DEF plans
<1>4. Len(plans) <= MaxPlans
  BY <1>3, Bounds DEF Kill
<1>5. Flush(plans) /\ UNCHANGED <<replenish, command, player, row, issued, channel>>
  BY <1>1 DEF Kill, plans, x
<1> QED
  BY <1>3, <1>4, <1>5, FlushStep

(***************************************************************************)
(* Players.                                                                *)
(***************************************************************************)

LEMMA PlayerTypes ==
  ASSUME GroundInv
  PROVE  /\ player \in [Character -> {"away", "here", "leaving"}]
         /\ DOMAIN player = Character
         /\ \A c \in Character : c \in Token /\ c \notin Item
BY Bounds DEF GroundInv, Typed, Token

LEMMA EnterStep ==
  ASSUME GroundInv, NEW c \in Character, Enter(c)
  PROVE  GroundInv'
<1> DEFINE pm == [player EXCEPT ![c] = "here"]
           w == [i \in Item |-> IF row[i] = c THEN c ELSE world[i]]
           d == own.durable \cup ItemsOf(c)
           s == [own EXCEPT !.durable = d]
<1>1. /\ player' = pm /\ world' = w /\ own' = s /\ channel = "live"
      /\ UNCHANGED <<shown, loot, ids, command, row, channel>>
      /\ \A i \in Item : row[i] = c => world[i] = "none"
  BY InvParts DEF Enter, ItemsOf, OwnState
<1>2. command[c] = Idle
  BY PlayerTypes, InvParts DEF Enter, Commanded
<1>3. /\ w \in WorldState
      /\ \A j \in Item : row[j] = c => w[j] = c
      /\ \A j \in Item : row[j] # c => w[j] = world[j]
  BY InvParts DEF WorldState
<1>4. d \in SUBSET Item /\ \A j \in Item : j \in d <=> j \in own.durable \/ row[j] = c
  BY InvParts DEF OwnState, ItemsOf
<1> HIDE DEF w, d
<1>5. /\ s \in OwnState /\ SameTimes(s, own) /\ s.durable = d
      /\ s.visible = own.visible /\ s.held = own.held
  BY <1>4, InvParts, DurableFields
<1>6. pm \in [Character -> {"away", "here", "leaving"}] /\ \A x \in Character : x # c => pm[x] = player[x]
  BY PlayerTypes
<1>13. pm[c] = "here"
  BY PlayerTypes
<1> HIDE DEF s, pm
<1>7. Members(s) /\ \A j : StaysTimed(s, own, j)
  BY <1>5, InvParts, SameTimesStay
<1>8. Kept(s, w, row, pool, replenish.got, issued, command, player)
  <2>1. \A j \in Item : Unknown(own, world, row, j) => Unknown(s, w, row, j)
    BY <1>3, <1>4, <1>5, Bounds DEF Unknown
  <2>2. \A j \in Item : w[j] = "drop" => world[j] = "drop"
    BY <1>3, Bounds
  <2>3. Advances(s, w, row, own, world, row)
    BY <1>5, <1>7, <2>1, <2>2 DEF Advances
  <2> QED
    BY <2>3, InvParts, KeptStays
<1>9. Commanded(command, pm)
  <2>1. \A x \in Character : command[x] # Idle => pm[x] # "away"
    BY <1>2, <1>6, InvParts, PlayerTypes DEF Commanded
  <2> QED
    BY <2>1, InvParts DEF Commanded
<1>10. Kept(s, w, row, pool, replenish.got, issued, command, pm)
  BY <1>8, <1>9 DEF Kept
<1>11. Stored(s, w, row, command)
  <2>1. channel # "taken" /\ Stored(own, world, row, command)
    BY <1>1, InvParts
  <2>2. ASSUME NEW j \in Item, j \notin s.held PROVE Settled(s, w, row, j)
    <3>1. Settled(own, world, row, j)
      BY <1>5, <2>1, <2>2 DEF Stored
    <3>2. CASE row[j] = c
      <4>1. w[j] = c /\ j \in s.durable /\ j \notin s.visible
        BY <1>1, <1>3, <1>4, <1>5, <3>1, <3>2 DEF Settled
      <4> QED
        BY <3>2, <4>1, Bounds DEF Settled
    <3>3. CASE row[j] # c
      <4>1. w[j] = world[j] /\ (j \in s.durable <=> j \in own.durable) /\ s.visible = own.visible
        BY <1>3, <1>4, <1>5, <3>3
      <4> QED
        BY <3>1, <4>1 DEF Settled
    <3> QED
      BY <3>2, <3>3
  <2>3. ASSUME NEW t \in Token, command[t] # Idle PROVE InHand(s, w, row, t, command[t])
    <3> DEFINE j == command[t].item
    <3>1. InHand(own, world, row, t, command[t]) /\ j \in Item
      BY <2>1, <2>3, ActiveParts
    <3>2. row[j] # c
      <4>1. t # c
        BY <1>2, <2>3
      <4> QED
        BY <2>1, <2>3, <3>1, <4>1, RowOfPlayer
    <3>3. w[j] = world[j] /\ (j \in s.durable <=> j \in own.durable) /\ s.visible = own.visible
      BY <1>3, <1>4, <1>5, <3>1, <3>2
    <3> QED
      BY <3>1, <3>3 DEF InHand
  <2> QED
    BY <2>2, <2>3 DEF Stored
<1> QED
  BY <1>1, <1>3, <1>5, <1>6, <1>10, <1>11 DEF GroundInv, Typed, ids

LEMMA LeaveStep ==
  ASSUME GroundInv, NEW c \in Character, Leave(c)
  PROVE  GroundInv'
<1>1. UNCHANGED <<shown, loot, ids, command, row, channel>>
  BY DEF Leave
<1>2. CASE Active(c)
  <2> DEFINE pm == [player EXCEPT ![c] = "leaving"]
  <2>1. player' = pm /\ UNCHANGED <<own, world>>
    BY <1>2 DEF Leave
  <2>2. /\ pm \in [Character -> {"away", "here", "leaving"}] /\ pm[c] = "leaving"
        /\ \A x \in Character : x # c => pm[x] = player[x]
    BY PlayerTypes
  <2> HIDE DEF pm
  <2>3. Commanded(command, pm)
    <3>1. \A x \in Character : command[x] # Idle => pm[x] # "away"
      BY <2>2, InvParts, PlayerTypes DEF Commanded
    <3> QED
      BY <3>1, InvParts DEF Commanded
  <2>4. Kept(own, world, row, pool, replenish.got, issued, command, pm)
    BY <2>3, InvParts DEF Kept
  <2> QED
    BY <1>1, <2>1, <2>2, <2>4 DEF GroundInv, Typed, ids
<1>3. CASE ~Active(c)
  <2> DEFINE v == Cleared(world, c)
             s == Registered(own, v)
             pm == [player EXCEPT ![c] = "away"]
  <2>1. player' = pm /\ world' = v /\ own' = s /\ command[c] = Idle
    BY <1>3 DEF Leave, Active
  <2>2. s \in OwnState /\ v \in WorldState /\ pm \in [Character -> {"away", "here", "leaving"}]
    BY InvParts, ClearedParts, RegisteredFields, PlayerTypes
  <2>3. Kept(s, v, row, pool, replenish.got, issued, command, pm)
    BY <2>1, InvParts, PlayerTypes, GoneKeeps
  <2>4. channel # "taken" => Stored(s, v, row, command)
    BY <2>1, InvParts, GoneStored
  <2> HIDE DEF s, v, pm
  <2> QED
    BY <1>1, <2>1, <2>2, <2>3, <2>4 DEF GroundInv, Typed, ids
<1> QED
  BY <1>2, <1>3

LEMMA StageStep ==
  ASSUME GroundInv, NEW c \in Character, NEW i \in Item, NEW kind \in {"drop", "pickup"},
         Stage(c, kind, i),
         kind = "drop" => world[i] = c, kind = "pickup" => world[i] = "drop"
  PROVE  GroundInv'
<1> DEFINE m == [kind |-> kind, item |-> i, stored |-> FALSE, at |-> "outbound",
                 reserved |-> kind = "pickup" /\ i \in own.visible]
           cm == [command EXCEPT ![c] = m]
           h == own.held \cup {i}
           s == [own EXCEPT !.held = h]
<1>1. /\ player[c] = "here" /\ command[c] = Idle /\ channel = "live" /\ i \notin own.held
      /\ command' = cm
      /\ UNCHANGED <<world, shown, loot, ids, player, row, channel>>
  BY DEF Stage, Active
<1>2. own' = s
  BY DEF Stage
<1>3. c \in Token /\ c \notin Item /\ command \in CommandState /\ own \in OwnState
  BY PlayerTypes, InvParts
<1>4. /\ m \in Command /\ m.kind = kind /\ m.item = i /\ m.stored = FALSE /\ m.at = "outbound"
      /\ m.reserved <=> kind = "pickup" /\ i \in own.visible
  BY DEF Command
<1> HIDE DEF m
<1>5. /\ cm[c] = m /\ m # Idle /\ \A t \in Token : t # c => cm[t] = command[t]
      /\ cm \in [Token -> Command \cup {Idle}]
  BY <1>3, <1>4, IdleIsIdle DEF CommandState
<1>6. h \in SUBSET Item /\ h = own.held \cup {i}
  BY <1>3 DEF OwnState
<1> HIDE DEF cm, h
<1>7. /\ s \in OwnState /\ SameTimes(s, own) /\ s.held = h
      /\ s.durable = own.durable /\ s.visible = own.visible
  BY <1>3, <1>6, HeldFields
<1> HIDE DEF s
<1>8. FreshIds(s, world, row, pool, replenish.got, issued)
  <2>1. world[i] # "none"
    BY Bounds
  <2>2. \A j \in Item : Unknown(own, world, row, j) => Unknown(s, world, row, j)
    BY <1>6, <1>7, <2>1 DEF Unknown
  <2> QED
    BY <2>2, InvParts DEF Kept, FreshIds
<1>9. Commanded(cm, player)
  <2>1. Formed(c, m)
    BY <1>3, <1>4 DEF Formed
  <2> QED
    BY <1>1, <1>5, <2>1, InvParts DEF Commanded
<1>10. Reserved(s.held, cm)
  <2>1. \A t \in Token : cm[t] # Idle => cm[t].item \in s.held
    BY <1>4, <1>5, <1>6, <1>7, InvParts DEF Reserved
  <2>2. ASSUME NEW j \in s.held PROVE \E t \in Token : cm[t] # Idle /\ cm[t].item = j
    <3>1. CASE j = i
      BY <1>3, <1>4, <1>5, <3>1
    <3>2. CASE j # i
      <4>1. j \in own.held
        BY <1>6, <1>7, <3>2
      <4>2. PICK t \in Token : command[t] # Idle /\ command[t].item = j
        BY <4>1, InvParts DEF Reserved
      <4>3. t # c
        BY <1>1, <4>2
      <4> QED
        BY <1>5, <4>2, <4>3
    <3> QED
      BY <3>1, <3>2
  <2>3. \A t \in Token : t # c /\ cm[t] # Idle => cm[t].item # i
    BY <1>1, <1>5, InvParts DEF Reserved
  <2>4. ASSUME NEW t \in Token, NEW x \in Token, cm[t] # Idle, cm[x] # Idle,
               cm[t].item = cm[x].item
        PROVE  t = x
    <3>1. CASE t = c \/ x = c
      BY <1>4, <1>5, <2>3, <2>4, <3>1
    <3>2. CASE t # c /\ x # c
      BY <1>5, <2>4, <3>2, InvParts DEF Reserved
    <3> QED
      BY <3>1, <3>2
  <2> QED
    BY <2>1, <2>2, <2>4 DEF Reserved
<1>11. Timed(s, world, cm) /\ Members(s)
  <2>1. \A j \in Item : cm[j] = command[j]
    BY <1>3, <1>5 DEF Token
  <2>2. Members(s) /\ \A j : StaysTimed(s, own, j)
    BY <1>7, InvParts, SameTimesStay
  <2>3. Timed(own, world, command)
    BY InvParts DEF Kept
  <2> QED
    BY <2>1, <2>2, <2>3 DEF Timed, StaysTimed
<1>12. Kept(s, world, row, pool, replenish.got, issued, cm, player)
  BY <1>8, <1>9, <1>10, <1>11 DEF Kept
<1>13. Stored(s, world, row, cm)
  <2>1. Stored(own, world, row, command)
    BY <1>1, InvParts
  <2>2. ASSUME NEW j \in Item, j \notin s.held PROVE Settled(s, world, row, j)
    <3>1. Settled(own, world, row, j)
      BY <1>6, <1>7, <2>1, <2>2 DEF Stored
    <3> QED
      BY <1>7, <3>1 DEF Settled
  <2>3. ASSUME NEW t \in Token, cm[t] # Idle, t # c PROVE InHand(s, world, row, t, cm[t])
    <3>1. cm[t] = command[t] /\ InHand(own, world, row, t, command[t])
      BY <1>5, <2>1, <2>3 DEF Stored
    <3> QED
      BY <1>7, <3>1 DEF InHand
  <2>4. InHand(s, world, row, c, m)
    <3>1. Settled(own, world, row, i)
      BY <1>1, <2>1 DEF Stored
    <3>2. CASE kind = "drop"
      <4>1. world[i] = c /\ row[i] = c /\ i \in own.durable \ own.visible
        BY <3>1, <3>2 DEF Settled
      <4> QED
        BY <1>4, <1>7, <3>2, <4>1 DEF InHand
    <3>3. CASE kind = "pickup"
      <4>1. /\ world[i] = "drop" /\ (i \in own.durable <=> i \notin own.visible)
            /\ row[i] = IF i \in own.visible THEN "none" ELSE "ground"
        BY <3>1, <3>3 DEF Settled
      <4>2. m.reserved <=> i \in own.visible
        BY <1>4, <3>3
      <4> QED
        BY <1>4, <1>7, <3>3, <4>1, <4>2 DEF InHand
    <3> QED
      BY <3>2, <3>3
  <2> QED
    BY <1>5, <2>2, <2>3, <2>4 DEF Stored
<1> QED
  BY <1>1, <1>2, <1>5, <1>7, <1>12, <1>13 DEF GroundInv, Typed, ids

LEMMA StageDropStep ==
  ASSUME GroundInv, NEW c \in Character, NEW i \in Item, StageDrop(c, i)
  PROVE  GroundInv'
BY StageStep DEF StageDrop

LEMMA StagePickupStep ==
  ASSUME GroundInv, NEW c \in Character, NEW i \in Item, StagePickup(c, i)
  PROVE  GroundInv'
BY StageStep DEF StagePickup

(***************************************************************************)
(* The wake, time, and the channel.                                        *)
(***************************************************************************)

LEMMA ChannelEndsStep ==
  ASSUME GroundInv, ChannelEnds
  PROVE  GroundInv'
<1>1. /\ UNCHANGED <<own, world, shown, loot, ids, command, player, row>>
      /\ channel = "live" /\ channel' = "ended"
  BY DEF ChannelEnds
<1> QED
  BY <1>1 DEF GroundInv, Typed, ids

LEMMA TakeOverStep ==
  ASSUME GroundInv, TakeOver
  PROVE  GroundInv'
<1> DEFINE q == [i \in Item |-> IF row[i] = "ground" THEN "retired" ELSE row[i]]
<1>1. /\ UNCHANGED <<own, world, shown, loot, ids, command, player>>
      /\ channel' = "taken" /\ row' = q
  BY DEF TakeOver
<1>2. /\ q \in RowState /\ \A j \in Item : q[j] # "ground"
      /\ \A j \in Item : row[j] = "none" => q[j] = "none"
  BY InvParts DEF RowState
<1> HIDE DEF q
<1>3. Kept(own, world, q, pool, replenish.got, issued, command, player)
  <2>1. Advances(own, world, q, own, world, row)
    BY <1>2, InvParts DEF Advances, Unknown, StaysTimed
  <2> QED
    BY <2>1, InvParts, KeptStays
<1> QED
  BY <1>1, <1>2, <1>3 DEF GroundInv, Typed, ids, RowState

LEMMA LaterParts == \A n \in 0 .. Lifetime : Later(n) \in 0 .. Lifetime
BY Bounds DEF Later

LEMMA AgedParts ==
  ASSUME NEW a \in Live
  PROVE  Aged(a) \in Live /\ Aged(a) # Off /\ Aged(a).due = Later(a.due)
<1> DEFINE age == IF a.age < Window THEN a.age + 1 ELSE a.age
           due == Later(a.due)
           b == [a EXCEPT !.due = due]
           k == [b EXCEPT !.age = age]
<1>1. Aged(a) = k
  BY DEF Aged, Live
<1>2. age \in 0 .. Window /\ due \in 0 .. Lifetime
  <2>1. a.age \in 0 .. Window /\ a.due \in 0 .. Lifetime
    BY DEF Live
  <2>2. \A n \in 0 .. Window : (IF n < Window THEN n + 1 ELSE n) \in 0 .. Window
    BY Bounds
  <2> QED
    BY <2>1, <2>2, LaterParts
<1> HIDE DEF age, due
<1>3. b \in Live /\ b.due = due
  BY <1>2 DEF Live
<1> HIDE DEF b
<1>4. k \in Live /\ k.due = due
  BY <1>2, <1>3 DEF Live
<1> HIDE DEF k
<1> QED
  BY <1>1, <1>4, OffIsOff DEF due

LEMMA TickStep ==
  ASSUME GroundInv, Tick
  PROVE  GroundInv'
<1> DEFINE l == [i \in Item |-> IF own.live[i] = Off THEN Off ELSE Aged(own.live[i])]
           e == {<<Later(x[1]), x[2]>> : x \in own.expiry}
           t == [own EXCEPT !.live = l]
           s == [t EXCEPT !.expiry = e]
<1>1. own \in OwnState
  BY InvParts
<1>2. own' = s /\ UNCHANGED <<world, shown, loot, ids, command, player, row, channel>>
  BY <1>1 DEF Tick, OwnState
<1>3. ASSUME NEW i \in Item
      PROVE  /\ l[i] \in Live \cup {Off}
             /\ own.live[i] # Off => l[i] # Off /\ l[i].due = Later(own.live[i].due)
  <2>1. own.live[i] = Off \/ own.live[i] \in Live
    BY <1>1 DEF OwnState
  <2> QED
    BY <2>1, AgedParts
<1>4. l \in [Item -> Live \cup {Off}]
  <2>1. DOMAIN l = Item /\ l = [i \in Item |-> l[i]]
    OBVIOUS
  <2> HIDE DEF l
  <2> QED
    BY <1>3, <2>1
<1>5. e \in SUBSET ((0 .. Lifetime) \X Item)
  <2>1. \A x \in own.expiry : x[1] \in 0 .. Lifetime /\ x[2] \in Item
    BY <1>1 DEF OwnState
  <2> QED
    BY <2>1, LaterParts
<1>6. \A d : \A j : <<d, j>> \in own.expiry => <<Later(d), j>> \in e
  <2>1. ASSUME NEW d, NEW j, <<d, j>> \in own.expiry PROVE <<Later(d), j>> \in e
    <3> DEFINE x == <<d, j>>
    <3>1. x \in own.expiry /\ x[1] = d /\ x[2] = j
      BY <2>1
    <3> HIDE DEF x
    <3>2. <<Later(x[1]), x[2]>> \in e
      BY <3>1
    <3> QED
      BY <3>1, <3>2
  <2> QED
    BY <2>1
<1> HIDE DEF l, e
<1>7. /\ t \in OwnState /\ t.live = l /\ t.member = own.member /\ t.deferred = own.deferred
      /\ SameFlags(t, own)
  BY <1>1, <1>4 DEF OwnState, SameFlags
<1> HIDE DEF t
<1>8. /\ s \in OwnState /\ s.live = l /\ s.expiry = e /\ s.member = own.member
      /\ s.deferred = own.deferred /\ SameFlags(s, own)
  BY <1>5, <1>7 DEF OwnState, SameFlags
<1> HIDE DEF s
<1>9. ASSUME NEW j \in Item PROVE StaysTimed(s, own, j)
  <2>1. SUFFICES ASSUME own.live[j] # Off
                 PROVE s.live[j] # Off /\ (Scheduled(own, j) => Scheduled(s, j))
    BY DEF StaysTimed
  <2>2. s.live[j] # Off /\ s.live[j].due = Later(own.live[j].due)
    BY <1>3, <1>8, <2>1
  <2>3. <<own.live[j].due, j>> \in own.expiry => <<Later(own.live[j].due), j>> \in s.expiry
    BY <1>6, <1>8
  <2> QED
    BY <1>8, <2>2, <2>3 DEF Scheduled
<1>10. Members(s)
  BY <1>8, InvParts DEF Members
<1>11. Kept(s, world, row, pool, replenish.got, issued, command, player)
  <2>1. Advances(s, world, row, own, world, row)
    BY <1>8, <1>9, <1>10 DEF Advances, Unknown, SameFlags
  <2> QED
    BY <2>1, InvParts, KeptStays
<1>12. channel # "taken" => Stored(s, world, row, command)
  <2>1. SUFFICES ASSUME channel # "taken" PROVE Stored(s, world, row, command)
    OBVIOUS
  <2>2. Stored(own, world, row, command)
    BY <2>1, InvParts
  <2>3. \A j \in Item : j \notin s.held => Settled(s, world, row, j)
    BY <1>8, <2>2 DEF Stored, Settled, SameFlags
  <2>4. \A x \in Token : command[x] # Idle => InHand(s, world, row, x, command[x])
    BY <1>8, <2>2 DEF Stored, InHand, SameFlags
  <2> QED
    BY <2>3, <2>4 DEF Stored
<1> QED
  BY <1>2, <1>8, <1>11, <1>12 DEF GroundInv, Typed, ids

(* What is submitted: a retirement for what is newly held, and the rest.   *)
Submitted(o, t, due) ==
  IF t \in o.held \ own.held
  THEN [kind |-> "retire", item |-> t, stored |-> FALSE, at |-> "sent",
        reserved |-> t \in own.visible]
  ELSE IF t \in due \/ (Active(t) /\ command[t].at = "outbound")
  THEN [command[t] EXCEPT !.at = "sent"]
  ELSE command[t]

IsSubmitted(k, o, t) ==
  /\ k \in Command \cup {Idle}
  /\ t \in o.held \ own.held =>
       /\ t \in Item /\ command[t] = Idle /\ k # Idle
       /\ k.kind = "retire" /\ k.item = t /\ k.stored = FALSE /\ k.at = "sent"
       /\ k.reserved <=> t \in own.visible
  /\ t \notin o.held \ own.held =>
       /\ k # Idle <=> command[t] # Idle
       /\ k # Idle =>
            /\ k.kind = command[t].kind /\ k.item = command[t].item
            /\ k.reserved = command[t].reserved /\ k.stored = command[t].stored
            /\ k.at = "sent" \/ k.at = command[t].at

LEMMA SubmittedParts ==
  ASSUME GroundInv, NEW o \in OwnState, NEW due \in SUBSET Waiting, NEW t \in Token
  PROVE  IsSubmitted(Submitted(o, t, due), o, t)
<1> DEFINE k == Submitted(o, t, due)
<1>1. command[t] \in Command \cup {Idle}
  BY InvParts DEF CommandState
<1>2. CASE t \in o.held \ own.held
  <2>1. k = [kind |-> "retire", item |-> t, stored |-> FALSE, at |-> "sent",
             reserved |-> t \in own.visible]
    BY <1>2 DEF Submitted
  <2>2. t \in Item
    BY <1>2 DEF OwnState
  <2>3. command[t] = Idle
    <3>1. command[t] # Idle => command[t].item = t /\ command[t].item \in own.held
      BY <2>2, InvParts DEF Commanded, Formed, Reserved
    <3> QED
      BY <1>2, <3>1
  <2> HIDE DEF k
  <2>4. k \in Command
    BY <2>1, <2>2 DEF Command
  <2>5. /\ k.kind = "retire" /\ k.item = t /\ k.stored = FALSE /\ k.at = "sent"
        /\ k.reserved <=> t \in own.visible
    BY <2>1
  <2>6. k # Idle
    BY <2>4, IdleIsIdle
  <2> QED
    BY <1>2, <2>2, <2>3, <2>4, <2>5, <2>6 DEF k, IsSubmitted
<1>3. CASE t \notin o.held \ own.held /\ (t \in due \/ (Active(t) /\ command[t].at = "outbound"))
  <2>1. k = [command[t] EXCEPT !.at = "sent"]
    BY <1>3 DEF Submitted
  <2>2. command[t] # Idle
    BY <1>3 DEF Waiting, Active
  <2>3. command[t] \in Command /\ "sent" \in Place
    BY <1>1, <2>2 DEF Place
  <2> HIDE DEF k
  <2>4. /\ k \in Command /\ k.kind = command[t].kind /\ k.item = command[t].item
        /\ k.reserved = command[t].reserved /\ k.stored = command[t].stored /\ k.at = "sent"
    BY <2>1, <2>3, AnswerFields
  <2>5. k # Idle
    BY <2>4, IdleIsIdle
  <2> QED
    BY <1>3, <2>2, <2>4, <2>5 DEF k, IsSubmitted
<1>4. CASE t \notin o.held \ own.held /\ ~(t \in due \/ (Active(t) /\ command[t].at = "outbound"))
  <2>1. k = command[t]
    BY <1>4 DEF Submitted
  <2> QED
    BY <1>1, <1>4, <2>1 DEF IsSubmitted
<1> QED
  BY <1>2, <1>3, <1>4

LEMMA SubmitKeeps ==
  ASSUME GroundInv, NEW o \in OwnState, Awoken(o, own, world, command),
         NEW cm \in CommandState, NEW due \in SUBSET Waiting,
         \A t \in Token : cm[t] = Submitted(o, t, due)
  PROVE  Kept(o, world, row, pool, replenish.got, issued, cm, player)
<1>0. \A t \in Token : IsSubmitted(cm[t], o, t)
  BY SubmittedParts
<1>1. /\ own.held \subseteq o.held /\ \A i \in o.held : i \notin own.held => world[i] = "drop"
      /\ o.durable = own.durable /\ o.visible \subseteq own.visible /\ Members(o)
      /\ \A i \in Item : world[i] = "drop" =>
           o.live[i] # Off /\ (Scheduled(o, i) \/ command[i] # Idle \/ i \in o.held \ own.held)
  BY DEF Awoken, AwokenBut
<1>2. \A t \in Token : t \in o.held \ own.held =>
        /\ t \in Item /\ command[t] = Idle /\ cm[t] # Idle
        /\ cm[t].kind = "retire" /\ cm[t].item = t /\ cm[t].stored = FALSE /\ cm[t].at = "sent"
  BY <1>0 DEF IsSubmitted
<1>3. \A t \in Token : t \notin o.held \ own.held =>
        /\ cm[t] # Idle <=> command[t] # Idle
        /\ cm[t] # Idle =>
             /\ cm[t].kind = command[t].kind /\ cm[t].item = command[t].item
             /\ cm[t].reserved = command[t].reserved /\ cm[t].stored = command[t].stored
             /\ cm[t].at = "sent" \/ cm[t].at = command[t].at
  BY <1>0 DEF IsSubmitted
<1>4. o.held \subseteq Item /\ Item \subseteq Token
  BY DEF OwnState, Token
<1>5. FreshIds(o, world, row, pool, replenish.got, issued)
  <2>1. \A j \in Item : Unknown(own, world, row, j) => Unknown(o, world, row, j)
    BY <1>1 DEF Unknown
  <2> QED
    BY <2>1, InvParts DEF Kept, FreshIds
<1>6. Commanded(cm, player)
  <2>1. ASSUME NEW t \in Token, cm[t] # Idle
        PROVE  Formed(t, cm[t]) /\ (t \in Character => player[t] # "away")
    <3>1. CASE t \in o.held \ own.held
      <4>1. t \in Item /\ t \notin Character
        BY <1>2, <3>1, PlayerTypes
      <4> QED
        BY <1>2, <3>1, <4>1 DEF Formed
    <3>2. CASE t \notin o.held \ own.held
      <4>1. Formed(t, command[t]) /\ (t \in Character => player[t] # "away")
        BY <1>3, <2>1, <3>2, InvParts DEF Commanded
      <4>2. /\ cm[t].kind = command[t].kind /\ cm[t].item = command[t].item
            /\ cm[t].reserved = command[t].reserved /\ cm[t].stored = command[t].stored
            /\ cm[t].at = "sent" \/ cm[t].at = command[t].at
        BY <1>3, <2>1, <3>2
      <4>3. Formed(t, cm[t])
        BY <4>1, <4>2 DEF Formed
      <4> QED
        BY <4>1, <4>3
    <3> QED
      BY <3>1, <3>2
  <2> QED
    BY <2>1 DEF Commanded
<1>7. Reserved(o.held, cm)
  <2>1. ASSUME NEW t \in Token, cm[t] # Idle
        PROVE  /\ cm[t].item \in o.held
               /\ t \in o.held \ own.held => cm[t].item = t
               /\ t \notin o.held \ own.held =>
                    command[t] # Idle /\ cm[t].item = command[t].item /\ cm[t].item \in own.held
    <3>1. CASE t \in o.held \ own.held
      BY <1>2, <3>1
    <3>2. CASE t \notin o.held \ own.held
      <4>1. command[t] # Idle /\ cm[t].item = command[t].item
        BY <1>3, <2>1, <3>2
      <4> QED
        BY <1>1, <3>2, <4>1, InvParts DEF Reserved
    <3> QED
      BY <3>1, <3>2
  <2>2. ASSUME NEW j \in o.held PROVE \E t \in Token : cm[t] # Idle /\ cm[t].item = j
    <3>1. CASE j \in own.held
      <4>1. PICK t \in Token : command[t] # Idle /\ command[t].item = j
        BY <3>1, InvParts DEF Reserved
      <4>2. t \notin o.held \ own.held
        BY <1>2, <4>1
      <4> QED
        BY <1>3, <4>1, <4>2
    <3>2. CASE j \notin own.held
      <4>1. j \in Token
        BY <1>4
      <4> QED
        BY <1>2, <3>2, <4>1
    <3> QED
      BY <3>1, <3>2
  <2>3. ASSUME NEW t \in Token, NEW x \in Token, cm[t] # Idle, cm[x] # Idle,
               cm[t].item = cm[x].item
        PROVE  t = x
    <3>1. CASE t \in o.held \ own.held
      BY <2>1, <2>3, <3>1
    <3>2. CASE x \in o.held \ own.held
      BY <2>1, <2>3, <3>2
    <3>3. CASE t \notin o.held \ own.held /\ x \notin o.held \ own.held
      <4>1. command[t] # Idle /\ command[x] # Idle /\ command[t].item = command[x].item
        BY <2>1, <2>3, <3>3
      <4> QED
        BY <4>1, InvParts DEF Reserved
    <3> QED
      BY <3>1, <3>2, <3>3
  <2> QED
    BY <2>1, <2>2, <2>3 DEF Reserved
<1>8. Timed(o, world, cm)
  <2>1. ASSUME NEW j \in Item, world[j] = "drop"
        PROVE  o.live[j] # Off /\ (Scheduled(o, j) \/ cm[j] # Idle)
    <3>1. j \in Token
      BY <1>4
    <3> QED
      BY <1>1, <1>2, <1>3, <2>1, <3>1
  <2> QED
    BY <2>1 DEF Timed
<1> QED
  BY <1>1, <1>5, <1>6, <1>7, <1>8 DEF Kept

LEMMA SubmitStored ==
  ASSUME GroundInv, channel # "taken", NEW o \in OwnState, Awoken(o, own, world, command),
         NEW cm \in CommandState, NEW due \in SUBSET Waiting,
         \A t \in Token : cm[t] = Submitted(o, t, due)
  PROVE  Stored(o, world, row, cm)
<1>0. \A t \in Token : IsSubmitted(cm[t], o, t)
  BY SubmittedParts
<1>1. /\ own.held \subseteq o.held /\ \A i \in o.held : i \notin own.held => world[i] = "drop"
      /\ o.durable = own.durable /\ o.visible \subseteq own.visible
      /\ \A i \in own.visible : world[i] = "drop" \/ i \in own.held => i \in o.visible
  BY DEF Awoken, AwokenBut
<1>2. Stored(own, world, row, command)
  BY InvParts
<1>3. ASSUME NEW j \in Item, j \notin o.held PROVE Settled(o, world, row, j)
  <2>1. Settled(own, world, row, j)
    BY <1>1, <1>2, <1>3 DEF Stored
  <2>2. world[j] = "drop" => (j \in o.visible <=> j \in own.visible)
    BY <1>1
  <2>3. j \in o.visible => j \in own.visible
    BY <1>1
  <2> QED
    BY <1>1, <2>1, <2>2, <2>3 DEF Settled
<1>4. ASSUME NEW t \in Token, cm[t] # Idle PROVE InHand(o, world, row, t, cm[t])
  <2>1. CASE t \in o.held \ own.held
    <3>1. /\ t \in Item /\ cm[t].kind = "retire" /\ cm[t].item = t /\ cm[t].stored = FALSE
          /\ cm[t].reserved <=> t \in own.visible
      BY <1>0, <2>1 DEF IsSubmitted
    <3>2. world[t] = "drop" /\ Settled(own, world, row, t)
      BY <1>1, <1>2, <2>1, <3>1 DEF Stored
    <3>3. /\ t \in o.visible <=> t \in own.visible
          /\ t \in o.durable <=> t \notin o.visible
          /\ row[t] = IF t \in o.visible THEN "none" ELSE "ground"
      BY <1>1, <3>2 DEF Settled
    <3>4. cm[t].reserved <=> t \in o.visible
      BY <3>1, <3>3
    <3> QED
      BY <3>1, <3>2, <3>3, <3>4 DEF InHand
  <2>2. CASE t \notin o.held \ own.held
    <3> DEFINE j == command[t].item
    <3>1. /\ command[t] # Idle
          /\ cm[t].kind = command[t].kind /\ cm[t].item = command[t].item
          /\ cm[t].reserved = command[t].reserved /\ cm[t].stored = command[t].stored
      BY <1>0, <1>4, <2>2 DEF IsSubmitted
    <3>2. InHand(own, world, row, t, command[t]) /\ j \in Item /\ j \in own.held
      BY <1>2, <3>1, ActiveParts DEF Stored
    <3>3. (j \in o.visible <=> j \in own.visible) /\ o.durable = own.durable
      BY <1>1, <3>2
    <3>4. InHand(o, world, row, t, command[t])
      BY <3>2, <3>3 DEF InHand
    <3> QED
      BY <3>1, <3>4 DEF InHand
  <2> QED
    BY <2>1, <2>2
<1> QED
  BY <1>3, <1>4 DEF Stored

LEMMA WakeStep ==
  ASSUME GroundInv, Wake
  PROVE  GroundInv'
<1>1. PICK due \in SUBSET Waiting : WakeWith(due)
  BY DEF Wake
<1> DEFINE o == IF channel = "live" THEN Promoted ELSE own
           cm == [t \in Token |-> Submitted(o, t, due)]
<1>2. /\ own' = o /\ command' = cm
      /\ UNCHANGED <<world, shown, loot, ids, player, row, channel>>
  BY <1>1 DEF WakeWith, Submitted
<1>3. Awoken(own, own, world, command)
  BY InvParts DEF Awoken, AwokenBut, Kept, Timed
<1>4. Awoken(o, own, world, command)
  <2>1. Awoken(Promoted, own, world, command)
    BY <1>3, InvParts, PromotedIsAwoken
  <2> QED
    BY <1>3, <2>1
<1> HIDE DEF o
<1>5. o \in OwnState
  BY <1>4 DEF Awoken, AwokenBut
<1>6. \A t \in Token : cm[t] = Submitted(o, t, due)
  OBVIOUS
<1>7. cm \in CommandState
  <2>1. \A t \in Token : Submitted(o, t, due) \in Command \cup {Idle}
    BY <1>5, SubmittedParts DEF IsSubmitted
  <2> QED
    BY <2>1 DEF CommandState
<1> HIDE DEF cm
<1>8. Kept(o, world, row, pool, replenish.got, issued, cm, player)
  BY <1>4, <1>5, <1>6, <1>7, SubmitKeeps
<1>9. channel # "taken" => Stored(o, world, row, cm)
  BY <1>4, <1>5, <1>6, <1>7, SubmitStored
<1> QED
  BY <1>2, <1>5, <1>7, <1>8, <1>9 DEF GroundInv, Typed, ids, CommandState

(***************************************************************************)
(* Every step, and what the invariant is for.                              *)
(***************************************************************************)

LEMMA InitInv == Init => GroundInv
<1> SUFFICES ASSUME Init PROVE GroundInv
  OBVIOUS
<1> DEFINE a == [live |-> [i \in Item |-> Off], expiry |-> {}, deferred |-> <<>>,
                 member |-> {}, held |-> {}, visible |-> {}, durable |-> {}]
           g == [at |-> "idle", got |-> <<>>]
<1>1. own = a /\ replenish = g /\ pool = <<>> /\ loot = <<>> /\ shown = {} /\ issued = Carried
  BY DEF Init
<1>2. /\ a \in OwnState /\ a.deferred = <<>> /\ a.member = {} /\ a.held = {}
      /\ a.visible = {} /\ a.durable = {}
  BY EmptyRange DEF OwnState
<1>3. g \in [at : {"idle", "asked", "answered"}, got : Seq(Item)] /\ g.got = <<>>
  BY EmptyRange
<1> HIDE DEF a, g
<1>4. /\ world \in WorldState /\ \A i \in Item : world[i] = "none"
      /\ command \in CommandState /\ \A t \in Token : command[t] = Idle
      /\ player \in [Character -> {"away", "here", "leaving"}] /\ channel = "live"
  BY DEF Init, WorldState, CommandState
<1>5. /\ row \in RowState /\ \A i \in Item : row[i] # "ground"
      /\ \A i \in Item : i > Carried => row[i] = "none"
  BY Bounds DEF Init, RowState
<1>6. Typed
  <2>1. <<>> \in Seq(Plan) /\ Len(<<>>) <= MaxPlans /\ <<>> \in Seq(Item)
    BY Bounds
  <2> QED
    BY <1>1, <1>2, <1>3, <1>4, <1>5, <2>1, Bounds DEF Typed, CommandState
<1>7. FreshIds(own, world, row, pool, replenish.got, issued)
  <2>1. Distinct(<<>>)
    BY DEF Distinct
  <2> QED
    BY <1>1, <1>2, <1>3, <1>4, <1>5, <2>1, EmptyRange DEF FreshIds, Unknown
<1>8. Kept(own, world, row, pool, replenish.got, issued, command, player)
  <2>1. Commanded(command, player) /\ Reserved(own.held, command)
    BY <1>1, <1>2, <1>4 DEF Commanded, Reserved
  <2>2. Timed(own, world, command) /\ Members(own)
    BY <1>1, <1>2, <1>4 DEF Timed, Members
  <2> QED
    BY <1>7, <2>1, <2>2 DEF Kept
<1>9. Stored(own, world, row, command)
  <2>1. \A i \in Item : Settled(own, world, row, i)
    BY <1>1, <1>2, <1>4, <1>5, Bounds DEF Settled
  <2> QED
    BY <1>4, <2>1 DEF Stored
<1> QED
  BY <1>4, <1>6, <1>8, <1>9 DEF GroundInv

LEMMA SettleStep ==
  ASSUME GroundInv, NEW t \in Token, Settle(t)
  PROVE  GroundInv'
BY SettleUnknownStep, SettleRefusedStep, SettleRetiredStep, SettleDroppedStep,
   SettlePickedStep, SettleUnappliedStep, ReconcileStep DEF Settle

LEMMA StutterStep ==
  ASSUME GroundInv, UNCHANGED vars
  PROVE  GroundInv'
BY DEF GroundInv, Typed, vars

LEMMA StepInv == GroundInv /\ [Next]_vars => GroundInv'
<1> SUFFICES ASSUME GroundInv, [Next]_vars PROVE GroundInv'
  OBVIOUS
<1>1. CASE AskIds \/ ReserveIds \/ InstallIds
  BY <1>1, AskIdsStep, ReserveIdsStep, InstallIdsStep
<1>2. CASE FlushLoot \/ Wake \/ Tick \/ ChannelEnds \/ TakeOver
  BY <1>2, FlushLootStep, WakeStep, TickStep, ChannelEndsStep, TakeOverStep
<1>3. CASE \E c \in Character : Kill(c) \/ Enter(c) \/ Leave(c)
  BY <1>3, KillStep, EnterStep, LeaveStep
<1>4. CASE \E c \in Character, i \in Item : StageDrop(c, i) \/ StagePickup(c, i)
  BY <1>4, StageDropStep, StagePickupStep
<1>5. CASE \E t \in Token : Execute(t) \/ Fault(t) \/ Settle(t)
  BY <1>5, ExecuteStep, FaultStep, SettleStep
<1>6. CASE UNCHANGED vars
  BY <1>6, StutterStep
<1> QED
  BY <1>1, <1>2, <1>3, <1>4, <1>5, <1>6 DEF Next

LEMMA SpecInv == Spec => []GroundInv
BY InitInv, StepInv, PTL DEF Spec

LEMMA InvIsTyped == GroundInv => TypeOK
<1> SUFFICES ASSUME GroundInv PROVE TypeOK
  OBVIOUS
<1> QED
  BY DEF GroundInv, Typed, TypeOK, OwnState, WorldState, RowState, Plan

LEMMA InvIsTimed == GroundInv => EveryDropIsTimed
<1> SUFFICES ASSUME GroundInv, NEW i \in Item, world[i] = "drop"
             PROVE  /\ own.live[i] # Off
                    /\ \/ <<own.live[i].due, i>> \in own.expiry
                       \/ i \in own.member /\ i \in Range(own.deferred)
                       \/ i \in own.held
  BY DEF EveryDropIsTimed
<1>1. own.live[i] # Off /\ (Scheduled(own, i) \/ command[i] # Idle)
  BY InvParts DEF Kept, Timed
<1>2. command[i] # Idle => i \in own.held
  <2>1. i \in Token
    BY DEF Token
  <2> QED
    BY <2>1, InvParts DEF Commanded, Formed, Reserved
<1>3. i \in own.member => i \in Range(own.deferred)
  BY InvParts DEF Members
<1> QED
  BY <1>1, <1>2, <1>3 DEF Scheduled

LEMMA InvIsHeldOnce == GroundInv => HeldByOneCommand
<1> SUFFICES ASSUME GroundInv, NEW i \in Item
             PROVE  Cardinality({t \in Token : Active(t) /\ command[t].item = i})
                      = IF i \in own.held THEN 1 ELSE 0
  BY DEF HeldByOneCommand
<1> DEFINE C == {t \in Token : Active(t) /\ command[t].item = i}
<1>1. CASE i \in own.held
  <2>1. PICK t \in Token : command[t] # Idle /\ command[t].item = i
    BY <1>1, InvParts DEF Reserved
  <2>2. C = {t}
    BY <2>1, InvParts DEF Active, Reserved
  <2> QED
    BY <1>1, <2>2, FS_Singleton
<1>2. CASE i \notin own.held
  <2>1. C = {}
    BY <1>2, InvParts DEF Active, Reserved
  <2> QED
    BY <1>2, <2>1, FS_EmptySet
<1> QED
  BY <1>1, <1>2

LEMMA InvIsFresh == GroundInv => PoolIsFresh
<1> SUFFICES ASSUME GroundInv PROVE PoolIsFresh
  OBVIOUS
<1>1. pool \in Seq(Item) /\ Distinct(pool)
  BY IdTypes
<1>2. Range(pool) \subseteq Item /\ Cardinality(Range(pool)) = Len(pool)
  BY <1>1, RangeParts, DistinctCounts
<1>3. \A i \in Range(pool) : Unknown(own, world, row, i)
  BY <1>2, InvParts DEF Kept, FreshIds
<1> QED
  BY <1>2, <1>3 DEF PoolIsFresh, Unknown

(* Every value has its type; every drop is in the expiry map under its     *)
(* recorded time, in the deferred queue, or held by a command; an item is  *)
(* held by exactly one command or by none; and the pool holds no id twice, *)
(* and none that was shown or stored (track_ground, promote_due_ground,    *)
(* defer_ground, restore_unretired_ground, install_reserved_ids).          *)
THEOREM GroundSound == Spec => []GroundIsSound
<1>1. GroundInv => GroundIsSound
  BY InvIsTyped, InvIsTimed, InvIsHeldOnce, InvIsFresh DEF GroundIsSound
<1> QED
  BY <1>1, SpecInv, PTL

(* While no other process has the channel, an item that no command holds   *)
(* is in World what its row is in the database, and `visible` says which   *)
(* command is the right one for it, whatever players, answers and time do. *)
THEOREM GroundMatches == Spec => []GroundMatchesStore
<1>1. GroundInv => GroundMatchesStore
  <2> SUFFICES ASSUME GroundInv, channel # "taken", NEW i \in Item \ own.held
               PROVE  Settled(own, world, row, i)
    BY DEF GroundMatchesStore, Settled
  <2> QED
    BY InvParts DEF Stored
<1> QED
  BY <1>1, SpecInv, PTL

(* Once another process has the channel, no command of this one changes a  *)
(* row: the guard of the database and the retired rows refuse all of them. *)
THEOREM TakenIsSilent == Spec => TakenWritesNothing
<1>1. GroundInv /\ [Next]_vars => [channel = "taken" => row' = row]_vars
  <2> SUFFICES ASSUME GroundInv, Next, channel = "taken" PROVE row' = row
    OBVIOUS
  <2>1. CASE AskIds \/ ReserveIds \/ InstallIds \/ FlushLoot \/ Wake \/ Tick \/ ChannelEnds
    BY <2>1 DEF AskIds, ReserveIds, InstallIds, FlushLoot, Wake, WakeWith, Tick, ChannelEnds
  <2>2. CASE TakeOver
    BY <2>2 DEF TakeOver
  <2>3. CASE \E c \in Character : Kill(c) \/ Enter(c) \/ Leave(c)
    BY <2>3 DEF Kill, Enter, Leave
  <2>4. CASE \E c \in Character, i \in Item : StageDrop(c, i) \/ StagePickup(c, i)
    BY <2>4 DEF StageDrop, StagePickup, Stage
  <2>5. ASSUME NEW t \in Token, Execute(t) PROVE row' = row
    <3>1. command[t] # Idle /\ ~Accepts(t)
      BY <2>5, WritesUntaken DEF Execute, Active
    <3> QED
      BY <2>5, <3>1 DEF Execute
  <2>6. ASSUME NEW t \in Token, Fault(t) \/ Settle(t) PROVE row' = row
    BY <2>6 DEF Fault, Settle, SettleUnknown, SettleRefused, SettleRetired, SettleDropped,
                SettlePicked, SettleUnapplied, Reconcile
  <2> QED
    BY <2>1, <2>2, <2>3, <2>4, <2>5, <2>6 DEF Next
<1> QED
  BY <1>1, SpecInv, PTL DEF Spec, TakenWritesNothing
=============================================================================
