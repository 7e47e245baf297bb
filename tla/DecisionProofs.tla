--------------------------- MODULE DecisionProofs ---------------------------
(***************************************************************************)
(* What a decision guarantees, for every queue, every state and limits of  *)
(* any pools with any labels, and any idle runners of other hosts.         *)
(*                                                                         *)
(* What AssignDemand and DiscountForeignIdle compute is a function of how  *)
(* far they have come; what holds at each position is proved by induction, *)
(* stated over the set of the positions where it holds.                    *)
(***************************************************************************)
EXTENDS Decision, FiniteSetTheorems, WellFoundedInduction, TLAPS

---------------------------------------------------------------------------
(* Numbers and recursion *)

Below == {ss \in Nat \X Nat : ss[1] < ss[2]}

LEMMA BelowIsWellFounded == IsWellFoundedOn(Below, Nat)
  BY NatLessThanWellFounded, Zenon DEF OpToRel, Below

LEMMA LeastExists ==
  ASSUME NEW S, S \subseteq Nat, S # {}
  PROVE  \E m \in S : \A n \in S : m <= n
<1>1. PICK m \in S : \A n \in S : ~(<<n, m>> \in Below)
  BY BelowIsWellFounded, WFMin, Zenon
<1>2. \A n \in S : m <= n
  <2>1. \A a, b \in Nat : a < b => <<a, b>> \in Below
    BY DEF Below
  <2>2. TAKE n \in S
  <2>3. n \in Nat /\ m \in Nat
    OBVIOUS
  <2>4. ~(n < m)
    BY <1>1, <2>1, <2>3, Zenon
  <2> QED BY <2>3, <2>4
<1> QED BY <1>2

(* Induction up to N, over the set of the numbers that have the property. *)
LEMMA Induction ==
  ASSUME NEW N \in Nat, NEW T, 0 \in T,
         \A n \in 0 .. N : n \in T /\ n < N => n + 1 \in T
  PROVE  0 .. N \subseteq T
<1> SUFFICES ASSUME (0 .. N) \ T # {} PROVE FALSE
  OBVIOUS
<1> DEFINE U == (0 .. N) \ T
<1>1. U \subseteq Nat /\ U # {}
  OBVIOUS
<1>2. PICK m \in U : \A n \in U : m <= n
  <2> HIDE DEF U
  <2> QED BY <1>1, LeastExists
<1>3. m # 0 /\ m - 1 \in 0 .. N /\ m - 1 < N
  BY <1>2
<1>4. (m - 1) + 1 \in T
  BY <1>2, <1>3
<1> QED BY <1>2, <1>4

(* A value that is carried from position to position exists for all. *)
Carries(f, N, base, step) == f[0] = base /\ \A n \in 1 .. N : f[n] = step[n][f[n - 1]]

LEMMA Recursion ==
  ASSUME NEW N \in Nat, NEW S, NEW base \in S, NEW step \in [1 .. N -> [S -> S]]
  PROVE  \E f \in [0 .. N -> S] : Carries(f, N, base, step)
<1> DEFINE Fits(k, f) == f[0] = base /\ \A n \in 1 .. k : f[n] = step[n][f[n - 1]]
           T == {k \in 0 .. N : \E f \in [0 .. N -> S] : Fits(k, f)}
<1>1. 0 \in T
  <2>1. [n \in 0 .. N |-> base] \in [0 .. N -> S] /\ Fits(0, [n \in 0 .. N |-> base])
    OBVIOUS
  <2> HIDE DEF Fits
  <2> QED BY <2>1
<1>2. ASSUME NEW k \in 0 .. N, k \in T, k < N
      PROVE  k + 1 \in T
  <2>1. PICK f \in [0 .. N -> S] : Fits(k, f)
    BY <1>2
  <2> DEFINE v == step[k + 1][f[k]]
             g == [f EXCEPT ![k + 1] = v]
  <2>2. k + 1 \in 0 .. N /\ k + 1 \in 1 .. N /\ f[k] \in S
    BY <1>2
  <2>3. v \in S
    BY <2>2
  <2>4. g \in [0 .. N -> S] /\ g[k + 1] = v /\ \A n \in 0 .. k : g[n] = f[n]
    <3> HIDE DEF v
    <3> QED BY <1>2, <2>2, <2>3
  <2>5. ASSUME NEW n \in 1 .. k + 1
        PROVE  g[n] = step[n][g[n - 1]]
    <3>1. CASE n = k + 1
      <4>1. n - 1 = k /\ k \in 0 .. k
        BY <3>1, <1>2
      <4> HIDE DEF g
      <4> QED BY <2>4, <3>1, <4>1
    <3>2. CASE n # k + 1
      <4>1. n \in 1 .. k /\ n \in 0 .. k /\ n - 1 \in 0 .. k
        BY <3>2, <1>2
      <4>2. f[n] = step[n][f[n - 1]]
        BY <2>1, <4>1
      <4> HIDE DEF g
      <4> QED BY <2>4, <4>1, <4>2
    <3> QED BY <3>1, <3>2
  <2>6. g[0] = base
    <3> HIDE DEF g
    <3> QED BY <2>1, <2>4, <1>2
  <2>7. Fits(k + 1, g)
    <3> HIDE DEF g, v
    <3> QED BY <2>5, <2>6
  <2> HIDE DEF Fits, g, v
  <2> QED BY <2>2, <2>4, <2>7
<1>3. N \in T
  <2> HIDE DEF T
  <2>1. 0 .. N \subseteq T
    BY <1>1, <1>2, Induction
  <2> QED BY <2>1
<1>4. PICK f \in [0 .. N -> S] : Fits(N, f)
  BY <1>3
<1>5. Carries(f, N, base, step)
  BY <1>4 DEF Carries
<1> QED BY <1>5

---------------------------------------------------------------------------
(* The tightest of some pools *)

Size(p) == Cardinality(LabelSet(p))

LEMMA SizeType ==
  ASSUME NEW p \in Pool
  PROVE  Size(p) \in Nat
<1>1. IsFiniteSet(LabelSet(p))
  BY LabelsAssumption, FS_AddElement DEF LabelSet
<1> QED BY <1>1, FS_CardinalityType DEF Size

LEMMA PositionType ==
  ASSUME NEW p \in Pool
  PROVE  Position(p) \in Nat /\ Position(p) \in DOMAIN PoolOrder /\ PoolOrder[Position(p)] = p
<1>1. \E i \in DOMAIN PoolOrder : PoolOrder[i] = p
  BY DEF Pool, ToSet
<1>2. Position(p) \in DOMAIN PoolOrder /\ PoolOrder[Position(p)] = p
  BY <1>1 DEF Position
<1>3. DOMAIN PoolOrder \subseteq Nat
  BY PoolsAssumption
<1> QED BY <1>2, <1>3

LEMMA TightestIs ==
  ASSUME NEW S, S \subseteq Pool, S # {}
  PROVE  Tightest(S) \in S /\ \A q \in S : Size(Tightest(S)) <= Size(q)
<1>1. PICK m \in {Size(p) : p \in S} : \A n \in {Size(p) : p \in S} : m <= n
  <2>1. {Size(p) : p \in S} \subseteq Nat /\ {Size(p) : p \in S} # {}
    BY SizeType
  <2> QED BY <2>1, LeastExists
<1> DEFINE R == {p \in S : Size(p) = m}
<1>2. PICK i \in {Position(p) : p \in R} : \A n \in {Position(p) : p \in R} : i <= n
  <2>1. {Position(p) : p \in R} \subseteq Nat /\ {Position(p) : p \in R} # {}
    BY <1>1, PositionType
  <2> QED BY <2>1, LeastExists
<1>3. PICK t \in R : Position(t) = i
  BY <1>2
<1> DEFINE First(p, q) == \/ Size(p) < Size(q)
                          \/ Size(p) = Size(q) /\ Position(p) < Position(q)
<1>4. ASSUME NEW q \in S \ {t}
      PROVE  First(t, q)
  <2>1. Size(t) = m /\ Size(t) \in Nat /\ Size(q) \in Nat /\ m <= Size(q)
    BY <1>1, <1>3, <1>4, SizeType
  <2>2. CASE Size(q) = m
    <3>1. q \in R /\ Position(t) <= Position(q)
      BY <1>2, <1>3, <1>4, <2>2
    <3>2. Position(t) # Position(q)
      BY <1>3, <1>4, PositionType
    <3>3. Position(t) \in Nat /\ Position(q) \in Nat
      BY <1>3, <1>4, PositionType
    <3> QED BY <2>1, <2>2, <3>1, <3>2, <3>3
  <2> QED BY <2>1, <2>2
<1>5. Tightest(S) = CHOOSE p \in S : \A q \in S \ {p} : First(p, q)
  BY DEF Tightest, Size
<1>6. Tightest(S) \in S /\ \A q \in S \ {Tightest(S)} : First(Tightest(S), q)
  <2> HIDE DEF First
  <2>1. t \in S /\ \A q \in S \ {t} : First(t, q)
    BY <1>3, <1>4
  <2> QED BY <1>5, <2>1, Zenon
<1>7. ASSUME NEW q \in S
      PROVE  Size(Tightest(S)) <= Size(q)
  <2>1. Size(Tightest(S)) \in Nat /\ Size(q) \in Nat
    BY <1>6, SizeType
  <2> QED BY <1>6, <2>1
<1> QED BY <1>6, <1>7

---------------------------------------------------------------------------
(* One job is placed *)

Places == [pool : [Job -> Pool \cup {NoPool}], room : [Pool -> Nat]]

(* The job goes to a tightest candidate with room, which then has less; or *)
(* no candidate has room, and it is counted against one of them.           *)
Takes(acc, new, j, p) ==
  /\ acc.room[p] > 0 /\ new.room = [acc.room EXCEPT ![p] = @ - 1]
  /\ \A q \in Candidates(j) : Size(q) < Size(p) => acc.room[q] = 0

Overloads(acc, new, j) == new.room = acc.room /\ \A q \in Candidates(j) : acc.room[q] = 0

LEMMA Placing ==
  ASSUME NEW acc \in Places, NEW j \in Job
  PROVE  /\ PlaceJob(acc, j) \in Places
         /\ \/ Candidates(j) = {} /\ PlaceJob(acc, j) = acc
            \/ \E p \in Candidates(j) :
                 /\ PlaceJob(acc, j).pool = [acc.pool EXCEPT ![j] = p]
                 /\ Takes(acc, PlaceJob(acc, j), j, p) \/ Overloads(acc, PlaceJob(acc, j), j)
<1> DEFINE open == {p \in Candidates(j) : acc.room[p] > 0}
           t == Tightest(IF open # {} THEN open ELSE Candidates(j))
           new == PlaceJob(acc, j)
<1>1. CASE Candidates(j) = {}
  BY <1>1 DEF PlaceJob
<1>2. CASE Candidates(j) # {} /\ open # {}
  <2>1. t \in open /\ \A q \in open : Size(t) <= Size(q)
    BY <1>2, TightestIs DEF Candidates
  <2>2. new = [pool |-> [acc.pool EXCEPT ![j] = t], room |-> [acc.room EXCEPT ![t] = @ - 1]]
    BY <1>2 DEF PlaceJob
  <2>3. t \in Candidates(j) /\ t \in Pool /\ acc.room[t] > 0 /\ Size(t) \in Nat
    BY <2>1, SizeType DEF Candidates
  <2>4. \A q \in Candidates(j) : Size(q) < Size(t) => acc.room[q] = 0
    <3>1. TAKE q \in Candidates(j)
    <3>2. q \in Pool /\ Size(q) \in Nat /\ acc.room[q] \in Nat
      BY SizeType DEF Candidates, Places
    <3>3. acc.room[q] > 0 => Size(t) <= Size(q)
      BY <2>1
    <3> HIDE DEF t
    <3> QED BY <2>3, <3>2, <3>3
  <2> HIDE DEF t
  <2>5. Takes(acc, new, j, t) /\ new.pool = [acc.pool EXCEPT ![j] = t]
    BY <2>2, <2>3, <2>4 DEF Takes
  <2>6. new \in Places
    <3>1. [acc.room EXCEPT ![t] = @ - 1] \in [Pool -> Nat]
      BY <2>3 DEF Places
    <3>2. [acc.pool EXCEPT ![j] = t] \in [Job -> Pool \cup {NoPool}]
      BY <2>3 DEF Places
    <3> QED BY <2>2, <3>1, <3>2 DEF Places
  <2> QED BY <2>3, <2>5, <2>6
<1>3. CASE Candidates(j) # {} /\ open = {}
  <2>1. t \in Candidates(j) /\ t \in Pool
    BY <1>3, TightestIs DEF Candidates
  <2>2. new = [pool |-> [acc.pool EXCEPT ![j] = t], room |-> acc.room]
    BY <1>3 DEF PlaceJob
  <2>3. \A q \in Candidates(j) : acc.room[q] = 0
    BY <1>3 DEF Candidates, Places
  <2> HIDE DEF t
  <2>4. Overloads(acc, new, j) /\ new.pool = [acc.pool EXCEPT ![j] = t]
    BY <2>2, <2>3 DEF Overloads
  <2>5. new \in Places
    BY <2>1, <2>2 DEF Places
  <2> QED BY <2>1, <2>4, <2>5
<1> QED BY <1>1, <1>2, <1>3

---------------------------------------------------------------------------
(* The queue is placed job by job *)

Start(live, limits) == [pool |-> [j \in Job |-> NoPool], room |-> Headroom(live, limits)]

LEMMA PlacedAre ==
  ASSUME NEW queue \in Seq(Job), NEW live, NEW limits, Headroom(live, limits) \in [Pool -> Nat]
  PROVE  LET f == Placed(queue, live, limits)
         IN  /\ f[0] = Start(live, limits)
             /\ \A n \in 1 .. Len(queue) : f[n] = PlaceJob(f[n - 1], queue[n])
             /\ \A n \in 0 .. Len(queue) : f[n] \in Places
<1> DEFINE N == Len(queue)
           base == Start(live, limits)
           step == [n \in 1 .. N |-> [acc \in Places |-> PlaceJob(acc, queue[n])]]
           D(g) == [n \in 0 .. N |-> IF n = 0 THEN base ELSE PlaceJob(g[n - 1], queue[n])]
           P == Placed(queue, live, limits)
<1>0. N \in Nat /\ \A n \in 1 .. N : queue[n] \in Job
  OBVIOUS
<1>1. base \in Places
  BY DEF Start, Places
<1>2. step \in [1 .. N -> [Places -> Places]]
  BY <1>0, Placing
<1>3. PICK f \in [0 .. N -> Places] : f[0] = base /\ \A n \in 1 .. N : f[n] = step[n][f[n - 1]]
  <2> HIDE DEF N, base, step
  <2>1. \E f \in [0 .. N -> Places] : Carries(f, N, base, step)
    BY <1>0, <1>1, <1>2, Recursion
  <2> QED BY <2>1 DEF Carries
<1>4. f = D(f)
  <2>1. \A n \in 1 .. N : f[n] = PlaceJob(f[n - 1], queue[n])
    <3>1. TAKE n \in 1 .. N
    <3>2. n - 1 \in 0 .. N
      BY <1>0
    <3>3. f[n - 1] \in Places
      BY <1>3, <3>2
    <3> HIDE DEF N, base
    <3> QED BY <1>3, <3>3
  <2> HIDE DEF base
  <2>2. \A n \in 0 .. N : f[n] = IF n = 0 THEN base ELSE PlaceJob(f[n - 1], queue[n])
    BY <1>0, <1>3, <2>1
  <2> QED BY <1>3, <2>2
<1>5. P = CHOOSE g : g = D(g)
  BY DEF Placed, Start
<1>6. P = D(P)
  <2> HIDE DEF D, P
  <2> QED BY <1>4, <1>5
<1>7. P[0] = base
  <2> HIDE DEF P, base
  <2> QED BY <1>0, <1>6
<1>8. \A n \in 1 .. N : P[n] = PlaceJob(P[n - 1], queue[n])
  <2> HIDE DEF P, base
  <2> QED BY <1>0, <1>6
<1>9. \A n \in 0 .. N : P[n] \in Places
  <2> DEFINE T == {n \in 0 .. N : P[n] \in Places}
  <2> HIDE DEF P, base
  <2>1. 0 \in T
    BY <1>0, <1>1, <1>7
  <2>2. ASSUME NEW n \in 0 .. N, n \in T, n < N
        PROVE  n + 1 \in T
    <3>1. n + 1 \in 1 .. N /\ n + 1 \in 0 .. N /\ (n + 1) - 1 = n
      BY <1>0, <2>2
    <3>2. queue[n + 1] \in Job /\ P[n] \in Places /\ P[n + 1] = PlaceJob(P[n], queue[n + 1])
      BY <1>0, <1>8, <2>2, <3>1
    <3> QED BY <3>1, <3>2, Placing
  <2> HIDE DEF T
  <2>3. 0 .. N \subseteq T
    BY <1>0, <2>1, <2>2, Induction
  <2> QED BY <2>3 DEF T
<1> QED BY <1>7, <1>8, <1>9

(* What holds of the queue's first n jobs, seen, when they are placed.     *)
On(acc, p)   == {j \in Job : acc.pool[j] = p}
Over(acc, p) == {j \in On(acc, p) : \A q \in Candidates(j) : acc.room[q] = 0}

SeenInv(acc, seen) ==
  \A j \in Job :
    /\ j \notin seen => acc.pool[j] = NoPool
    /\ j \in seen => \/ Candidates(j) = {} /\ acc.pool[j] = NoPool
                     \/ acc.pool[j] \in Candidates(j)

RoomInv(acc, room) ==
  \A p \in Pool :
    /\ acc.room[p] <= room[p]
    /\ Cardinality(On(acc, p)) + acc.room[p] >= room[p]
    /\ Cardinality(On(acc, p)) + acc.room[p] <= room[p] + Cardinality(Over(acc, p))

SpareInv(acc) ==
  \A j \in Job : \A q \in Candidates(j) :
    acc.pool[j] \in Candidates(j) /\ Size(q) < Size(acc.pool[j]) => acc.room[q] = 0

PlaceInv(acc, room, seen) == SeenInv(acc, seen) /\ RoomInv(acc, room) /\ SpareInv(acc)

LEMMA OnIsFinite ==
  ASSUME NEW acc, NEW p
  PROVE  /\ IsFiniteSet(On(acc, p)) /\ Cardinality(On(acc, p)) \in Nat
         /\ IsFiniteSet(Over(acc, p)) /\ Cardinality(Over(acc, p)) \in Nat
<1>1. On(acc, p) \in SUBSET Job /\ Over(acc, p) \in SUBSET Job
  BY DEF On, Over
<1>2. IsFiniteSet(On(acc, p)) /\ IsFiniteSet(Over(acc, p))
  BY <1>1, JobsAssumption, FS_Subset
<1> QED BY <1>2, FS_CardinalityType

LEMMA PlaceStep ==
  ASSUME NEW acc \in Places, NEW room \in [Pool -> Nat], NEW seen \in SUBSET Job,
         NEW j \in Job \ seen, PlaceInv(acc, room, seen)
  PROVE  PlaceInv(PlaceJob(acc, j), room, seen \cup {j})
<1> DEFINE new == PlaceJob(acc, j)
<1>0. new \in Places /\ acc.pool[j] = NoPool
  BY Placing DEF PlaceInv, SeenInv
<1>1. CASE Candidates(j) = {} /\ new = acc
  BY <1>0, <1>1 DEF PlaceInv, SeenInv
<1>2. ASSUME NEW p \in Candidates(j), new.pool = [acc.pool EXCEPT ![j] = p],
             Takes(acc, new, j, p) \/ Overloads(acc, new, j)
      PROVE  PlaceInv(new, room, seen \cup {j})
  <2> HIDE DEF new
  <2>1. p \in Pool /\ p # NoPool
    BY <1>2, LabelsAssumption DEF Candidates
  <2>2. new.pool[j] = p /\ \A k \in Job \ {j} : new.pool[k] = acc.pool[k]
    BY <1>2 DEF Places
  <2>3. \A q \in Pool : new.room[q] \in Nat /\ acc.room[q] \in Nat /\ new.room[q] <= acc.room[q]
    BY <1>0, <1>2 DEF Places, Takes, Overloads
  <2>4. SeenInv(new, seen \cup {j})
    BY <1>2, <2>2 DEF PlaceInv, SeenInv
  <2>5. SpareInv(new)
    <3>1. ASSUME NEW k \in Job, NEW q \in Candidates(k), new.pool[k] \in Candidates(k),
                 Size(q) < Size(new.pool[k])
          PROVE  new.room[q] = 0
      <4>1. q \in Pool
        BY DEF Candidates
      <4>2. CASE k # j
        BY <2>2, <2>3, <3>1, <4>1, <4>2 DEF PlaceInv, SpareInv
      <4>3. CASE k = j
        BY <1>2, <2>2, <2>3, <3>1, <4>1, <4>3 DEF Takes, Overloads
      <4> QED BY <4>2, <4>3
    <3> QED BY <3>1 DEF SpareInv
  <2>6. On(new, p) = On(acc, p) \cup {j} /\ j \notin On(acc, p)
    BY <1>0, <2>1, <2>2 DEF On
  <2>7. \A q \in Pool \ {p} : On(new, q) = On(acc, q)
    BY <1>0, <2>1, <2>2, LabelsAssumption DEF On
  <2>8. Cardinality(On(new, p)) = Cardinality(On(acc, p)) + 1
    BY <2>6, OnIsFinite, FS_AddElement
  <2>9. \A q \in Pool : Over(acc, q) \subseteq Over(new, q)
    <3>1. ASSUME NEW q \in Pool, NEW k \in Over(acc, q)
          PROVE  k \in Over(new, q)
      <4>1. k \in On(acc, q) /\ \A r \in Candidates(k) : acc.room[r] = 0
        BY <3>1 DEF Over
      <4>2. k \in On(new, q)
        BY <2>6, <2>7, <4>1
      <4>3. \A r \in Candidates(k) : new.room[r] = 0
        BY <2>3, <4>1 DEF Candidates
      <4> QED BY <4>2, <4>3 DEF Over
    <3> QED BY <3>1
  <2>10. \A q \in Pool : Cardinality(Over(acc, q)) <= Cardinality(Over(new, q))
    BY <2>9, OnIsFinite, FS_Subset
  <2>11. ASSUME NEW q \in Pool
         PROVE  /\ new.room[q] <= room[q]
                /\ Cardinality(On(new, q)) + new.room[q] >= room[q]
                /\ Cardinality(On(new, q)) + new.room[q] <= room[q] + Cardinality(Over(new, q))
    <3>1. /\ acc.room[q] <= room[q]
          /\ Cardinality(On(acc, q)) + acc.room[q] >= room[q]
          /\ Cardinality(On(acc, q)) + acc.room[q] <= room[q] + Cardinality(Over(acc, q))
      BY DEF PlaceInv, RoomInv
    <3>2. /\ Cardinality(On(acc, q)) \in Nat /\ Cardinality(Over(acc, q)) \in Nat
          /\ Cardinality(On(new, q)) \in Nat /\ Cardinality(Over(new, q)) \in Nat
          /\ room[q] \in Nat /\ acc.room[q] \in Nat /\ new.room[q] \in Nat
      BY <2>3, OnIsFinite
    <3>3. Cardinality(Over(acc, q)) <= Cardinality(Over(new, q))
      BY <2>10
    <3>4. CASE q # p
      <4>1. Cardinality(On(new, q)) = Cardinality(On(acc, q)) /\ new.room[q] = acc.room[q]
        BY <1>2, <2>1, <2>7, <3>4 DEF Takes, Overloads, Places
      <4> QED BY <3>1, <3>2, <3>3, <4>1
    <3>5. CASE q = p /\ Takes(acc, new, j, p)
      <4>1. new.room[q] = acc.room[q] - 1
        BY <2>1, <3>5 DEF Takes, Places
      <4> QED BY <2>8, <3>1, <3>2, <3>3, <3>5, <4>1
    <3>6. CASE q = p /\ Overloads(acc, new, j)
      <4>1. new.room[q] = acc.room[q]
        BY <3>6 DEF Overloads
      <4>2. j \in Over(new, q) /\ j \notin Over(acc, q)
        BY <2>6, <3>6 DEF Over, Overloads
      <4>3. Over(acc, q) \cup {j} \in SUBSET Over(new, q)
        BY <2>9, <4>2
      <4>4. Cardinality(Over(acc, q) \cup {j}) = Cardinality(Over(acc, q)) + 1
        BY <4>2, OnIsFinite, FS_AddElement
      <4>5. Cardinality(Over(acc, q) \cup {j}) <= Cardinality(Over(new, q))
        BY <4>3, OnIsFinite, FS_Subset
      <4> QED BY <2>8, <3>1, <3>2, <3>6, <4>1, <4>4, <4>5
    <3> QED BY <1>2, <3>4, <3>5, <3>6
  <2> QED BY <2>4, <2>5, <2>11 DEF PlaceInv, RoomInv
<1> QED BY <1>1, <1>2, Placing

Upto(queue, n) == {queue[i] : i \in 1 .. n}

LEMMA PlaceStart ==
  ASSUME NEW live, NEW limits, Headroom(live, limits) \in [Pool -> Nat]
  PROVE  PlaceInv(Start(live, limits), Headroom(live, limits), {})
<1> DEFINE acc == Start(live, limits)
<1>1. \A j \in Job : acc.pool[j] = NoPool
  BY DEF Start
<1>2. \A p \in Pool : On(acc, p) = {} /\ Over(acc, p) = {}
  <2> HIDE DEF acc
  <2> QED BY <1>1, LabelsAssumption DEF On, Over
<1>3. Cardinality({}) = 0
  BY FS_EmptySet
<1>4. RoomInv(acc, Headroom(live, limits))
  <2>1. acc.room = Headroom(live, limits)
    BY DEF Start
  <2> HIDE DEF acc
  <2>2. ASSUME NEW p \in Pool
        PROVE  /\ acc.room[p] <= Headroom(live, limits)[p]
               /\ Cardinality(On(acc, p)) + acc.room[p] >= Headroom(live, limits)[p]
               /\ Cardinality(On(acc, p)) + acc.room[p]
                    <= Headroom(live, limits)[p] + Cardinality(Over(acc, p))
    <3>1. Headroom(live, limits)[p] \in Nat
      OBVIOUS
    <3>2. Cardinality(On(acc, p)) = 0 /\ Cardinality(Over(acc, p)) = 0
      BY <1>2, <1>3
    <3> QED BY <2>1, <3>1, <3>2
  <2> QED BY <2>2 DEF RoomInv
<1>5. \A j \in Job : acc.pool[j] \notin Candidates(j)
  BY <1>1, LabelsAssumption DEF Candidates
<1>6. PlaceInv(acc, Headroom(live, limits), {})
  <2> HIDE DEF acc
  <2> QED BY <1>1, <1>4, <1>5 DEF PlaceInv, SeenInv, SpareInv
<1> QED BY <1>6

LEMMA PlacedInv ==
  ASSUME NEW queue \in Seq(Job), \A i, k \in DOMAIN queue : queue[i] = queue[k] => i = k,
         NEW live, NEW limits, Headroom(live, limits) \in [Pool -> Nat]
  PROVE  LET acc == Placed(queue, live, limits)[Len(queue)]
         IN  acc \in Places /\ PlaceInv(acc, Headroom(live, limits), ToSet(queue))
<1> DEFINE N == Len(queue)
           P == Placed(queue, live, limits)
           room == Headroom(live, limits)
           T == {n \in 0 .. N : PlaceInv(P[n], room, Upto(queue, n))}
<1>0. N \in Nat /\ \A n \in 1 .. N : queue[n] \in Job
  OBVIOUS
<1>1. /\ P[0] = Start(live, limits) /\ \A n \in 1 .. N : P[n] = PlaceJob(P[n - 1], queue[n])
      /\ \A n \in 0 .. N : P[n] \in Places
  BY PlacedAre
<1>2. 0 \in T
  <2>1. Upto(queue, 0) = {}
    BY DEF Upto
  <2>2. PlaceInv(P[0], room, {})
    <3> HIDE DEF P
    <3> QED BY <1>1, PlaceStart
  <2>3. PlaceInv(P[0], room, Upto(queue, 0))
    BY <2>1, <2>2
  <2> HIDE DEF P, room
  <2> QED BY <1>0, <2>3
<1>3. ASSUME NEW n \in 0 .. N, n \in T, n < N
      PROVE  n + 1 \in T
  <2>1. n + 1 \in 1 .. N /\ n + 1 \in 0 .. N /\ (n + 1) - 1 = n
    BY <1>0, <1>3
  <2> HIDE DEF P, room
  <2>2. P[n + 1] = PlaceJob(P[n], queue[n + 1]) /\ P[n] \in Places /\ queue[n + 1] \in Job
    BY <1>0, <1>1, <1>3, <2>1
  <2>3. Upto(queue, n + 1) = Upto(queue, n) \cup {queue[n + 1]}
    BY <1>0, <1>3, <2>1 DEF Upto
  <2>4. Upto(queue, n) \in SUBSET Job
    BY <1>0, <1>3 DEF Upto
  <2>5. queue[n + 1] \notin Upto(queue, n)
    <3>1. DOMAIN queue = 1 .. N
      OBVIOUS
    <3>2. ASSUME NEW i \in 1 .. n, queue[i] = queue[n + 1] PROVE FALSE
      <4>1. i \in DOMAIN queue /\ n + 1 \in DOMAIN queue /\ i # n + 1
        BY <1>0, <2>1, <3>1, <3>2
      <4> QED BY <3>2, <4>1
    <3> QED BY <3>2 DEF Upto
  <2>6. PlaceInv(P[n], room, Upto(queue, n))
    BY <1>3
  <2>7. room \in [Pool -> Nat]
    BY DEF room
  <2>8. PlaceInv(P[n + 1], room, Upto(queue, n + 1))
    <3>1. queue[n + 1] \in Job \ Upto(queue, n)
      BY <2>2, <2>5
    <3>2. PlaceInv(PlaceJob(P[n], queue[n + 1]), room, Upto(queue, n) \cup {queue[n + 1]})
      BY <2>2, <2>4, <2>6, <2>7, <3>1, PlaceStep
    <3> QED BY <2>2, <2>3, <3>2
  <2> QED BY <2>1, <2>8
<1>4. N \in T
  <2> HIDE DEF T
  <2>1. 0 .. N \subseteq T
    BY <1>0, <1>2, <1>3, Induction
  <2> QED BY <1>0, <2>1
<1>5. Upto(queue, N) = ToSet(queue)
  BY DEF Upto, ToSet
<1>6. N \in 0 .. N
  BY <1>0
<1> HIDE DEF P, room
<1> QED BY <1>1, <1>4, <1>5, <1>6 DEF P, room

---------------------------------------------------------------------------
(* A decision is the outcome of its input *)

DecisionInv == input \in Inputs /\ (output = None \/ output = Outcome(input))

LEMMA DecisionIsItsOutcome == Spec => []DecisionInv
<1>1. Init => DecisionInv
  BY DEF Init, DecisionInv
<1>2. DecisionInv /\ [Decide]_vars => DecisionInv'
  BY DEF DecisionInv, Decide, vars
<1> QED BY <1>1, <1>2, PTL DEF Spec

(* What has been read of the pools gives them headroom, and limits that do *)
(* not cross.                                                              *)
LEMMA InputTypes ==
  ASSUME NEW in \in Inputs
  PROVE  /\ LimitsIn(in) \in [Pool -> Limits]
         /\ \A p \in Pool : LimitsIn(in)[p].min <= LimitsIn(in)[p].max
         /\ Headroom([p \in Pool |-> in.state[p].live], LimitsIn(in)) \in [Pool -> Nat]
<1>1. in.state \in [Pool -> PoolState] /\ in.conf \in [Pool -> Limits]
      /\ in.override \in [Pool -> Override]
  BY InputsAssumption
<1>2. ASSUME NEW p \in Pool
      PROVE  LimitsIn(in)[p] \in Limits /\ LimitsIn(in)[p].min <= LimitsIn(in)[p].max
  <2>1. in.conf[p] \in Limits /\ in.override[p] \in Override
    BY <1>1
  <2> QED BY <2>1, SMT DEF LimitsIn, Limits, Override, Unset, EffectiveLimits
<1>3. LimitsIn(in) \in [Pool -> Limits]
  <2>1. LimitsIn(in) = [p \in Pool |-> LimitsIn(in)[p]]
    BY DEF LimitsIn
  <2> QED BY <1>2, <2>1
<1>4. \A p \in Pool : in.state[p].live \in Nat /\ LimitsIn(in)[p].max \in Nat
  BY <1>1, <1>2 DEF PoolState, Limits
<1>5. Headroom([p \in Pool |-> in.state[p].live], LimitsIn(in)) \in [Pool -> Nat]
  BY <1>4 DEF Headroom
<1> QED BY <1>2, <1>3, <1>5

LEMMA Assigned ==
  ASSUME NEW in \in Inputs
  PROVE  /\ Outcome(in).room \in [Pool -> Nat]
         /\ \E acc \in Places :
              /\ PlaceInv(acc, Outcome(in).room, Queued(in)) /\ Outcome(in).assigned = acc.pool
<1> DEFINE live == [p \in Pool |-> in.state[p].live]
           acc == Placed(in.queue, live, LimitsIn(in))[Len(in.queue)]
<1>1. in.queue \in Seq(Job) /\ \A i, k \in DOMAIN in.queue : in.queue[i] = in.queue[k] => i = k
  BY InputsAssumption
<1>2. Headroom(live, LimitsIn(in)) \in [Pool -> Nat]
  BY InputTypes
<1>3. acc \in Places /\ PlaceInv(acc, Headroom(live, LimitsIn(in)), ToSet(in.queue))
  <2> HIDE DEF live
  <2> QED BY <1>1, <1>2, PlacedInv
<1>4. Outcome(in).room = Headroom(live, LimitsIn(in))
  BY DEF Outcome
<1>5. Outcome(in).assigned = acc.pool
  BY DEF Outcome, AssignDemand
<1> HIDE DEF acc, live
<1> QED BY <1>2, <1>3, <1>4, <1>5 DEF Queued

\* The jobs counted against a pool are those placed on it.
LEMMA DemandIsOn ==
  ASSUME NEW acc \in Places, NEW room, NEW seen \in SUBSET Job, PlaceInv(acc, room, seen),
         NEW p \in Pool
  PROVE  DemandOf(p, acc.pool, seen) = On(acc, p)
<1>1. p # NoPool
  BY LabelsAssumption
<1>2. \A j \in Job : acc.pool[j] = p => j \in seen
  BY <1>1 DEF PlaceInv, SeenInv
<1> QED BY <1>2 DEF DemandOf, On

LEMMA QueuedAreJobs ==
  ASSUME NEW in \in Inputs
  PROVE  Queued(in) \in SUBSET Job
<1>1. in.queue \in Seq(Job)
  BY InputsAssumption
<1> QED BY <1>1 DEF Queued, ToSet

(* A job spills over before a full pool is charged with it, whatever the   *)
(* queue and the headroom (AssignDemand, scale.go:81-86).                  *)
THEOREM SpilloverComesFirst == Spec => []SpillsBeforeOverload
<1>1. DecisionInv => SpillsBeforeOverload
  <2> SUFFICES ASSUME DecisionInv, output.decided PROVE SpillsBeforeOverload
    BY DEF SpillsBeforeOverload
  <2>1. output = Outcome(input) /\ input \in Inputs
    BY DEF DecisionInv, None
  <2>2. output.room \in [Pool -> Nat]
    BY <2>1, Assigned
  <2>3. PICK acc \in Places :
          PlaceInv(acc, output.room, Queued(input)) /\ output.assigned = acc.pool
    BY <2>1, Assigned
  <2> DEFINE jobsOn(p) == DemandOf(p, output.assigned, Queued(input))
             charged(p) == Cardinality(jobsOn(p))
             stuck(p) == {j \in jobsOn(p) :
                            \A q \in Candidates(j) : charged(q) >= output.room[q]}
  <2>4. \A p \in Pool : jobsOn(p) = On(acc, p)
    BY <2>1, <2>3, DemandIsOn, QueuedAreJobs
  <2>5. ASSUME NEW p \in Pool
        PROVE  /\ charged(p) \in Nat /\ acc.room[p] \in Nat /\ output.room[p] \in Nat
               /\ charged(p) + acc.room[p] >= output.room[p]
               /\ charged(p) + acc.room[p] <= output.room[p] + Cardinality(Over(acc, p))
    <3> HIDE DEF jobsOn
    <3> QED BY <2>2, <2>3, <2>4, OnIsFinite DEF PlaceInv, RoomInv, Places
  <2> HIDE DEF charged
  <2>6. ASSUME NEW p \in Pool
        PROVE  Over(acc, p) \in SUBSET stuck(p) /\ IsFiniteSet(stuck(p))
    <3>1. ASSUME NEW j \in Over(acc, p), NEW q \in Candidates(j)
          PROVE  charged(q) >= output.room[q]
      <4>1. q \in Pool /\ acc.room[q] = 0
        BY <3>1 DEF Over, Candidates
      <4> QED BY <2>5, <4>1
    <3> HIDE DEF jobsOn
    <3>2. Over(acc, p) \in SUBSET jobsOn(p)
      BY <2>4 DEF Over
    <3>3. stuck(p) \in SUBSET On(acc, p)
      BY <2>4
    <3>4. IsFiniteSet(stuck(p))
      BY <3>3, OnIsFinite, FS_Subset
    <3> QED BY <3>1, <3>2, <3>4
  <2>7. ASSUME NEW p \in Pool, charged(p) > output.room[p]
        PROVE  Cardinality(stuck(p)) >= charged(p) - output.room[p]
    <3> HIDE DEF stuck, jobsOn
    <3>1. Cardinality(Over(acc, p)) <= Cardinality(stuck(p)) /\ Cardinality(stuck(p)) \in Nat
          /\ Cardinality(Over(acc, p)) \in Nat
      BY <2>6, OnIsFinite, FS_Subset, FS_CardinalityType
    <3> QED BY <2>5, <3>1
  <2> QED BY <2>7 DEF SpillsBeforeOverload, charged
<1> QED BY <1>1, DecisionIsItsOutcome, PTL

(* A pool with more labels is spared while one with fewer has headroom     *)
(* left, and only a job that no pool carries is left out (Candidates,      *)
(* scale.go:52-57).                                                        *)
THEOREM ScarcePoolsAlwaysSpared == Spec => []ScarcePoolsAreSpared
<1>1. DecisionInv => ScarcePoolsAreSpared
  <2> SUFFICES ASSUME DecisionInv, output.decided, NEW j \in Queued(input)
               PROVE  /\ output.assigned[j] = NoPool <=> Candidates(j) = {}
                      /\ \A p, q \in Candidates(j) :
                           output.assigned[j] = p /\ Size(q) < Size(p)
                             => Cardinality(DemandOf(q, output.assigned, Queued(input)))
                                  >= output.room[q]
    BY DEF ScarcePoolsAreSpared, Size
  <2>1. output = Outcome(input) /\ input \in Inputs
    BY DEF DecisionInv, None
  <2>2. output.room \in [Pool -> Nat]
    BY <2>1, Assigned
  <2>3. PICK acc \in Places :
          PlaceInv(acc, output.room, Queued(input)) /\ output.assigned = acc.pool
    BY <2>1, Assigned
  <2>4. j \in Job
    BY <2>1, QueuedAreJobs
  <2>5. output.assigned[j] = NoPool <=> Candidates(j) = {}
    BY <2>3, <2>4, LabelsAssumption DEF PlaceInv, SeenInv, Candidates
  <2>6. ASSUME NEW p \in Candidates(j), NEW q \in Candidates(j),
               output.assigned[j] = p, Size(q) < Size(p)
        PROVE  Cardinality(DemandOf(q, output.assigned, Queued(input))) >= output.room[q]
    <3>1. q \in Pool /\ acc.room[q] = 0
      BY <2>3, <2>4, <2>6 DEF PlaceInv, SpareInv, Candidates
    <3>2. DemandOf(q, output.assigned, Queued(input)) = On(acc, q)
      BY <2>1, <2>3, <3>1, DemandIsOn, QueuedAreJobs
    <3>3. Cardinality(On(acc, q)) + acc.room[q] >= output.room[q]
      BY <2>3, <3>1 DEF PlaceInv, RoomInv
    <3>4. Cardinality(On(acc, q)) \in Nat
      BY OnIsFinite
    <3> QED BY <2>2, <3>1, <3>2, <3>3, <3>4
  <2> QED BY <2>5, <2>6
<1> QED BY <1>1, DecisionIsItsOutcome, PTL

---------------------------------------------------------------------------
(* Foreign idle runners are used up *)

Matches(slots) == [free : SUBSET DOMAIN slots, covered : SUBSET Job]

Matching(slots, acc, f) ==
  /\ f \in [acc.covered -> DOMAIN slots]
  /\ \A j, k \in acc.covered : f[j] = f[k] => j = k
  /\ \A j \in acc.covered : Covers(slots[f[j]], j)
  /\ \A i \in DOMAIN slots : (\A k \in acc.covered : f[k] # i) <=> i \in acc.free

(* The covered jobs have a runner each, the runners left over are free,    *)
(* and none of those covers a job that was seen and not covered.           *)
MatchInv(slots, acc, seen) ==
  /\ acc.covered \subseteq seen
  /\ \E f : Matching(slots, acc, f)
  /\ \A j \in seen \ acc.covered, i \in acc.free : ~Covers(slots[i], j)

LEMMA Consuming ==
  ASSUME NEW slots, DOMAIN slots \subseteq Nat, NEW acc \in Matches(slots), NEW j \in Job
  PROVE  /\ ConsumeSlot(slots, acc, j) \in Matches(slots)
         /\ \/ Fitting(slots, acc.free, j) = {} /\ ConsumeSlot(slots, acc, j) = acc
            \/ \E i \in acc.free :
                 /\ Covers(slots[i], j)
                 /\ ConsumeSlot(slots, acc, j) = [free    |-> acc.free \ {i},
                                                  covered |-> acc.covered \cup {j}]
<1> DEFINE fits == Fitting(slots, acc.free, j)
           i == CHOOSE m \in fits : \A k \in fits : m <= k
<1>1. CASE fits = {}
  BY <1>1 DEF ConsumeSlot
<1>2. CASE fits # {}
  <2>1. fits \subseteq Nat /\ fits \subseteq acc.free /\ acc.free \subseteq DOMAIN slots
    BY DEF Fitting, Matches
  <2>2. i \in fits
    <3> HIDE DEF fits
    <3>1. \E m \in fits : \A k \in fits : m <= k
      BY <1>2, <2>1, LeastExists
    <3> QED BY <3>1
  <2>3. ConsumeSlot(slots, acc, j) = [free    |-> acc.free \ {i},
                                      covered |-> acc.covered \cup {j}]
    BY <1>2 DEF ConsumeSlot
  <2>4. i \in acc.free /\ Covers(slots[i], j)
    <3> HIDE DEF i
    <3> QED BY <2>2 DEF Fitting
  <2> HIDE DEF i, fits
  <2>5. ConsumeSlot(slots, acc, j) \in Matches(slots)
    BY <2>1, <2>3 DEF Matches
  <2> QED BY <2>3, <2>4, <2>5
<1> QED BY <1>1, <1>2

LEMMA MatchStep ==
  ASSUME NEW slots, DOMAIN slots \subseteq Nat, NEW acc \in Matches(slots),
         NEW seen, MatchInv(slots, acc, seen), NEW j \in Job \ seen
  PROVE  MatchInv(slots, ConsumeSlot(slots, acc, j), seen \cup {j})
<1> DEFINE new == ConsumeSlot(slots, acc, j)
<1>1. CASE Fitting(slots, acc.free, j) = {} /\ new = acc
  BY <1>1 DEF MatchInv, Fitting
<1>2. ASSUME NEW i \in acc.free, Covers(slots[i], j),
             new = [free |-> acc.free \ {i}, covered |-> acc.covered \cup {j}]
      PROVE  MatchInv(slots, new, seen \cup {j})
  <2> HIDE DEF new
  <2>1. new.free = acc.free \ {i} /\ new.covered = acc.covered \cup {j}
    BY <1>2
  <2>2. PICK f : Matching(slots, acc, f)
    BY DEF MatchInv
  <2>3. acc.covered \subseteq seen /\ j \notin acc.covered /\ i \in DOMAIN slots
    BY DEF MatchInv, Matches
  <2> DEFINE g == [k \in acc.covered \cup {j} |-> IF k = j THEN i ELSE f[k]]
  <2>4. g[j] = i /\ \A k \in acc.covered : g[k] = f[k] /\ f[k] # i
    BY <2>2, <2>3 DEF Matching
  <2>5. g \in [acc.covered \cup {j} -> DOMAIN slots]
    BY <2>2, <2>3 DEF Matching
  <2> HIDE DEF g
  <2>6. \A k, m \in acc.covered \cup {j} : g[k] = g[m] => k = m
    BY <2>2, <2>4 DEF Matching
  <2>7. \A k \in acc.covered \cup {j} : Covers(slots[g[k]], k)
    BY <1>2, <2>2, <2>4 DEF Matching
  <2>8. ASSUME NEW m \in DOMAIN slots
        PROVE  (\A k \in acc.covered \cup {j} : g[k] # m) <=> m \in acc.free \ {i}
    <3>1. (\A k \in acc.covered : f[k] # m) <=> m \in acc.free
      BY <2>2 DEF Matching
    <3> QED BY <2>4, <3>1
  <2>9. Matching(slots, new, g)
    BY <2>1, <2>5, <2>6, <2>7, <2>8 DEF Matching
  <2>10. \A k \in (seen \cup {j}) \ new.covered, m \in new.free : ~Covers(slots[m], k)
    BY <2>1 DEF MatchInv
  <2> QED BY <2>1, <2>3, <2>9, <2>10 DEF MatchInv
<1> QED BY <1>1, <1>2, Consuming

(* The jobs of one pool: what ForPool computes, and what then holds. *)
LEMMA ForPoolIs ==
  ASSUME NEW slots, DOMAIN slots \subseteq Nat, NEW acc \in Matches(slots),
         NEW queue \in Seq(Job), NEW assigned, NEW p
  PROVE  LET f == ForPool(p, acc, assigned, queue, slots)
         IN  /\ f[0] = acc
             /\ \A n \in 1 .. Len(queue) :
                  f[n] = IF assigned[queue[n]] = p THEN ConsumeSlot(slots, f[n - 1], queue[n])
                                                   ELSE f[n - 1]
             /\ \A n \in 0 .. Len(queue) : f[n] \in Matches(slots)
<1> DEFINE N == Len(queue)
           M == Matches(slots)
           After(n, a) == IF assigned[queue[n]] = p THEN ConsumeSlot(slots, a, queue[n]) ELSE a
           step == [n \in 1 .. N |-> [a \in M |-> After(n, a)]]
           D(g) == [n \in 0 .. N |-> IF n = 0 THEN acc
                                     ELSE IF assigned[queue[n]] = p
                                          THEN ConsumeSlot(slots, g[n - 1], queue[n])
                                     ELSE g[n - 1]]
           P == ForPool(p, acc, assigned, queue, slots)
<1>0. N \in Nat /\ \A n \in 1 .. N : queue[n] \in Job
  OBVIOUS
<1>1. \A n \in 1 .. N, a \in M : After(n, a) \in M
  BY <1>0, Consuming
<1>2. step \in [1 .. N -> [M -> M]]
  <2> HIDE DEF After, M
  <2> QED BY <1>1
<1>3. PICK f \in [0 .. N -> M] : f[0] = acc /\ \A n \in 1 .. N : f[n] = step[n][f[n - 1]]
  <2>1. acc \in M
    OBVIOUS
  <2> HIDE DEF N, M, step
  <2>2. \E f \in [0 .. N -> M] : Carries(f, N, acc, step)
    BY <1>0, <1>2, <2>1, Recursion
  <2> QED BY <2>2 DEF Carries
<1>4. f = D(f)
  <2>1. \A n \in 1 .. N : f[n] = After(n, f[n - 1])
    <3>1. TAKE n \in 1 .. N
    <3>2. n - 1 \in 0 .. N
      BY <1>0
    <3>3. f[n - 1] \in M
      BY <1>3, <3>2
    <3> HIDE DEF N, M, After
    <3> QED BY <1>3, <3>3
  <2>2. \A n \in 0 .. N : f[n] = IF n = 0 THEN acc ELSE After(n, f[n - 1])
    <3> HIDE DEF After, M
    <3> QED BY <1>0, <1>3, <2>1
  <2> HIDE DEF M
  <2> QED BY <1>3, <2>2
<1>5. P = CHOOSE g : g = D(g)
  BY DEF ForPool
<1>6. P = D(P)
  <2> HIDE DEF D, P
  <2> QED BY <1>4, <1>5
<1>7. P[0] = acc
  <2> HIDE DEF P
  <2> QED BY <1>0, <1>6
<1>8. \A n \in 1 .. N : P[n] = After(n, P[n - 1])
  <2> HIDE DEF P
  <2> QED BY <1>0, <1>6
<1>9. \A n \in 0 .. N : P[n] \in M
  <2> DEFINE T == {n \in 0 .. N : P[n] \in M}
  <2>0. acc \in M
    OBVIOUS
  <2> HIDE DEF P, After, M
  <2>1. 0 \in T
    BY <1>0, <1>7, <2>0
  <2>2. ASSUME NEW n \in 0 .. N, n \in T, n < N
        PROVE  n + 1 \in T
    <3>1. n + 1 \in 1 .. N /\ n + 1 \in 0 .. N /\ (n + 1) - 1 = n
      BY <1>0, <2>2
    <3>2. P[n] \in M /\ P[n + 1] = After(n + 1, P[n])
      BY <1>8, <2>2, <3>1
    <3> QED BY <1>1, <3>1, <3>2
  <2> HIDE DEF T
  <2>3. 0 .. N \subseteq T
    BY <1>0, <2>1, <2>2, Induction
  <2> QED BY <2>3 DEF T
<1> QED BY <1>7, <1>8, <1>9

LEMMA ForPoolInv ==
  ASSUME NEW slots, DOMAIN slots \subseteq Nat, NEW acc \in Matches(slots),
         NEW queue \in Seq(Job), \A i, k \in DOMAIN queue : queue[i] = queue[k] => i = k,
         NEW assigned, NEW p, NEW seen, MatchInv(slots, acc, seen),
         \A j \in seen : assigned[j] # p
  PROVE  MatchInv(slots, ForPool(p, acc, assigned, queue, slots)[Len(queue)],
                  seen \cup DemandOf(p, assigned, ToSet(queue)))
<1> DEFINE N == Len(queue)
           P == ForPool(p, acc, assigned, queue, slots)
           Sees(n) == seen \cup {j \in Upto(queue, n) : assigned[j] = p}
           T == {n \in 0 .. N : MatchInv(slots, P[n], Sees(n))}
<1>0. N \in Nat /\ \A n \in 1 .. N : queue[n] \in Job
  OBVIOUS
<1>1. /\ P[0] = acc
      /\ \A n \in 1 .. N :
           P[n] = IF assigned[queue[n]] = p THEN ConsumeSlot(slots, P[n - 1], queue[n])
                                            ELSE P[n - 1]
      /\ \A n \in 0 .. N : P[n] \in Matches(slots)
  BY ForPoolIs
<1> HIDE DEF P
<1>2. 0 \in T
  <2>1. Sees(0) = seen
    BY DEF Upto
  <2>2. MatchInv(slots, P[0], Sees(0))
    BY <1>1, <2>1
  <2> QED BY <1>0, <2>2
<1>3. ASSUME NEW n \in 0 .. N, n \in T, n < N
      PROVE  n + 1 \in T
  <2>1. n + 1 \in 1 .. N /\ n + 1 \in 0 .. N /\ (n + 1) - 1 = n
    BY <1>0, <1>3
  <2> DEFINE j == queue[n + 1]
  <2>2. /\ P[n + 1] = IF assigned[j] = p THEN ConsumeSlot(slots, P[n], j) ELSE P[n]
        /\ P[n] \in Matches(slots) /\ j \in Job
    BY <1>0, <1>1, <1>3, <2>1
  <2>3. Upto(queue, n + 1) = Upto(queue, n) \cup {j}
    BY <1>0, <1>3, <2>1 DEF Upto
  <2>4. j \notin Upto(queue, n)
    <3>1. DOMAIN queue = 1 .. N
      OBVIOUS
    <3>2. ASSUME NEW i \in 1 .. n, queue[i] = queue[n + 1] PROVE FALSE
      <4>1. i \in DOMAIN queue /\ n + 1 \in DOMAIN queue /\ i # n + 1
        BY <1>0, <2>1, <3>1, <3>2
      <4> QED BY <3>2, <4>1
    <3> QED BY <3>2 DEF Upto
  <2>5. MatchInv(slots, P[n], Sees(n))
    BY <1>3
  <2> HIDE DEF j
  <2>6. CASE assigned[j] = p
    <3>1. Sees(n + 1) = Sees(n) \cup {j} /\ j \in Job \ Sees(n)
      BY <2>2, <2>3, <2>4, <2>6
    <3>2. MatchInv(slots, ConsumeSlot(slots, P[n], j), Sees(n) \cup {j})
      <4> HIDE DEF Sees
      <4> QED BY <2>2, <2>5, <3>1, MatchStep
    <3>3. MatchInv(slots, P[n + 1], Sees(n + 1))
      BY <2>2, <2>6, <3>1, <3>2
    <3> QED BY <2>1, <3>3
  <2>7. CASE assigned[j] # p
    <3>1. Sees(n + 1) = Sees(n)
      BY <2>3, <2>7
    <3>2. MatchInv(slots, P[n + 1], Sees(n + 1))
      BY <2>2, <2>5, <2>7, <3>1
    <3> QED BY <2>1, <3>2
  <2> QED BY <2>6, <2>7
<1>4. MatchInv(slots, P[N], Sees(N))
  <2> HIDE DEF T
  <2>1. 0 .. N \subseteq T
    BY <1>0, <1>2, <1>3, Induction
  <2> QED BY <1>0, <2>1 DEF T
<1>5. Upto(queue, N) = ToSet(queue)
  BY DEF Upto, ToSet
<1> QED BY <1>4, <1>5 DEF P, DemandOf

LEMMA ForPoolType ==
  ASSUME NEW slots, DOMAIN slots \subseteq Nat, NEW acc \in Matches(slots),
         NEW queue \in Seq(Job), NEW assigned, NEW p
  PROVE  ForPool(p, acc, assigned, queue, slots)[Len(queue)] \in Matches(slots)
<1>1. Len(queue) \in 0 .. Len(queue)
  OBVIOUS
<1> QED BY <1>1, ForPoolIs

(* Pool by pool: what Consumed computes, and what then holds. *)
Unused(slots) == [free |-> DOMAIN slots, covered |-> {}]

LEMMA ConsumedIs ==
  ASSUME NEW slots, DOMAIN slots \subseteq Nat, NEW queue \in Seq(Job), NEW assigned
  PROVE  LET f == Consumed(assigned, queue, slots)
         IN  /\ f[0] = Unused(slots)
             /\ \A n \in 1 .. Len(PoolOrder) :
                  f[n] = ForPool(PoolOrder[n], f[n - 1], assigned, queue, slots)[Len(queue)]
             /\ \A n \in 0 .. Len(PoolOrder) : f[n] \in Matches(slots)
<1> DEFINE N == Len(PoolOrder)
           M == Matches(slots)
           base == Unused(slots)
           After(n, a) == ForPool(PoolOrder[n], a, assigned, queue, slots)[Len(queue)]
           step == [n \in 1 .. N |-> [a \in M |-> After(n, a)]]
           D(g) == [n \in 0 .. N |-> IF n = 0 THEN base ELSE After(n, g[n - 1])]
           P == Consumed(assigned, queue, slots)
<1>0. N \in Nat
  BY PoolsAssumption
<1>1. \A n \in 1 .. N, a \in M : After(n, a) \in M
  BY ForPoolType
<1>2. step \in [1 .. N -> [M -> M]]
  <2> HIDE DEF After, M
  <2> QED BY <1>1
<1>3. base \in M
  BY DEF Unused, Matches
<1>4. PICK f \in [0 .. N -> M] : f[0] = base /\ \A n \in 1 .. N : f[n] = step[n][f[n - 1]]
  <2> HIDE DEF N, M, step, base
  <2>2. \E f \in [0 .. N -> M] : Carries(f, N, base, step)
    BY <1>0, <1>2, <1>3, Recursion
  <2> QED BY <2>2 DEF Carries
<1>5. f = D(f)
  <2>1. \A n \in 1 .. N : f[n] = After(n, f[n - 1])
    <3>1. TAKE n \in 1 .. N
    <3>2. n - 1 \in 0 .. N
      BY <1>0
    <3>3. f[n - 1] \in M
      BY <1>4, <3>2
    <3> HIDE DEF N, M, After, base
    <3> QED BY <1>4, <3>3
  <2> HIDE DEF After, M, base
  <2>2. \A n \in 0 .. N : f[n] = IF n = 0 THEN base ELSE After(n, f[n - 1])
    BY <1>0, <1>4, <2>1
  <2> QED BY <1>4, <2>2
<1>6. P = CHOOSE g : g = D(g)
  BY DEF Consumed, Unused
<1>7. P = D(P)
  <2> HIDE DEF D, P
  <2> QED BY <1>5, <1>6
<1>8. P[0] = base
  <2> HIDE DEF P, base, After
  <2> QED BY <1>0, <1>7
<1>9. \A n \in 1 .. N : P[n] = After(n, P[n - 1])
  <2> HIDE DEF P, base, After
  <2> QED BY <1>0, <1>7
<1>10. \A n \in 0 .. N : P[n] \in M
  <2> DEFINE T == {n \in 0 .. N : P[n] \in M}
  <2> HIDE DEF P, After, M, base
  <2>1. 0 \in T
    BY <1>0, <1>3, <1>8
  <2>2. ASSUME NEW n \in 0 .. N, n \in T, n < N
        PROVE  n + 1 \in T
    <3>1. n + 1 \in 1 .. N /\ n + 1 \in 0 .. N /\ (n + 1) - 1 = n
      BY <1>0, <2>2
    <3>2. P[n] \in M /\ P[n + 1] = After(n + 1, P[n])
      BY <1>9, <2>2, <3>1
    <3> QED BY <1>1, <3>1, <3>2
  <2> HIDE DEF T
  <2>3. 0 .. N \subseteq T
    BY <1>0, <2>1, <2>2, Induction
  <2> QED BY <2>3 DEF T
<1> QED BY <1>8, <1>9, <1>10

LEMMA ConsumedInv ==
  ASSUME NEW slots, DOMAIN slots \subseteq Nat,
         NEW queue \in Seq(Job), \A i, k \in DOMAIN queue : queue[i] = queue[k] => i = k,
         NEW assigned
  PROVE  LET acc == Consumed(assigned, queue, slots)[Len(PoolOrder)]
         IN  /\ acc \in Matches(slots)
             /\ MatchInv(slots, acc, {j \in ToSet(queue) : assigned[j] \in Pool})
<1> DEFINE N == Len(PoolOrder)
           P == Consumed(assigned, queue, slots)
           Done(n) == {PoolOrder[i] : i \in 1 .. n}
           Sees(n) == {j \in ToSet(queue) : assigned[j] \in Done(n)}
           T == {n \in 0 .. N : MatchInv(slots, P[n], Sees(n))}
<1>0. N \in Nat /\ DOMAIN PoolOrder = 1 .. N
  BY PoolsAssumption
<1>1. /\ P[0] = Unused(slots)
      /\ \A n \in 1 .. N : P[n] = ForPool(PoolOrder[n], P[n - 1], assigned, queue, slots)[Len(queue)]
      /\ \A n \in 0 .. N : P[n] \in Matches(slots)
  BY ConsumedIs
<1> HIDE DEF P
<1>2. 0 \in T
  <2>1. Sees(0) = {}
    OBVIOUS
  <2>2. Matching(slots, Unused(slots), [j \in {} |-> 0])
    BY DEF Matching, Unused
  <2>3. MatchInv(slots, Unused(slots), {})
    BY <2>2 DEF MatchInv, Unused
  <2>4. MatchInv(slots, P[0], Sees(0))
    BY <1>1, <2>1, <2>3
  <2> HIDE DEF Sees, Done
  <2> QED BY <1>0, <2>4
<1>3. ASSUME NEW n \in 0 .. N, n \in T, n < N
      PROVE  n + 1 \in T
  <2>1. n + 1 \in 1 .. N /\ n + 1 \in 0 .. N /\ (n + 1) - 1 = n
    BY <1>0, <1>3
  <2> DEFINE p == PoolOrder[n + 1]
  <2>2. P[n + 1] = ForPool(p, P[n], assigned, queue, slots)[Len(queue)] /\ P[n] \in Matches(slots)
    BY <1>1, <1>3, <2>1
  <2>3. Done(n + 1) = Done(n) \cup {p}
    BY <1>0, <1>3, <2>1
  <2>4. p \notin Done(n)
    <3>1. ASSUME NEW i \in 1 .. n, PoolOrder[i] = PoolOrder[n + 1] PROVE FALSE
      <4>1. i \in DOMAIN PoolOrder /\ n + 1 \in DOMAIN PoolOrder /\ i # n + 1
        BY <1>0, <2>1, <3>1
      <4> QED BY <3>1, <4>1, PoolsAssumption
    <3> QED BY <3>1
  <2>5. MatchInv(slots, P[n], Sees(n))
    BY <1>3
  <2> HIDE DEF Done, p
  <2>6. Sees(n + 1) = Sees(n) \cup DemandOf(p, assigned, ToSet(queue))
    BY <2>3 DEF DemandOf
  <2>7. \A j \in Sees(n) : assigned[j] # p
    BY <2>4
  <2>8. MatchInv(slots, P[n + 1], Sees(n + 1))
    <3> HIDE DEF Sees
    <3>1. MatchInv(slots, ForPool(p, P[n], assigned, queue, slots)[Len(queue)],
                   Sees(n) \cup DemandOf(p, assigned, ToSet(queue)))
      BY <2>2, <2>5, <2>7, ForPoolInv
    <3> QED BY <2>2, <2>6, <3>1
  <2> QED BY <2>1, <2>8
<1>4. MatchInv(slots, P[N], Sees(N)) /\ P[N] \in Matches(slots)
  <2>1. N \in 0 .. N
    BY <1>0
  <2> HIDE DEF T
  <2>2. 0 .. N \subseteq T
    BY <1>0, <1>2, <1>3, Induction
  <2> QED BY <1>1, <2>1, <2>2 DEF T
<1>5. Done(N) = Pool
  BY <1>0 DEF Pool, ToSet
<1> QED BY <1>4, <1>5 DEF P

(* Foreign idle runners discount a maximal matching, whatever the queue,   *)
(* the runners and their labels (discountForeignIdle,                      *)
(* orchestrator.go:643-678).                                               *)
THEOREM DiscountAlwaysMaximal == Spec => []DiscountIsAMaximalMatching
<1>1. DecisionInv => DiscountIsAMaximalMatching
  <2> SUFFICES ASSUME DecisionInv, output.decided PROVE DiscountIsAMaximalMatching
    BY DEF DiscountIsAMaximalMatching
  <2>1. output = Outcome(input) /\ input \in Inputs
    BY DEF DecisionInv, None
  <2> DEFINE slots == input.slots
             queue == input.queue
             assigned == output.assigned
             acc == Consumed(assigned, queue, slots)[Len(PoolOrder)]
             counted == {j \in Queued(input) : assigned[j] # NoPool}
             dropped == {j \in counted : output.left[j] = NoPool}
  <2>2. /\ queue \in Seq(Job) /\ DOMAIN slots \subseteq Nat
        /\ \A i, k \in DOMAIN queue : queue[i] = queue[k] => i = k
    BY <2>1, InputsAssumption
  <2>3. assigned \in [Job -> Pool \cup {NoPool}]
    BY <2>1, Assigned DEF Places
  <2>4. output.left = DiscountForeignIdle(assigned, queue, slots)
    BY <2>1 DEF Outcome
  <2>5. Queued(input) \in SUBSET Job
    BY <2>1, QueuedAreJobs
  <2>6. counted = {j \in ToSet(queue) : assigned[j] \in Pool}
    BY <2>3, <2>5, LabelsAssumption DEF Queued
  <2>7. acc \in Matches(slots) /\ MatchInv(slots, acc, counted)
    <3> HIDE DEF slots, queue, assigned, counted
    <3> QED BY <2>2, <2>6, ConsumedInv
  <2>8. \A j \in Job : output.left[j] = IF j \in acc.covered THEN NoPool ELSE assigned[j]
    BY <2>4 DEF DiscountForeignIdle
  <2>9. dropped = acc.covered
    <3>1. acc.covered \subseteq counted
      BY <2>7 DEF MatchInv
    <3> HIDE DEF acc
    <3> QED BY <2>5, <2>8, <3>1
  <2> HIDE DEF acc, dropped
  <2>10. PICK f : Matching(slots, acc, f)
    BY <2>7 DEF MatchInv
  <2>11. f \in [dropped -> DOMAIN slots]
    BY <2>9, <2>10 DEF Matching
  <2>12. \A j, k \in dropped : f[j] = f[k] => j = k
    BY <2>9, <2>10 DEF Matching
  <2>13. \A j \in dropped : Covers(slots[f[j]], j)
    BY <2>9, <2>10 DEF Matching
  <2>14. ASSUME NEW j \in counted \ dropped, NEW i \in DOMAIN slots,
                \A k \in dropped : f[k] # i
         PROVE  ~Covers(slots[i], j)
    <3>1. i \in acc.free
      BY <2>9, <2>10, <2>14 DEF Matching
    <3> HIDE DEF counted
    <3> QED BY <2>7, <2>9, <2>14, <3>1 DEF MatchInv
  <2> HIDE DEF counted, slots
  <2>15. \E g \in [dropped -> DOMAIN slots] :
           /\ \A j, k \in dropped : g[j] = g[k] => j = k
           /\ \A j \in dropped : Covers(slots[g[j]], j)
           /\ \A j \in counted \ dropped, i \in DOMAIN slots :
                (\A k \in dropped : g[k] # i) => ~Covers(slots[i], j)
    BY <2>11, <2>12, <2>13, <2>14
  <2> QED BY <2>15 DEF DiscountIsAMaximalMatching, counted, slots, dropped
<1> QED BY <1>1, DecisionIsItsOutcome, PTL

---------------------------------------------------------------------------
(* The plan of one pool *)

LEMMA PlanType ==
  ASSUME NEW st \in PoolState, NEW demand \in Nat, NEW lim \in Limits
  PROVE  /\ Plan(st, demand, lim).create \in Nat
         /\ Plan(st, demand, lim).cull \in Nat
  BY SMT DEF PoolState, Limits, Plan, Clamp, AtMost

(* Culling takes idle runners only, and what is left still covers the      *)
(* target: the busy runners, the waiting jobs and the warm floor, up to    *)
(* the maximum (Plan, scale.go:164-174, 196-200).                          *)
THEOREM CullingKeepsTarget ==
  ASSUME NEW st \in PoolState, NEW demand \in Nat, NEW lim \in Limits,
         lim.min <= lim.max,
         Plan(st, demand, lim).cull > 0
  PROVE  LET left == st.live - Plan(st, demand, lim).cull
         IN  /\ Plan(st, demand, lim).cull <= st.idle
             /\ left >= lim.min
             /\ left >= st.busy + demand \/ left >= lim.max
  BY SMT DEF PoolState, Limits, Plan, Clamp, AtMost

(* After the plan, every waiting job has a runner that is not busy unless  *)
(* the pool is at its maximum: "one fresh runner per waiting job"          *)
(* (scale.go:170-174).                                                     *)
THEOREM OneFreshRunnerPerJob ==
  ASSUME NEW st \in PoolState, NEW demand \in Nat, NEW lim \in Limits
  PROVE  LET after == st.live + Plan(st, demand, lim).create - Plan(st, demand, lim).cull
         IN  after - st.busy >= demand \/ after >= lim.max
  BY SMT DEF PoolState, Limits, Plan, Clamp, AtMost

(* Every pool's plan covers the jobs that still count, keeps the warm      *)
(* floor, creates no more than the maximum and culls idle runners only     *)
(* (Plan, scale.go:164-174 and 196-200).                                   *)
THEOREM PlanAlwaysCoversDemand == Spec => []PlanCoversDemand
<1>1. DecisionInv => PlanCoversDemand
  <2> SUFFICES ASSUME DecisionInv, output.decided, NEW p \in Pool
               PROVE  LET st == input.state[p]
                          lim == LimitsIn(input)[p]
                          waiting == Cardinality(DemandOf(p, output.left, Queued(input)))
                          after == st.live + output.plan[p].create - output.plan[p].cull
                      IN  /\ after - st.busy >= waiting \/ after >= lim.max
                          /\ after >= lim.min
                          /\ output.plan[p].create > 0 => after <= lim.max
                          /\ output.plan[p].cull <= st.idle
    BY DEF PlanCoversDemand
  <2> DEFINE st == input.state[p]
             lim == LimitsIn(input)[p]
             demand == Cardinality(DemandOf(p, output.left, Queued(input)))
  <2>1. output = Outcome(input) /\ input \in Inputs
    BY DEF DecisionInv, None
  <2>2. st \in PoolState
    BY <2>1, InputsAssumption
  <2>3. lim \in Limits /\ lim.min <= lim.max
    BY <2>1, InputTypes
  <2>4. demand \in Nat
    <3>1. DemandOf(p, output.left, Queued(input)) \in SUBSET Job
      BY <2>1, QueuedAreJobs DEF DemandOf
    <3> QED BY <3>1, JobsAssumption, FS_Subset, FS_CardinalityType
  <2>5. output.plan[p] = Plan(st, demand, lim)
    BY <2>1 DEF Outcome
  <2> HIDE DEF st, lim, demand
  <2>6. /\ st.live + Plan(st, demand, lim).create - Plan(st, demand, lim).cull >= lim.min
        /\ Plan(st, demand, lim).create > 0 =>
             st.live + Plan(st, demand, lim).create - Plan(st, demand, lim).cull <= lim.max
        /\ Plan(st, demand, lim).cull <= st.idle
    BY <2>2, <2>3, <2>4, SMT DEF PoolState, Limits, Plan, Clamp, AtMost
  <2>7. \/ st.live + Plan(st, demand, lim).create - Plan(st, demand, lim).cull - st.busy >= demand
        \/ st.live + Plan(st, demand, lim).create - Plan(st, demand, lim).cull >= lim.max
    BY <2>2, <2>3, <2>4, SMT DEF PoolState, Limits, Plan, Clamp, AtMost
  <2> DEFINE after == st.live + output.plan[p].create - output.plan[p].cull
  <2>8. /\ after - st.busy >= demand \/ after >= lim.max
        /\ after >= lim.min
        /\ output.plan[p].create > 0 => after <= lim.max
        /\ output.plan[p].cull <= st.idle
    BY <2>2, <2>3, <2>4, <2>5, <2>6, <2>7, PlanType DEF PoolState, Limits
  <2> QED BY <2>8 DEF st, lim, demand
<1> QED BY <1>1, DecisionIsItsOutcome, PTL
=============================================================================
