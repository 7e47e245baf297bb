------------------------------ MODULE Scaling ------------------------------
(***************************************************************************)
(* The pure decisions of one reconcile pass:                               *)
(*                                                                         *)
(*   - which pool a queued job is counted against     (scale.go)           *)
(*   - which queued jobs other hosts' idle runners already cover           *)
(*   - how many runners a pool creates or culls       (scale.go, Plan)     *)
(*                                                                         *)
(* Labels are lower-cased in the code before they are compared; here a     *)
(* label is an element of a set, so two spellings are one element.  Jobs   *)
(* are their ids: PendingJobs returns them in ascending order of id.       *)
(***************************************************************************)
EXTENDS PoolLimits, Sequences, FiniteSets, SequencesExt

CONSTANTS
  PoolOrder,    \* the pools, in the order of the configuration file
  PoolLabels,   \* [pool -> labels it lists]
  JobLabels,    \* [job -> labels of runs-on]
  JobRepo       \* [job -> repository]

Pool == ToSet(PoolOrder)
Job  == DOMAIN JobLabels

ASSUME PoolsAssumption ==
  /\ PoolOrder \in Seq(Pool) /\ PoolOrder # <<>>
  /\ \A i, k \in DOMAIN PoolOrder : PoolOrder[i] = PoolOrder[k] => i = k
ASSUME JobsAssumption  == Job \subseteq Nat /\ IsFiniteSet(Job)

NoPool  == "no pool"
AnyRepo == ""               \* a registration on the organisation

ASSUME LabelsAssumption ==
  NoPool \notin Pool /\ \A p \in Pool : IsFiniteSet(PoolLabels[p])

---------------------------------------------------------------------------
(* Assignment of queued jobs to pools *)

(* Every runner carries "self-hosted" whether or not the pool lists it. *)
LabelSet(p) == PoolLabels[p] \cup {"self-hosted"}

CanServe(p, j) == JobLabels[j] \subseteq LabelSet(p)

Candidates(j) == {p \in Pool : CanServe(p, j)}

Position(p) == CHOOSE i \in DOMAIN PoolOrder : PoolOrder[i] = p

(* Mutant: configuration order alone decides. *)
MTightestIsFirst(S) ==
  CHOOSE p \in S : \A q \in S \ {p} : Position(p) < Position(q)

(* The first of S in the stable sort by number of labels. *)
Tightest(S) ==
  CHOOSE p \in S : \A q \in S \ {p} :
    \/ Cardinality(LabelSet(p)) < Cardinality(LabelSet(q))
    \/ /\ Cardinality(LabelSet(p)) = Cardinality(LabelSet(q))
       /\ Position(p) < Position(q)

Headroom(live, limits) ==
  [p \in Pool |-> IF limits[p].max > live[p] THEN limits[p].max - live[p] ELSE 0]

(* Mutant: a full tightest candidate is charged although another has room. *)
MPlaceJobNeverSpills(acc, j) ==
  LET p == Tightest(Candidates(j))
  IN  IF Candidates(j) = {}
      THEN acc
      ELSE [pool |-> [acc.pool EXCEPT ![j] = p], room |-> acc.room]

(* One job: it takes a slot of the tightest candidate that has one; when   *)
(* all are full it still counts against the tightest.                      *)
PlaceJob(acc, j) ==
  LET open == {p \in Candidates(j) : acc.room[p] > 0}
      p    == Tightest(IF open # {} THEN open ELSE Candidates(j))
  IN  IF Candidates(j) = {}
      THEN acc
      ELSE [pool |-> [acc.pool EXCEPT ![j] = p],
            room |-> IF open # {} THEN [acc.room EXCEPT ![p] = @ - 1] ELSE acc.room]

(* After the first n jobs of the queue. *)
Placed(queue, live, limits) ==
  LET f[n \in 0 .. Len(queue)] ==
        IF n = 0
        THEN [pool |-> [j \in Job |-> NoPool], room |-> Headroom(live, limits)]
        ELSE PlaceJob(f[n - 1], queue[n])
  IN  f

(* [job -> pool it is counted against], NoPool for a job nobody can serve. *)
AssignDemand(queue, live, limits) == Placed(queue, live, limits)[Len(queue)].pool

Queue(jobs) == SetToSortSeq(jobs, <)

---------------------------------------------------------------------------
(* Jobs that an idle runner outside this host's control will take.  A slot *)
(* is the labels and the repository of such a runner.                      *)

Covers(slot, j) ==
  /\ slot.repo = AnyRepo \/ slot.repo = JobRepo[j]
  /\ JobLabels[j] \subseteq slot.labels

Fitting(slots, free, j) == {i \in free : Covers(slots[i], j)}

(* Mutant: the slot is not used up. *)
MConsumeSlotKeepsIt(slots, acc, j) ==
  IF Fitting(slots, acc.free, j) = {} THEN acc ELSE [acc EXCEPT !.covered = @ \cup {j}]

(* The first of the free slots that covers the job is used up. *)
ConsumeSlot(slots, acc, j) ==
  LET fits == Fitting(slots, acc.free, j)
  IN  IF fits = {}
      THEN acc
      ELSE [free    |-> acc.free \ {CHOOSE i \in fits : \A k \in fits : i <= k},
            covered |-> acc.covered \cup {j}]

(* After the first n jobs of the queue, of which those of one pool count. *)
ForPool(p, acc, assigned, queue, slots) ==
  LET f[n \in 0 .. Len(queue)] ==
        IF n = 0 THEN acc
        ELSE IF assigned[queue[n]] = p THEN ConsumeSlot(slots, f[n - 1], queue[n])
        ELSE f[n - 1]
  IN  f

(* After the first n pools. *)
Consumed(assigned, queue, slots) ==
  LET f[n \in 0 .. Len(PoolOrder)] ==
        IF n = 0 THEN [free |-> DOMAIN slots, covered |-> {}]
        ELSE ForPool(PoolOrder[n], f[n - 1], assigned, queue, slots)[Len(queue)]
  IN  f

DiscountForeignIdle(assigned, queue, slots) ==
  [j \in Job |->
     IF j \in Consumed(assigned, queue, slots)[Len(PoolOrder)].covered
     THEN NoPool ELSE assigned[j]]

(* Jobs counted against a pool. *)
DemandOf(p, assigned, jobs) == {j \in jobs : assigned[j] = p}

---------------------------------------------------------------------------
(* The decision for one pool *)

Clamp(x, lo, hi) ==
  LET raised == IF x < lo THEN lo ELSE x
  IN  IF raised > hi THEN hi ELSE raised

AtMost(x, y) == IF x > y THEN y ELSE x

(* Mutant: busy runners are expected to take the waiting jobs. *)
MPlanIgnoresBusy(st, demand, lim) ==
  LET desired == Clamp(demand, lim.min, lim.max)
  IN  [desired |-> desired,
       create  |-> IF st.live < desired THEN desired - st.live ELSE 0,
       cull    |-> IF st.live > desired THEN AtMost(st.live - desired, st.idle) ELSE 0]

(* st: how many instances are live, and how many of them GitHub reports    *)
(* busy and idle (online and not busy).                                    *)
Plan(st, demand, lim) ==
  LET desired == Clamp(st.busy + demand, lim.min, lim.max)
  IN  [desired |-> desired,
       create  |-> IF st.live < desired THEN desired - st.live ELSE 0,
       cull    |-> IF st.live > desired THEN AtMost(st.live - desired, st.idle) ELSE 0]
===========================================================================
