------------------------------ MODULE Decision ------------------------------
(***************************************************************************)
(* Steps 4 and 5 of reconcileOnce as one decision, every pool at once: the *)
(* queue is assigned to pools, what foreign runners will take is           *)
(* discounted, and each pool gets its plan.  A behaviour is one decision,  *)
(* on any input a pass may have read.  Drained pools, whose plan has       *)
(* limits and demand of zero, are left to Reconcile.                       *)
(***************************************************************************)
EXTENDS Scaling

CONSTANT Inputs   \* what a pass may have read

Limits    == [min : Nat, max : Nat]
Override  == [min : Nat \cup {Unset}, max : Nat \cup {Unset}]
PoolState == [live : Nat, busy : Nat, idle : Nat]

(* A pass has read the queue, the idle runners that are not its own, what  *)
(* each pool runs, and the limits in the file and on top of it.  No job is *)
(* queued twice (PendingJobs drops duplicates).                            *)
ASSUME InputsAssumption ==
  \A in \in Inputs :
    /\ in.queue \in Seq(Job)
    /\ \A i, k \in DOMAIN in.queue : in.queue[i] = in.queue[k] => i = k
    /\ DOMAIN in.slots = 1 .. Len(in.slots) /\ Len(in.slots) \in Nat
    /\ in.state \in [Pool -> PoolState]
    /\ in.conf \in [Pool -> Limits] /\ in.override \in [Pool -> Override]

VARIABLES input, output
vars == <<input, output>>

Queued(in) == ToSet(in.queue)

LimitsIn(in) == [p \in Pool |-> EffectiveLimits(in.conf[p], in.override[p])]

Outcome(in) ==
  LET live     == [p \in Pool |-> in.state[p].live]
      limits   == LimitsIn(in)
      assigned == AssignDemand(in.queue, live, limits)
      left     == DiscountForeignIdle(assigned, in.queue, in.slots)
  IN  [decided  |-> TRUE,
       room     |-> Headroom(live, limits),
       assigned |-> assigned,
       left     |-> left,
       plan     |-> [p \in Pool |->
                       Plan(in.state[p], Cardinality(DemandOf(p, left, Queued(in))), limits[p])]]

None == [decided |-> FALSE]

Init == input \in Inputs /\ output = None

Decide ==
  /\ output = None
  /\ output' = Outcome(input)
  /\ UNCHANGED input

Spec == Init /\ [][Decide]_vars

---------------------------------------------------------------------------
(* A job spills over before a full pool is charged with it: when a pool is *)
(* charged beyond its headroom, at least that many of its jobs have no     *)
(* candidate with headroom left (AssignDemand, scale.go:81-86).            *)
SpillsBeforeOverload ==
  output.decided =>
    LET jobsOn(p) == DemandOf(p, output.assigned, Queued(input))
        charged(p) == Cardinality(jobsOn(p))
        stuck(p) == {j \in jobsOn(p) :
                       \A q \in Candidates(j) : charged(q) >= output.room[q]}
    IN  \A p \in Pool :
          charged(p) > output.room[p] =>
            Cardinality(stuck(p)) >= charged(p) - output.room[p]

(* A job is not put on a pool with more labels while a candidate with      *)
(* fewer still had headroom at the end (Candidates, scale.go:52-57), and a *)
(* job is left unassigned exactly when no pool carries all its labels.     *)
ScarcePoolsAreSpared ==
  output.decided =>
    \A j \in Queued(input) :
      /\ output.assigned[j] = NoPool <=> Candidates(j) = {}
      /\ \A p, q \in Candidates(j) :
           (output.assigned[j] = p /\ Cardinality(LabelSet(q)) < Cardinality(LabelSet(p)))
             => Cardinality(DemandOf(q, output.assigned, Queued(input))) >= output.room[q]

(* Foreign idle runners discount a maximal matching: the jobs dropped can  *)
(* be given distinct runners that cover them, and no runner that is left   *)
(* covers a job that still counts (discountForeignIdle).                   *)
DiscountIsAMaximalMatching ==
  output.decided =>
    LET counted == {j \in Queued(input) : output.assigned[j] # NoPool}
        dropped == {j \in counted : output.left[j] = NoPool}
    IN  \E f \in [dropped -> DOMAIN input.slots] :
          /\ \A j, k \in dropped : f[j] = f[k] => j = k
          /\ \A j \in dropped : Covers(input.slots[f[j]], j)
          /\ \A j \in counted \ dropped, i \in DOMAIN input.slots :
               (\A k \in dropped : f[k] # i) => ~Covers(input.slots[i], j)

(* After the plan, every job that still counts has a runner that is not    *)
(* busy, up to the maximum; and culling takes idle runners only, never     *)
(* below what the busy runners, the waiting jobs and the warm floor need   *)
(* (Plan, scale.go:164-174 and 196-200).                                   *)
PlanCoversDemand ==
  output.decided =>
    \A p \in Pool :
      LET st == input.state[p]
          lim == LimitsIn(input)[p]
          waiting == Cardinality(DemandOf(p, output.left, Queued(input)))
          after == st.live + output.plan[p].create - output.plan[p].cull
      IN  /\ after - st.busy >= waiting \/ after >= lim.max
          /\ after >= lim.min
          /\ output.plan[p].create > 0 => after <= lim.max
          /\ output.plan[p].cull <= st.idle
=============================================================================
