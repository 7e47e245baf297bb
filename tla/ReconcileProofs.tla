-------------------------- MODULE ReconcileProofs --------------------------
(***************************************************************************)
(* Theorems about the reconcile loop, for every set of runner names, pools *)
(* and jobs, every configuration and every choice of faults: the state is  *)
(* well typed, what it destroys and deregisters, how many runners it lets  *)
(* a pool have, and that it implements RunnerLife.                         *)
(***************************************************************************)
EXTENDS Reconcile, FiniteSetTheorems, TLAPS

---------------------------------------------------------------------------
(* The decision for one pool *)

Limits    == [min : Nat, max : Nat]
Override  == [min : Nat \cup {Unset}, max : Nat \cup {Unset}]
PoolState == [live : Nat, busy : Nat, idle : Nat]

(* The limits in force are natural numbers that do not cross, whatever the *)
(* override says: limitsFor lowers min to max (orchestrator.go:693).       *)
THEOREM LimitsNeverCross ==
  ASSUME NEW conf \in Limits, NEW o \in Override
  PROVE  /\ EffectiveLimits(conf, o) \in Limits
         /\ EffectiveLimits(conf, o).min <= EffectiveLimits(conf, o).max
  BY SMT DEF Limits, Override, Unset, EffectiveLimits

(* The counts Plan returns are natural numbers. *)
LEMMA PlanType ==
  ASSUME NEW st \in PoolState, NEW d \in Nat, NEW lim \in Limits
  PROVE  /\ Plan(st, d, lim).desired \in Nat
         /\ Plan(st, d, lim).create \in Nat
         /\ Plan(st, d, lim).cull \in Nat
  BY SMT DEF PoolState, Limits, Plan, Clamp, AtMost

(* A plan that creates never goes beyond the maximum, and never culls      *)
(* (Plan, scale.go:191).                                                   *)
THEOREM CreationStopsAtMax ==
  ASSUME NEW st \in PoolState, NEW d \in Nat, NEW lim \in Limits,
         Plan(st, d, lim).create > 0
  PROVE  /\ st.live + Plan(st, d, lim).create <= lim.max
         /\ Plan(st, d, lim).cull = 0
  BY SMT DEF PoolState, Limits, Plan, Clamp, AtMost

---------------------------------------------------------------------------
(* What a pass reads *)

(* Every set the loop counts is finite. *)
LEMMA CountNames ==
  ASSUME NEW S \in SUBSET Name
  PROVE  IsFiniteSet(S) /\ Cardinality(S) \in Nat
  BY NamesAssumption, FS_Subset, FS_CardinalityType

LEMMA CountJobs ==
  ASSUME NEW S \in SUBSET Job
  PROVE  Cardinality(S) \in Nat
  BY JobsAssumption, FS_Subset, FS_CardinalityType

(* The limits a pass reads are natural numbers. *)
LEMMA LimitsForType ==
  ASSUME TypeOK, NEW p \in Pool
  PROVE  LimitsFor(p) \in Limits
<1>1. override[p] \in Override
  BY LimitsAssumption DEF TypeOK, NoOverride, Override
<1>2. Conf[p] \in Limits
  BY LimitsAssumption DEF Limits
<1> QED BY <1>1, <1>2, LimitsNeverCross DEF LimitsFor

LEMMA DecisionType ==
  ASSUME TypeOK, NEW p \in Pool
  PROVE  Decision(p).create \in Nat /\ Decision(p).cull \in Nat
<1> DEFINE is(s) == Cardinality({n \in live[p] : byName[n] = s})
           st  == [live |-> Cardinality(live[p]), busy |-> is("busy"), idle |-> is("idle")]
           dem == IF p \in drained THEN 0 ELSE demand[p]
           lim == IF p \in drained THEN DrainedLimits ELSE LimitsFor(p)
<1>1. live[p] \in SUBSET Name
  BY DEF TypeOK
<1>2. \A s : is(s) \in Nat
  BY <1>1, CountNames
<1>3. st \in PoolState
  BY <1>1, <1>2, CountNames DEF PoolState
<1>4. dem \in Nat
  BY DEF TypeOK
<1>5. lim \in Limits
  BY LimitsForType DEF Limits, DrainedLimits
<1>6. Decision(p) = Plan(st, dem, lim)
  BY DEF Decision
<1> HIDE DEF st, dem, lim
<1> QED BY <1>3, <1>4, <1>5, <1>6, PlanType

(* The pool a pass works on is one of the configuration. *)
LEMMA ThisPoolType ==
  ASSUME TypeOK
  PROVE  ThisPool \in Pool
  BY PoolsAssumption DEF TypeOK, ThisPool

LEMMA PoolIndex ==
  /\ Len(PoolOrder) \in Nat
  /\ DOMAIN PoolOrder = 1..Len(PoolOrder)
  /\ 1 \in DOMAIN PoolOrder
<1>1. PoolOrder \in Seq(Pool) /\ PoolOrder # <<>>
  BY PoolsAssumption
<1> QED BY <1>1, SMT

---------------------------------------------------------------------------
(* Type correctness *)

LEMMA TypeInit == Init => TypeOK
  BY PoolIndex DEF Init, TypeOK, RegState, InstState, ClockState, Stage, LaunchStep

(* The end of a pass resets what it kept. *)
LEMMA NoPassType ==
  ASSUME NoPass, TypeOK, UNCHANGED <<github, hosts>>,
         clock' \in [Name -> ClockState], drained' \subseteq Pool,
         override' = override, spent' \in Nat
  PROVE  TypeOK'
  BY PoolIndex
     DEF NoPass, TypeOK, github, hosts, RegState, InstState, ClockState, Stage,
         LaunchStep, NamesOf

LEMMA NextPoolType ==
  ASSUME NextPool, TypeOK, UNCHANGED <<github, hosts, control, clock>>, spent' \in Nat
  PROVE  TypeOK'
<1>1. CASE at = Len(PoolOrder)
  BY <1>1, NoPassType DEF NextPool, TypeOK, control
<1>2. CASE at # Len(PoolOrder)
  <2>1. at + 1 \in DOMAIN PoolOrder
    BY <1>2, PoolIndex DEF TypeOK
  <2> QED BY <1>2, <2>1 DEF NextPool, TypeOK, github, hosts, control, Stage, NamesOf
<1> QED BY <1>1, <1>2

LEMMA NextListingType ==
  ASSUME NextListing, TypeOK
  PROVE  pc' \in Stage /\ at' \in DOMAIN PoolOrder
<1>1. CASE at = Len(PoolOrder)
  BY <1>1, PoolIndex DEF NextListing, Stage
<1>2. CASE at # Len(PoolOrder)
  <2>1. at + 1 \in DOMAIN PoolOrder
    BY <1>2, PoolIndex DEF TypeOK
  <2> QED BY <1>2, <2>1 DEF NextListing, Stage
<1> QED BY <1>1, <1>2

LEMMA FaultType ==
  ASSUME TypeOK, NEW kind, Fault(kind)
  PROVE  spent' \in Nat
  BY DEF TypeOK, Fault

LEMMA ReapType ==
  ASSUME TypeOK, Reap \/ BeginPass \/ ListInstancesFails
  PROVE  TypeOK'
<1>1. CASE BeginPass
  BY <1>1, PoolIndex
     DEF BeginPass, TypeOK, github, hosts, control, Stage, NamesOf
<1>2. CASE ListInstances
  BY <1>2, ThisPoolType
     DEF ListInstances, TypeOK, github, hosts, control, Stage, Present, Finished,
         Orphans, NamesOf
<1>3. CASE ListInstancesFails
  BY <1>3, NextListingType, FaultType
     DEF ListInstancesFails, TypeOK, github, hosts, control, NamesOf
<1>4. CASE ReapDone
  BY <1>4, NextListingType DEF ReapDone, TypeOK, github, hosts, control, NamesOf
<1>5. ASSUME NEW n \in Name, Deregister(n)
      PROVE  TypeOK'
  BY <1>5 DEF Deregister, TypeOK, github, hosts, control, RegState, NamesOf
<1>6. ASSUME NEW n \in Name, RemoveOrphan(n)
      PROVE  TypeOK'
  BY <1>6, FaultType
     DEF RemoveOrphan, TypeOK, github, hosts, control, RegState, NamesOf
<1> QED BY <1>1, <1>2, <1>3, <1>4, <1>5, <1>6 DEF Reap

LEMMA DestroyType ==
  ASSUME TypeOK,
         DestroyInstance \/ DestroyInstanceFails \/ \E n \in Name : DeregisterFails(n)
  PROVE  TypeOK'
<1>1. CASE DestroyInstance
  BY <1>1
     DEF DestroyInstance, TypeOK, github, hosts, control, InstState, ClockState, NamesOf
<1>2. CASE DestroyInstanceFails
  BY <1>2, FaultType DEF DestroyInstanceFails, TypeOK, github, hosts, control, NamesOf
<1>3. ASSUME NEW n \in Name, DeregisterFails(n)
      PROVE  TypeOK'
  BY <1>3, FaultType DEF DeregisterFails, TypeOK, github, hosts, control, NamesOf
<1> QED BY <1>1, <1>2, <1>3

LEMMA DecideType ==
  ASSUME TypeOK, Decide \/ PollJobsFails \/ ScaleUpFails
  PROVE  TypeOK'
<1>1. CASE PollJobs
  <2>1. PICK jobs \in SUBSET QueuedJobs :
          /\ IF jobs = QueuedJobs THEN UNCHANGED spent ELSE Fault("partial")
          /\ LET assigned == AssignDemand(Queue(jobs),
                               [p \in Pool |-> Cardinality(live[p])],
                               [p \in Pool |-> LimitsFor(p)])
             IN  demand' = [p \in Pool |-> Cardinality(DemandOf(p, assigned, jobs))]
    BY <1>1 DEF PollJobs
  <2>2. spent' \in Nat
    BY <2>1, FaultType DEF TypeOK
  <2>3. \A p, assigned : DemandOf(p, assigned, jobs) \in SUBSET Job
    BY DEF DemandOf, QueuedJobs
  <2>4. demand' \in [Pool -> Nat]
    BY <2>1, <2>3, CountJobs
  <2> QED BY <1>1, <2>2, <2>4 DEF PollJobs, TypeOK, github, hosts, control, Stage, NamesOf
<1>2. CASE ScaleUp
  <2>1. toCreate' \in Nat
    BY <1>2, ThisPoolType, DecisionType DEF ScaleUp
  <2> QED BY <1>2, <2>1 DEF ScaleUp, TypeOK, github, hosts, control, Stage, NamesOf
<1>3. CASE ScaleDown
  <2>1. todo' \subseteq Name
    BY <1>3, ThisPoolType DEF ScaleDown, TypeOK
  <2>2. clock' \in [Name -> ClockState]
    BY <1>3 DEF ScaleDown, TypeOK, ClockState
  <2> QED BY <1>3, <2>1, <2>2 DEF ScaleDown, TypeOK, github, hosts, control, Stage, NamesOf
<1>4. CASE LeaveAlone
  BY <1>4, NextPoolType DEF LeaveAlone, TypeOK, github, hosts, control
<1>5. CASE CullDone
  BY <1>5, NextPoolType DEF CullDone, TypeOK, github, hosts, control
<1>6. CASE PollJobsFails
  BY <1>6, NoPassType, FaultType DEF PollJobsFails, TypeOK, github, hosts, control
<1>7. CASE ScaleUpFails
  BY <1>7, NextPoolType, FaultType DEF ScaleUpFails, TypeOK, github, hosts, control
<1> QED BY <1>1, <1>2, <1>3, <1>4, <1>5, <1>6, <1>7 DEF Decide

LEMMA LaunchType ==
  ASSUME TypeOK, Launch \/ \E n \in Name : RegisterFails(n) \/ CreateFails(n)
  PROVE  TypeOK'
<1>1. CASE LaunchDone
  BY <1>1, NextPoolType DEF LaunchDone, TypeOK, github, hosts, control
<1>2. ASSUME NEW n \in Name, Mint(n)
      PROVE  /\ toCreate' \in Nat
             /\ byName' \in [Name -> RegState]
             /\ clock' \in [Name -> ClockState]
  BY <1>2 DEF Mint, TypeOK, RegState, ClockState
<1>3. ASSUME NEW n \in Name, Register(n)
      PROVE  TypeOK'
  BY <1>2, <1>3
     DEF Register, TypeOK, github, hosts, control, RegState, LaunchStep, NamesOf
<1>4. ASSUME NEW n \in Name, RegisterFails(n)
      PROVE  TypeOK'
  BY <1>2, <1>4, FaultType
     DEF RegisterFails, TypeOK, github, hosts, control, RegState, NamesOf
<1>5. ASSUME NEW n \in Name, Create(n)
      PROVE  TypeOK'
  BY <1>5 DEF Create, TypeOK, github, hosts, control, InstState, LaunchStep, NamesOf
<1>6. ASSUME NEW n \in Name, CreateFails(n)
      PROVE  TypeOK'
  BY <1>6, FaultType
     DEF CreateFails, TypeOK, github, hosts, control, LaunchStep, NamesOf
<1>7. ASSUME NEW n \in Name, Unregister(n)
      PROVE  TypeOK'
  BY <1>7, FaultType
     DEF Unregister, TypeOK, github, hosts, control, RegState, LaunchStep, NamesOf
<1> QED BY <1>1, <1>3, <1>4, <1>5, <1>6, <1>7 DEF Launch

LEMMA DaemonType ==
  ASSUME TypeOK, Housekeep \/ Crash \/ Operator
  PROVE  TypeOK'
<1>1. CASE Housekeep
  BY <1>1
     DEF Housekeep, TypeOK, github, control, pass, InstState, ClockState, NamesOf
<1>2. CASE Crash
  BY <1>2, NoPassType, FaultType DEF Crash, TypeOK, ClockState
<1>3. ASSUME NEW p \in Pool, SetDrained(p)
      PROVE  TypeOK'
  BY <1>3 DEF SetDrained, TypeOK, github, hosts, pass, NamesOf
<1>4. ASSUME NEW p \in Pool, SetOverride(p)
      PROVE  TypeOK'
  BY <1>4 DEF SetOverride, TypeOK, github, hosts, pass, NamesOf
<1> QED BY <1>1, <1>2, <1>3, <1>4 DEF Operator

LEMMA WorldType ==
  ASSUME TypeOK, World
  PROVE  TypeOK'
<1> USE DEF TypeOK, github, hosts, control, pass, NamesOf
<1>1. ASSUME NEW n \in Name,
             Connect(n) \/ Disconnect(n) \/ Blip(n)
      PROVE  TypeOK'
  BY <1>1, FaultType DEF Connect, Disconnect, Blip, RegState
<1>2. ASSUME NEW n \in Name, Finish(n) \/ RunnerDies(n) \/ Vanish(n)
      PROVE  TypeOK'
  BY <1>2, FaultType DEF Finish, RunnerDies, Vanish, RegState, InstState
<1>3. ASSUME NEW n \in Name, Age(n)
      PROVE  TypeOK'
  BY <1>3, FaultType DEF Age
<1>4. ASSUME NEW n \in Name, IdleTimeout(n) \/ IdleForADay(n)
      PROVE  TypeOK'
  BY <1>4, FaultType DEF IdleTimeout, IdleForADay, ClockState
<1>5. ASSUME NEW n \in Name, NEW j \in Job, Assign(n, j)
      PROVE  TypeOK'
  BY <1>5 DEF Assign, RegState
<1>6. ASSUME NEW j \in Job, QueueJob(j) \/ CancelJob(j)
      PROVE  TypeOK'
  BY <1>6 DEF QueueJob, CancelJob
<1> QED BY <1>1, <1>2, <1>3, <1>4, <1>5, <1>6 DEF World

LEMMA TypeStep == TypeOK /\ [Next]_vars => TypeOK'
<1> SUFFICES ASSUME TypeOK, [Next]_vars
             PROVE  TypeOK'
  OBVIOUS
<1>1. CASE PassStep
  BY <1>1, ReapType, DestroyType, DecideType, LaunchType DEF PassStep
<1>2. CASE PassFault
  BY <1>2, ReapType, DestroyType, DecideType, LaunchType DEF PassFault
<1>3. CASE Housekeep \/ Crash \/ Operator
  BY <1>3, DaemonType
<1>4. CASE World
  BY <1>4, WorldType
<1>5. CASE UNCHANGED vars
  BY <1>5 DEF vars, github, hosts, control, pass, TypeOK, NamesOf
<1> QED BY <1>1, <1>2, <1>3, <1>4, <1>5 DEF Next

(* Every reachable state is well typed, and the instances a pool keeps as  *)
(* live are its own (reap, belongsToPool).                                 *)
THEOREM TypeCorrect == Spec => []TypeOK
  BY TypeInit, TypeStep, PTL DEF Spec

---------------------------------------------------------------------------
(* The stages of a pass *)

(* Which parts of a pass's memory are in use at which stage. *)
StageInv ==
  /\ \A n \in Name : flight[n] # "none" => pc = "launch"
  /\ todo # {} => pc \in {"reap", "cull"}
  /\ victim # NoName => pc \in {"reap", "cull"}
  /\ orphans # {} => pc = "reap"
  /\ \A n \in orphans : inst[n] = "none"

LEMMA StageInit == Init => StageInv
  BY DEF Init, StageInv

(* What happens outside the loop leaves the pass alone, registers nothing  *)
(* and starts nothing.                                                     *)
OutsideFrame ==
  /\ UNCHANGED pass
  /\ \A n \in Name : reg[n] = "none" => reg'[n] = "none"
  /\ \A n \in Name : inst[n] = "none" => inst'[n] = "none"
  /\ \A n \in Name : inst'[n] = "running" => inst[n] = "running"
  /\ \A n \in Name : n \in old => n \in old' \/ inst'[n] # "running"

LEMMA OutsideKeepsFrame ==
  ASSUME TypeOK, Housekeep \/ Operator \/ World \/ UNCHANGED vars
  PROVE  OutsideFrame
<1> USE DEF TypeOK, github, hosts, control, OutsideFrame
<1>1. CASE Housekeep
  BY <1>1 DEF Housekeep
<1>2. CASE Operator
  BY <1>2 DEF Operator, SetDrained, SetOverride
<1>3. ASSUME NEW n \in Name, Connect(n) \/ Disconnect(n) \/ Blip(n)
      PROVE  OutsideFrame
  BY <1>3 DEF Connect, Disconnect, Blip
<1>4. ASSUME NEW n \in Name, Finish(n) \/ RunnerDies(n) \/ Vanish(n)
      PROVE  OutsideFrame
  BY <1>4 DEF Finish, RunnerDies, Vanish
<1>5. ASSUME NEW n \in Name, Age(n) \/ IdleTimeout(n) \/ IdleForADay(n)
      PROVE  OutsideFrame
  BY <1>5 DEF Age, IdleTimeout, IdleForADay
<1>6. ASSUME NEW n \in Name, NEW j \in Job, Assign(n, j)
      PROVE  OutsideFrame
  BY <1>6 DEF Assign
<1>7. ASSUME NEW j \in Job, QueueJob(j) \/ CancelJob(j)
      PROVE  OutsideFrame
  BY <1>7 DEF QueueJob, CancelJob
<1>8. CASE UNCHANGED vars
  BY <1>8 DEF vars
<1> QED BY <1>1, <1>2, <1>3, <1>4, <1>5, <1>6, <1>7, <1>8 DEF World

LEMMA StageStep == TypeOK /\ StageInv /\ [Next]_vars => StageInv'
<1> SUFFICES ASSUME TypeOK, StageInv, [Next]_vars
             PROVE  StageInv'
  OBVIOUS
<1> USE DEF TypeOK, StageInv, github, hosts, control
<1>1. CASE Housekeep \/ Operator \/ World \/ UNCHANGED vars
  BY <1>1, OutsideKeepsFrame DEF OutsideFrame, pass
<1>2. CASE BeginPass \/ ListInstancesFails \/ ReapDone
  BY <1>2 DEF BeginPass, ListInstancesFails, ReapDone, NextListing
<1>3. CASE ListInstances
  BY <1>3 DEF ListInstances, Orphans, Present, NamesOf
<1>4. ASSUME NEW n \in Name, Deregister(n) \/ DeregisterFails(n) \/ RemoveOrphan(n)
      PROVE  StageInv'
  BY <1>4 DEF Deregister, DeregisterFails, RemoveOrphan
<1>5. CASE DestroyInstance \/ DestroyInstanceFails
  BY <1>5 DEF DestroyInstance, DestroyInstanceFails
<1>6. CASE PollJobs \/ ScaleUp \/ ScaleDown
  BY <1>6 DEF PollJobs, ScaleUp, ScaleDown
<1>7. CASE LeaveAlone \/ CullDone \/ LaunchDone \/ ScaleUpFails
  BY <1>7 DEF LeaveAlone, CullDone, LaunchDone, ScaleUpFails, NextPool, NoPass, InFlight
<1>8. CASE PollJobsFails \/ Crash
  BY <1>8 DEF PollJobsFails, Crash, NoPass
<1>9. ASSUME NEW n \in Name,
             Register(n) \/ RegisterFails(n) \/ Create(n) \/ CreateFails(n) \/ Unregister(n)
      PROVE  StageInv'
  BY <1>9 DEF Register, RegisterFails, Mint, Create, CreateFails, Unregister, LaunchStep
<1> QED
  BY <1>1, <1>2, <1>3, <1>4, <1>5, <1>6, <1>7, <1>8, <1>9
  DEF Next, PassStep, PassFault, Reap, Decide, Launch

LEMMA StageCorrect == Spec => []StageInv
  BY StageInit, StageStep, TypeCorrect, PTL DEF Spec

(* A registration removed as an orphan never has an instance, nor a launch *)
(* about to give it one, whatever fails and whenever the daemon stops      *)
(* (reap, orchestrator.go:353-371).                                        *)
THEOREM OrphansAreSafe == Spec => []OrphansAreDead
<1>1. TypeOK /\ StageInv => OrphansAreDead
  BY DEF TypeOK, StageInv, OrphansAreDead
<1> QED BY <1>1, StageCorrect, TypeCorrect, PTL

---------------------------------------------------------------------------
(* Busy runners *)

(* A name the listing of this pass does not know has no registration, as   *)
(* long as the pass has launched nothing under it; so what the pass        *)
(* destroys without deregistering has nothing to deregister.               *)
KillInv ==
  /\ pc \in {"list", "reap"} =>
       \A n \in Name : byName[n] = "none" => reg[n] = "none"
  /\ \A p \in Pool : \A n \in live[p] : byName[n] = "none" => reg[n] = "none"
  /\ pc = "cull" => todo \subseteq live[ThisPool]
  /\ victim # NoName => reg[victim] = "none"

LEMMA KillInit == Init => KillInv
  BY NamesAssumption DEF Init, KillInv

LEMMA KillStep ==
  ASSUME "deregister" \notin Faults
  PROVE  TypeOK /\ StageInv /\ KillInv /\ [Next]_vars => KillInv'
<1> SUFFICES ASSUME TypeOK, StageInv, KillInv, [Next]_vars
             PROVE  KillInv'
  OBVIOUS
<1> USE DEF TypeOK, StageInv, KillInv, github, hosts, control, ThisPool
<1>1. CASE Housekeep \/ Operator \/ World \/ UNCHANGED vars
  BY <1>1, OutsideKeepsFrame DEF OutsideFrame, pass
<1>2. CASE BeginPass \/ ListInstancesFails \/ ReapDone
  BY <1>2 DEF BeginPass, ListInstancesFails, ReapDone, NextListing
<1>3. CASE ListInstances
  BY <1>3, ThisPoolType DEF ListInstances, Present, NamesOf
<1>4. ASSUME NEW n \in Name, Deregister(n)
      PROVE  KillInv'
  BY <1>4, ThisPoolType, NamesAssumption DEF Deregister
<1>5. ASSUME NEW n \in Name, RemoveOrphan(n)
      PROVE  KillInv'
  BY <1>5, ThisPoolType DEF RemoveOrphan
<1>6. ASSUME NEW n \in Name, DeregisterFails(n)
      PROVE  KillInv'
  BY <1>6 DEF DeregisterFails, Fault
<1>7. CASE DestroyInstance \/ DestroyInstanceFails
  BY <1>7 DEF DestroyInstance, DestroyInstanceFails
<1>8. CASE PollJobs \/ ScaleUp \/ ScaleDown
  BY <1>8, ThisPoolType DEF PollJobs, ScaleUp, ScaleDown
<1>9. CASE LeaveAlone \/ CullDone \/ LaunchDone \/ ScaleUpFails
  BY <1>9 DEF LeaveAlone, CullDone, LaunchDone, ScaleUpFails, NextPool, NoPass
<1>10. CASE PollJobsFails \/ Crash
  BY <1>10 DEF PollJobsFails, Crash, NoPass
<1>11. ASSUME NEW n \in Name, Register(n) \/ RegisterFails(n)
       PROVE  KillInv'
  BY <1>11 DEF Register, RegisterFails, Mint, Fresh
<1>12. ASSUME NEW n \in Name, Create(n) \/ CreateFails(n) \/ Unregister(n)
       PROVE  KillInv'
  BY <1>12 DEF Create, CreateFails, Unregister
<1> QED
  BY <1>1, <1>2, <1>3, <1>4, <1>5, <1>6, <1>7, <1>8, <1>9, <1>10, <1>11, <1>12
  DEF Next, PassStep, PassFault, Reap, Decide, Launch

(* While GitHub answers deregistrations, no instance is destroyed under a  *)
(* runner that is executing a job, however stale the listing that made the *)
(* loop destroy it (destroyInstance; README.md:75).                        *)
THEOREM BusyRunnersSurvive ==
  ASSUME "deregister" \notin Faults
  PROVE  Spec => []NeverKillsBusy
<1>1. KillInv => NeverKillsBusy
  BY DEF KillInv, NeverKillsBusy
<1> QED BY <1>1, KillInit, KillStep, StageCorrect, TypeCorrect, PTL DEF Spec

---------------------------------------------------------------------------
(* Limits *)

(* Instances of a pool that count against its maximum, and those about to  *)
(* exist.                                                                  *)
Taken(p) == Young(p) \cup {n \in NamesOf(p) : flight[n] = "registered"}

(* The i-th pool has been listed in this pass and is still to be applied.  *)
Pending(i) ==
  \/ pc = "list" /\ i < at
  \/ pc = "reap" /\ i <= at
  \/ pc = "poll"
  \/ pc \in {"apply", "cull"} /\ i >= at
  \/ pc = "launch" /\ i > at

(* Between the listing of a pool and its turn, its instances are among     *)
(* those listed: only scaleUp creates any, and the pools launch in turn.   *)
MaxInv ==
  /\ \A p \in Pool : Cardinality(Young(p)) <= Ceiling[p]
  /\ \A i \in DOMAIN PoolOrder : Pending(i) => Young(PoolOrder[i]) \subseteq live[PoolOrder[i]]
  /\ \A n \in Name : flight[n] # "none" => PoolOf[n] = ThisPool
  /\ pc = "launch" => Cardinality(Taken(ThisPool)) + toCreate <= Ceiling[ThisPool]

LEMMA MaxInit == Init => MaxInv
<1> SUFFICES ASSUME Init PROVE MaxInv
  OBVIOUS
<1>1. \A p : Young(p) = {}
  BY DEF Init, Young, NamesOf
<1>2. ASSUME NEW p \in Pool
      PROVE  Cardinality(Young(p)) <= Ceiling[p]
  <2>1. Young(p) = {}
    BY <1>1
  <2>2. Cardinality({}) = 0
    BY FS_EmptySet
  <2>3. Ceiling[p] \in Nat
    BY LimitsAssumption
  <2> QED BY <2>1, <2>2, <2>3
<1>3. pc = "sleep" /\ \A n \in Name : flight[n] = "none"
  BY DEF Init
<1> QED BY <1>2, <1>3 DEF MaxInv, Pending

LEMMA SmallerSet ==
  ASSUME NEW S \in SUBSET Name, NEW T \in SUBSET S
  PROVE  Cardinality(T) <= Cardinality(S)
  BY NamesAssumption, FS_Subset

(* A step that starts no instance and leaves the launches alone only       *)
(* shrinks what counts.                                                    *)
LEMMA Shrinks ==
  ASSUME TypeOK, MaxInv,
         \A n \in Name : inst'[n] = "running" => inst[n] = "running",
         \A n \in Name : n \in old => n \in old' \/ inst'[n] # "running"
  PROVE  /\ \A p \in Pool : Young(p)' \subseteq Young(p)
         /\ \A p \in Pool : Cardinality(Young(p)') <= Ceiling[p]
<1>1. \A p \in Pool : Young(p)' \subseteq Young(p)
  BY DEF Young, NamesOf
<1>2. ASSUME NEW p \in Pool
      PROVE  Cardinality(Young(p)') <= Ceiling[p]
  <2>1. Young(p) \in SUBSET Name /\ Young(p)' \in SUBSET Young(p)
    BY <1>1 DEF Young, NamesOf
  <2>2. Cardinality(Young(p)') \in Nat /\ Cardinality(Young(p)) \in Nat
    BY <2>1, CountNames
  <2>3. Cardinality(Young(p)') <= Cardinality(Young(p))
    BY <2>1, SmallerSet
  <2>4. Ceiling[p] \in Nat /\ Cardinality(Young(p)) <= Ceiling[p]
    BY LimitsAssumption DEF MaxInv
  <2> QED BY <2>2, <2>3, <2>4
<1> QED BY <1>1, <1>2

(* The limits a pass reads stay below the highest the operator sets. *)
LEMMA BelowCeiling ==
  ASSUME TypeOK, NEW p \in Pool
  PROVE  LimitsFor(p).max <= Ceiling[p]
  BY LimitsAssumption DEF TypeOK, LimitsFor

(* scaleUp: live instances and launches together stay within the maximum.  *)
LEMMA ScaleUpWithinMax ==
  ASSUME TypeOK, NEW p \in Pool, p \notin drained, Decision(p).create > 0
  PROVE  Cardinality(live[p]) + Decision(p).create <= Ceiling[p]
<1> DEFINE is(s) == Cardinality({n \in live[p] : byName[n] = s})
           st  == [live |-> Cardinality(live[p]), busy |-> is("busy"), idle |-> is("idle")]
<1>1. live[p] \in SUBSET Name
  BY DEF TypeOK
<1>2. \A s : is(s) \in Nat
  BY <1>1, CountNames
<1>3. st \in PoolState
  BY <1>1, <1>2, CountNames DEF PoolState
<1>4. demand[p] \in Nat
  BY DEF TypeOK
<1>5. LimitsFor(p) \in Limits
  BY LimitsForType
<1>6. Decision(p) = Plan(st, demand[p], LimitsFor(p))
  BY DEF Decision
<1>7. st.live = Cardinality(live[p])
  OBVIOUS
<1> HIDE DEF st
<1>8. st.live + Decision(p).create <= LimitsFor(p).max
  BY <1>3, <1>4, <1>5, <1>6, CreationStopsAtMax
<1>9. /\ Cardinality(live[p]) \in Nat /\ Decision(p).create \in Nat
      /\ LimitsFor(p).max \in Nat /\ Ceiling[p] \in Nat
  BY <1>1, <1>5, CountNames, DecisionType, LimitsAssumption DEF Limits
<1> QED BY <1>7, <1>8, <1>9, BelowCeiling

LEMMA TakenType ==
  ASSUME TypeOK, NEW p \in Pool
  PROVE  /\ Taken(p) \in SUBSET Name
         /\ IsFiniteSet(Taken(p))
         /\ Cardinality(Taken(p)) \in Nat
         /\ Ceiling[p] \in Nat
<1>1. Taken(p) \in SUBSET Name
  BY DEF Taken, Young, NamesOf
<1> QED BY <1>1, CountNames, LimitsAssumption

(* One pool's launches begin. *)
LEMMA MaxScaleUp ==
  ASSUME TypeOK, StageInv, MaxInv, ScaleUp
  PROVE  MaxInv'
<1>1. ThisPool \in Pool /\ ThisPool' = ThisPool
  BY ThisPoolType DEF ScaleUp, ThisPool
<1>2. \A p \in Pool : Young(p)' = Young(p)
  BY DEF ScaleUp, Young, NamesOf, hosts
<1>3. at \in DOMAIN PoolOrder /\ Pending(at)
  BY PoolIndex DEF TypeOK, ScaleUp, Pending
<1>4. Taken(ThisPool)' = Young(ThisPool) /\ Young(ThisPool) \subseteq live[ThisPool]
  BY <1>1, <1>2, <1>3
     DEF ScaleUp, StageInv, MaxInv, Taken, Young, NamesOf, hosts, ThisPool
<1>5. Cardinality(Young(ThisPool)) <= Cardinality(live[ThisPool])
  BY <1>1, <1>4, SmallerSet DEF TypeOK
<1>6. /\ Cardinality(Young(ThisPool)) \in Nat /\ Cardinality(live[ThisPool]) \in Nat
      /\ Decision(ThisPool).create \in Nat /\ Ceiling[ThisPool] \in Nat
  BY <1>1, CountNames, DecisionType, LimitsAssumption DEF TypeOK, Young, NamesOf
<1>7. Cardinality(Taken(ThisPool)') + toCreate' <= Ceiling[ThisPool]
  BY <1>1, <1>4, <1>5, <1>6, ScaleUpWithinMax DEF ScaleUp
<1>8. \A i \in DOMAIN PoolOrder : Pending(i)' => Pending(i)
  BY PoolIndex DEF ScaleUp, Pending, TypeOK
<1>9. \A i \in DOMAIN PoolOrder : PoolOrder[i] \in Pool
  BY PoolsAssumption
<1> QED
  BY <1>1, <1>2, <1>7, <1>8, <1>9
  DEF ScaleUp, StageInv, MaxInv, hosts, ThisPool

(* Any other step inside the loop that starts nothing. *)
LEMMA MaxQuiet ==
  ASSUME TypeOK, MaxInv, UNCHANGED hosts, live' = live, pc' # "launch",
         \A n \in Name : flight'[n] = "none",
         \A i \in DOMAIN PoolOrder : Pending(i)' => Pending(i)
  PROVE  MaxInv'
<1>1. \A p \in Pool : Young(p)' = Young(p)
  BY DEF Young, NamesOf, hosts
<1>2. \A i \in DOMAIN PoolOrder : PoolOrder[i] \in Pool
  BY PoolsAssumption
<1> QED BY <1>1, <1>2 DEF MaxInv

LEMMA MaxNoPass ==
  ASSUME TypeOK, MaxInv, UNCHANGED hosts, NoPass
  PROVE  MaxInv'
<1>1. \A p \in Pool : Young(p)' = Young(p)
  BY DEF Young, NamesOf, hosts
<1>2. pc' = "sleep" /\ \A n \in Name : flight'[n] = "none"
  BY DEF NoPass
<1> QED BY <1>1, <1>2 DEF MaxInv, Pending

(* A launch gets its name: one more taken, one less to create. *)
LEMMA MaxMint ==
  ASSUME TypeOK, MaxInv, NEW n \in Name, Register(n) \/ RegisterFails(n)
  PROVE  MaxInv'
<1>1. ThisPool \in Pool /\ ThisPool' = ThisPool
  BY ThisPoolType DEF Register, RegisterFails, Mint, ThisPool
<1>2. \A p \in Pool : Young(p)' = Young(p)
  BY DEF Register, RegisterFails, Young, NamesOf, hosts
<1>3. /\ pc = "launch" /\ toCreate > 0 /\ toCreate' = toCreate - 1
      /\ PoolOf[n] = ThisPool /\ inst[n] = "none" /\ flight[n] = "none"
      /\ live' = live /\ pc' = pc /\ at' = at
  BY DEF Register, RegisterFails, Mint, Fresh
<1>4. Taken(ThisPool)' \subseteq Taken(ThisPool) \cup {n}
  BY <1>1, <1>2 DEF Register, RegisterFails, Taken, NamesOf, TypeOK
<1>5. n \notin Taken(ThisPool)
  BY <1>3 DEF Taken, Young
<1>6. Cardinality(Taken(ThisPool) \cup {n}) = Cardinality(Taken(ThisPool)) + 1
  BY <1>1, <1>5, TakenType, FS_AddElement
<1>7. Taken(ThisPool) \cup {n} \in SUBSET Name
  BY <1>1, TakenType
<1>8. Cardinality(Taken(ThisPool)') <= Cardinality(Taken(ThisPool)) + 1
  BY <1>4, <1>6, <1>7, SmallerSet
<1>9. /\ Cardinality(Taken(ThisPool)) \in Nat /\ Ceiling[ThisPool] \in Nat
      /\ Cardinality(Taken(ThisPool)') \in Nat /\ toCreate \in Nat
  BY <1>1, <1>4, <1>7, TakenType, CountNames DEF TypeOK
<1>10. Cardinality(Taken(ThisPool)') + toCreate' <= Ceiling[ThisPool]
  BY <1>3, <1>8, <1>9 DEF MaxInv
<1>11. \A i \in DOMAIN PoolOrder : PoolOrder[i] \in Pool /\ (Pending(i)' <=> Pending(i))
  BY <1>3, PoolsAssumption DEF Pending
<1>12. \A m \in Name : flight'[m] # "none" => PoolOf[m] = ThisPool
  BY <1>3 DEF Register, RegisterFails, MaxInv, TypeOK
<1> QED BY <1>1, <1>2, <1>3, <1>10, <1>11, <1>12 DEF MaxInv

(* A launch ends: what it took stays taken or is given back. *)
LEMMA MaxLaunched ==
  ASSUME TypeOK, StageInv, MaxInv, NEW n \in Name,
         Create(n) \/ CreateFails(n) \/ Unregister(n)
  PROVE  MaxInv'
<1>1. ThisPool \in Pool /\ ThisPool' = ThisPool
  BY ThisPoolType DEF Create, CreateFails, Unregister, ThisPool
<1>2. /\ pc = "launch" /\ toCreate' = toCreate /\ live' = live /\ pc' = pc /\ at' = at
      /\ PoolOf[n] = ThisPool
  BY DEF Create, CreateFails, Unregister, StageInv, MaxInv
<1>3. \A p \in Pool : p # ThisPool => Young(p)' = Young(p)
  BY <1>2 DEF Create, CreateFails, Unregister, Young, NamesOf, hosts, TypeOK
<1>4. Taken(ThisPool)' \subseteq Taken(ThisPool)
  BY <1>1 DEF Create, CreateFails, Unregister, Taken, Young, NamesOf, hosts, TypeOK
<1>5. Young(ThisPool)' \subseteq Taken(ThisPool)
  BY <1>1, <1>4 DEF Taken
<1>6. /\ Cardinality(Taken(ThisPool)') <= Cardinality(Taken(ThisPool))
      /\ Cardinality(Young(ThisPool)') <= Cardinality(Taken(ThisPool))
  BY <1>1, <1>4, <1>5, TakenType, SmallerSet
<1>7. /\ Cardinality(Taken(ThisPool)) \in Nat /\ Ceiling[ThisPool] \in Nat
      /\ Cardinality(Taken(ThisPool)') \in Nat /\ toCreate \in Nat
      /\ Cardinality(Young(ThisPool)') \in Nat
  BY <1>1, <1>4, <1>5, TakenType, CountNames DEF TypeOK
<1>8. Cardinality(Taken(ThisPool)) + toCreate <= Ceiling[ThisPool]
  BY <1>2 DEF MaxInv
<1>9. /\ Cardinality(Taken(ThisPool)') + toCreate' <= Ceiling[ThisPool]
      /\ Cardinality(Young(ThisPool)') <= Ceiling[ThisPool]
  BY <1>2, <1>6, <1>7, <1>8
<1>10. ASSUME NEW p \in Pool
       PROVE  Cardinality(Young(p)') <= Ceiling[p]
  <2>1. CASE p = ThisPool
    BY <1>1, <1>9, <2>1
  <2>2. CASE p # ThisPool
    BY <1>3, <2>2 DEF MaxInv
  <2> QED BY <2>1, <2>2
<1>11. \A i \in DOMAIN PoolOrder :
         Pending(i) => PoolOrder[i] \in Pool /\ PoolOrder[i] # ThisPool
  BY <1>2, PoolIndex, PoolsAssumption DEF Pending, ThisPool, TypeOK
<1>12. \A i \in DOMAIN PoolOrder : Pending(i)' <=> Pending(i)
  BY <1>2 DEF Pending
<1>13. \A m \in Name : flight'[m] # "none" => PoolOf[m] = ThisPool
  BY <1>2 DEF Create, CreateFails, Unregister, MaxInv, TypeOK
<1> QED BY <1>1, <1>2, <1>3, <1>9, <1>10, <1>11, <1>12, <1>13 DEF MaxInv

LEMMA MaxListInstances ==
  ASSUME TypeOK, StageInv, MaxInv, ListInstances
  PROVE  MaxInv'
<1>1. ThisPool \in Pool /\ ThisPool' = ThisPool
  BY ThisPoolType DEF ListInstances, ThisPool
<1>2. \A p \in Pool : Young(p)' = Young(p)
  BY DEF ListInstances, Young, NamesOf, hosts
<1>3. Young(ThisPool) \subseteq Present(ThisPool) \ Finished(ThisPool)
  BY DEF Young, Present, Finished
<1>4. /\ live'[ThisPool] = Present(ThisPool) \ Finished(ThisPool)
      /\ \A p \in Pool : p # ThisPool => live'[p] = live[p]
  BY <1>1 DEF ListInstances, TypeOK
<1>5. \A i \in DOMAIN PoolOrder : Pending(i)' => Pending(i) \/ i = at
  BY PoolIndex DEF ListInstances, Pending, TypeOK
<1>6. ASSUME NEW i \in DOMAIN PoolOrder, Pending(i)'
      PROVE  Young(PoolOrder[i])' \subseteq live'[PoolOrder[i]]
  <2>1. PoolOrder[i] \in Pool
    BY PoolsAssumption
  <2>2. CASE PoolOrder[i] = ThisPool
    BY <1>1, <1>2, <1>3, <1>4, <2>2
  <2>3. CASE PoolOrder[i] # ThisPool
    BY <1>2, <1>4, <1>5, <1>6, <2>1, <2>3 DEF MaxInv, ThisPool
  <2> QED BY <2>2, <2>3
<1>7. pc' = "reap" /\ flight' = flight
  BY DEF ListInstances
<1>8. \A n \in Name : flight[n] = "none"
  BY DEF ListInstances, StageInv
<1> QED BY <1>2, <1>6, <1>7, <1>8 DEF MaxInv

(* The steps outside the loop, and destroying an instance. *)
LEMMA MaxShrinks ==
  ASSUME TypeOK, MaxInv, OutsideFrame
  PROVE  MaxInv'
<1>1. /\ \A p \in Pool : Young(p)' \subseteq Young(p)
      /\ \A p \in Pool : Cardinality(Young(p)') <= Ceiling[p]
  BY Shrinks DEF OutsideFrame
<1>2. /\ pc' = pc /\ at' = at /\ live' = live /\ flight' = flight /\ toCreate' = toCreate
  BY DEF OutsideFrame, pass
<1>3. ThisPool \in Pool /\ ThisPool' = ThisPool
  BY <1>2, ThisPoolType DEF ThisPool
<1>4. Taken(ThisPool)' \subseteq Taken(ThisPool)
  BY <1>1, <1>2, <1>3 DEF Taken, NamesOf
<1>5. Cardinality(Taken(ThisPool)') <= Cardinality(Taken(ThisPool))
  BY <1>3, <1>4, TakenType, SmallerSet
<1>6. /\ Cardinality(Taken(ThisPool)) \in Nat /\ Ceiling[ThisPool] \in Nat
      /\ Cardinality(Taken(ThisPool)') \in Nat /\ toCreate \in Nat
  BY <1>3, <1>4, TakenType, CountNames DEF TypeOK
<1>7. pc = "launch" => Cardinality(Taken(ThisPool)') + toCreate <= Ceiling[ThisPool]
  BY <1>5, <1>6 DEF MaxInv
<1>8. \A i \in DOMAIN PoolOrder : PoolOrder[i] \in Pool /\ (Pending(i)' <=> Pending(i))
  BY <1>2, PoolsAssumption DEF Pending
<1> QED BY <1>1, <1>2, <1>3, <1>7, <1>8 DEF MaxInv

LEMMA MaxDestroy ==
  ASSUME TypeOK, StageInv, MaxInv, DestroyInstance
  PROVE  MaxInv'
<1>1. /\ \A p \in Pool : Young(p)' \subseteq Young(p)
      /\ \A p \in Pool : Cardinality(Young(p)') <= Ceiling[p]
  BY Shrinks DEF DestroyInstance, TypeOK
<1>2. /\ pc' = pc /\ at' = at /\ live' = live /\ flight' = flight /\ pc # "launch"
  BY DEF DestroyInstance, StageInv
<1>3. \A i \in DOMAIN PoolOrder : PoolOrder[i] \in Pool /\ (Pending(i)' <=> Pending(i))
  BY <1>2, PoolsAssumption DEF Pending
<1> QED BY <1>1, <1>2, <1>3 DEF MaxInv, ThisPool

LEMMA MaxStep ==
  ASSUME "list" \notin Faults
  PROVE  TypeOK /\ StageInv /\ MaxInv /\ [Next]_vars => MaxInv'
<1> SUFFICES ASSUME TypeOK, StageInv, MaxInv, [Next]_vars
             PROVE  MaxInv'
  OBVIOUS
<1> USE PoolIndex DEF Pending, StageInv, hosts
<1>1. CASE Housekeep \/ Operator \/ World \/ UNCHANGED vars
  BY <1>1, OutsideKeepsFrame, MaxShrinks
<1>2. CASE BeginPass \/ ReapDone
  BY <1>2, MaxQuiet DEF BeginPass, ReapDone, NextListing, TypeOK
<1>3. CASE ListInstancesFails
  BY <1>3 DEF ListInstancesFails, Fault
<1>4. ASSUME NEW n \in Name, Deregister(n) \/ DeregisterFails(n) \/ RemoveOrphan(n)
      PROVE  MaxInv'
  BY <1>4, MaxQuiet DEF Deregister, DeregisterFails, RemoveOrphan
<1>5. CASE DestroyInstanceFails
  BY <1>5, MaxQuiet DEF DestroyInstanceFails
<1>6. CASE PollJobs \/ ScaleDown
  BY <1>6, MaxQuiet DEF PollJobs, ScaleDown, TypeOK
<1>7. CASE LeaveAlone \/ CullDone \/ LaunchDone \/ ScaleUpFails
  <2>1. \A n \in Name : flight[n] = "none"
    BY <1>7 DEF LeaveAlone, CullDone, LaunchDone, ScaleUpFails, InFlight
  <2>2. CASE NoPass
    BY <1>7, <2>2, MaxNoPass DEF LeaveAlone, CullDone, LaunchDone, ScaleUpFails
  <2>3. CASE pc' = "apply" /\ at' = at + 1 /\ UNCHANGED <<live, flight>>
    BY <1>7, <2>1, <2>3, MaxQuiet
       DEF LeaveAlone, CullDone, LaunchDone, ScaleUpFails, TypeOK
  <2> QED
    BY <1>7, <2>2, <2>3 DEF LeaveAlone, CullDone, LaunchDone, ScaleUpFails, NextPool
<1>8. CASE PollJobsFails \/ Crash
  BY <1>8, MaxNoPass DEF PollJobsFails, Crash
<1>9. ASSUME NEW n \in Name, Register(n) \/ RegisterFails(n)
      PROVE  MaxInv'
  BY <1>9, MaxMint
<1>10. ASSUME NEW n \in Name, Create(n) \/ CreateFails(n) \/ Unregister(n)
       PROVE  MaxInv'
  BY <1>10, MaxLaunched
<1>11. CASE ScaleUp
  BY <1>11, MaxScaleUp
<1>12. CASE ListInstances
  BY <1>12, MaxListInstances
<1>13. CASE DestroyInstance
  BY <1>13, MaxDestroy
<1> QED
  BY <1>1, <1>2, <1>3, <1>4, <1>5, <1>6, <1>7, <1>8, <1>9, <1>10, <1>11, <1>12, <1>13
  DEF Next, PassStep, PassFault, Reap, Decide, Launch

(* As long as the providers can be listed, no pool ever runs more          *)
(* instances than its maximum, although launches run concurrently, any     *)
(* other call may fail and the daemon may stop between any two of them     *)
(* (Plan; applyPool, scaleUp; config.go:115).                              *)
THEOREM PoolsStayWithinMax ==
  ASSUME "list" \notin Faults
  PROVE  Spec => []WithinMax
<1>1. MaxInv => WithinMax
  BY DEF MaxInv, WithinMax
<1> QED BY <1>1, MaxInit, MaxStep, StageCorrect, TypeCorrect, PTL DEF Spec

---------------------------------------------------------------------------
(* The life of a runner *)

(* A launch under way has a registration that nobody else touches, and no  *)
(* instance yet.                                                           *)
FlightInv ==
  \A n \in Name : flight[n] # "none" => inst[n] = "none" /\ reg[n] = "offline"

LEMMA FlightInit == Init => FlightInv
  BY DEF Init, FlightInv

LEMMA FlightStep == TypeOK /\ StageInv /\ FlightInv /\ [Next]_vars => FlightInv'
<1> SUFFICES ASSUME TypeOK, StageInv, FlightInv, [Next]_vars
             PROVE  FlightInv'
  OBVIOUS
<1> USE DEF TypeOK, StageInv, FlightInv, github, hosts, control
<1>1. CASE Housekeep \/ Operator \/ UNCHANGED vars
  BY <1>1, OutsideKeepsFrame
     DEF OutsideFrame, pass, Housekeep, Operator, SetDrained, SetOverride, vars
<1>2. CASE World
  BY <1>2
     DEF World, pass, Connect, Disconnect, Blip, Finish, RunnerDies, Vanish, Age,
         IdleTimeout, IdleForADay, Assign, QueueJob, CancelJob
<1>3. CASE BeginPass \/ ListInstances \/ ListInstancesFails \/ ReapDone
  BY <1>3 DEF BeginPass, ListInstances, ListInstancesFails, ReapDone
<1>4. ASSUME NEW n \in Name, Deregister(n) \/ DeregisterFails(n) \/ RemoveOrphan(n)
      PROVE  FlightInv'
  BY <1>4 DEF Deregister, DeregisterFails, RemoveOrphan
<1>5. CASE DestroyInstance \/ DestroyInstanceFails
  BY <1>5 DEF DestroyInstance, DestroyInstanceFails
<1>6. CASE PollJobs \/ ScaleUp \/ ScaleDown
  BY <1>6 DEF PollJobs, ScaleUp, ScaleDown
<1>7. CASE LeaveAlone \/ CullDone \/ LaunchDone \/ ScaleUpFails
  BY <1>7 DEF LeaveAlone, CullDone, LaunchDone, ScaleUpFails, NextPool, NoPass
<1>8. CASE PollJobsFails \/ Crash
  BY <1>8 DEF PollJobsFails, Crash, NoPass
<1>9. ASSUME NEW n \in Name,
             Register(n) \/ RegisterFails(n) \/ Create(n) \/ CreateFails(n) \/ Unregister(n)
      PROVE  FlightInv'
  BY <1>9 DEF Register, RegisterFails, Mint, Fresh, Create, CreateFails, Unregister
<1> QED
  BY <1>1, <1>2, <1>3, <1>4, <1>5, <1>6, <1>7, <1>8, <1>9
  DEF Next, PassStep, PassFault, Reap, Decide, Launch

LEMMA FlightCorrect == Spec => []FlightInv
  BY FlightInit, FlightStep, StageCorrect, TypeCorrect, PTL DEF Spec

LEMMA LifeInit == Init => RL!Init
<1> SUFFICES ASSUME Init PROVE RL!Init
  OBVIOUS
<1>1. \A n \in Name : Life[n] = "absent"
  BY DEF Init, Life
<1> QED BY <1>1 DEF RL!Init, Life

(* The life of a runner follows from its registration and its instance. *)
LifeOf(r, i) ==
  IF i = "exited" THEN "finished"
  ELSE IF i = "none" THEN (IF r = "none" THEN "absent" ELSE "claimed")
  ELSE IF r = "none" THEN "leaving"
  ELSE IF r = "offline" THEN "starting"
  ELSE IF r = "idle" THEN "ready" ELSE "working"

LEMMA LifeIs ==
  ASSUME TypeOK, NEW n \in Name
  PROVE  Life[n] = LifeOf(reg[n], inst[n])
  BY DEF TypeOK, RegState, InstState, Life, LifeOf

LEMMA LifeIsNext ==
  ASSUME TypeOK', NEW n \in Name
  PROVE  Life'[n] = LifeOf(reg'[n], inst'[n])
  BY DEF TypeOK, RegState, InstState, Life, LifeOf

(* A runner makes a move of RunnerLife, or none. *)
Moves(n) ==
  LET before == LifeOf(reg[n], inst[n])
      after  == LifeOf(reg'[n], inst'[n])
  IN  after = before \/ <<before, after>> \in RL!Move

(* It is enough that every runner moves so. *)
LEMMA LifeMoves ==
  ASSUME TypeOK, TypeOK', \A n \in Name : Moves(n)
  PROVE  [RL!Next]_Life
<1>1. \A n \in Name : Life'[n] \in RL!Phase
  BY LifeIsNext DEF LifeOf, RL!Phase
<1>2. Life' \in [Name -> RL!Phase]
  BY <1>1 DEF Life
<1>3. \A n \in Name : Life'[n] = Life[n] \/ <<Life[n], Life'[n]>> \in RL!Move
  BY LifeIs, LifeIsNext DEF Moves
<1> QED BY <1>2, <1>3 DEF RL!Next

(* Runners connect, work and exit outside the loop. *)
LEMMA OutsideMoves ==
  ASSUME "vanish" \notin Faults, TypeOK,
         Housekeep \/ Operator \/ World \/ UNCHANGED vars,
         NEW n \in Name
  PROVE  Moves(n)
<1> USE DEF TypeOK, Moves, LifeOf, RL!Move, github, hosts, RegState, InstState
<1>1. CASE Housekeep
  BY <1>1 DEF Housekeep
<1>2. CASE Operator \/ UNCHANGED vars
  BY <1>2 DEF Operator, SetDrained, SetOverride, vars
<1>3. ASSUME NEW m \in Name, Connect(m) \/ Disconnect(m) \/ Blip(m)
      PROVE  Moves(n)
  BY <1>3 DEF Connect, Disconnect, Blip
<1>4. ASSUME NEW m \in Name, Finish(m) \/ RunnerDies(m)
      PROVE  Moves(n)
  BY <1>4 DEF Finish, RunnerDies
<1>5. ASSUME NEW m \in Name, Vanish(m)
      PROVE  Moves(n)
  BY <1>5 DEF Vanish, Fault
<1>6. ASSUME NEW m \in Name, Age(m) \/ IdleTimeout(m) \/ IdleForADay(m)
      PROVE  Moves(n)
  BY <1>6 DEF Age, IdleTimeout, IdleForADay
<1>7. ASSUME NEW m \in Name, NEW j \in Job, Assign(m, j)
      PROVE  Moves(n)
  BY <1>7 DEF Assign
<1>8. ASSUME NEW j \in Job, QueueJob(j) \/ CancelJob(j)
      PROVE  Moves(n)
  BY <1>8 DEF QueueJob, CancelJob
<1> QED BY <1>1, <1>2, <1>3, <1>4, <1>5, <1>6, <1>7, <1>8 DEF World

(* destroyInstance: the registration goes first, unless GitHub refuses or  *)
(* there is none, and only then the instance.                              *)
LEMMA DestroyMoves ==
  ASSUME "deregister" \notin Faults, TypeOK, StageInv, KillInv, NEW n \in Name,
         \/ DestroyInstance \/ DestroyInstanceFails
         \/ \E m \in Name : Deregister(m) \/ DeregisterFails(m) \/ RemoveOrphan(m)
  PROVE  Moves(n)
<1> USE DEF TypeOK, Moves, LifeOf, RL!Move, github, hosts, RegState, InstState
<1>1. CASE DestroyInstance
  BY <1>1 DEF DestroyInstance, KillInv
<1>2. CASE DestroyInstanceFails
  BY <1>2 DEF DestroyInstanceFails
<1>3. ASSUME NEW m \in Name, Deregister(m)
      PROVE  Moves(n)
  BY <1>3 DEF Deregister
<1>4. ASSUME NEW m \in Name, DeregisterFails(m)
      PROVE  Moves(n)
  BY <1>4 DEF DeregisterFails, Fault
<1>5. ASSUME NEW m \in Name, RemoveOrphan(m)
      PROVE  Moves(n)
  BY <1>5 DEF RemoveOrphan, StageInv
<1> QED BY <1>1, <1>2, <1>3, <1>4, <1>5

(* launchOne: the registration comes first, then the instance. *)
LEMMA LaunchMoves ==
  ASSUME TypeOK, FlightInv, NEW n \in Name, NEW m \in Name,
         Register(m) \/ RegisterFails(m) \/ Create(m) \/ CreateFails(m) \/ Unregister(m)
  PROVE  Moves(n)
<1> USE DEF TypeOK, Moves, LifeOf, RL!Move, github, hosts, RegState, InstState
<1>1. CASE Register(m) \/ RegisterFails(m)
  BY <1>1 DEF Register, RegisterFails, Mint, Fresh
<1>2. CASE Create(m) \/ CreateFails(m) \/ Unregister(m)
  BY <1>2 DEF Create, CreateFails, Unregister, FlightInv
<1> QED BY <1>1, <1>2

(* The rest of a pass touches neither GitHub nor the instances. *)
LEMMA LoopMoves ==
  ASSUME \/ BeginPass \/ ListInstances \/ ListInstancesFails \/ ReapDone
         \/ Decide \/ PollJobsFails \/ ScaleUpFails \/ LaunchDone \/ Crash,
         NEW n \in Name
  PROVE  Moves(n)
<1>1. UNCHANGED <<reg, inst>>
  BY DEF BeginPass, ListInstances, ListInstancesFails, ReapDone, Decide, PollJobs,
         ScaleUp, ScaleDown, LeaveAlone, CullDone, PollJobsFails, ScaleUpFails,
         LaunchDone, Crash, github, hosts
<1> QED BY <1>1 DEF Moves

LEMMA LifeStep ==
  ASSUME "deregister" \notin Faults, "vanish" \notin Faults
  PROVE  TypeOK /\ StageInv /\ KillInv /\ FlightInv /\ [Next]_vars => [RL!Next]_Life
<1> SUFFICES ASSUME TypeOK, StageInv, KillInv, FlightInv, [Next]_vars, NEW n \in Name
             PROVE  Moves(n)
  BY TypeStep, LifeMoves
<1> QED
  BY OutsideMoves, DestroyMoves, LaunchMoves, LoopMoves
     DEF Next, PassStep, PassFault, Reap, Decide, Launch

(* The reconcile loop implements RunnerLife: a runner is registered before *)
(* it has an instance, deregistered before it loses it, and left alone     *)
(* while it works, through every failure of a provider, of the queue or of *)
(* a launch and every stop of the daemon, as long as GitHub answers the    *)
(* deregistrations and nobody removes instances by hand (launchOne;        *)
(* destroyInstance, "Deregister first").                                   *)
THEOREM RunnersLiveOrderlyAlways ==
  ASSUME "deregister" \notin Faults, "vanish" \notin Faults
  PROVE  Spec => RunnersLiveOrderly
<1>1. Spec => []KillInv
  BY KillInit, KillStep, StageCorrect, TypeCorrect, PTL DEF Spec
<1>2. TypeOK /\ StageInv /\ KillInv /\ FlightInv /\ [Next]_vars => [RL!Next]_Life
  BY LifeStep
<1> QED
  BY <1>1, <1>2, LifeInit, FlightCorrect, StageCorrect, TypeCorrect, PTL
     DEF Spec, RunnersLiveOrderly, RL!Spec
===========================================================================
