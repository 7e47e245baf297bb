----------------------------- MODULE Reconcile -----------------------------
(***************************************************************************)
(* The reconcile loop of one arc host: reconcileOnce and everything it     *)
(* calls (reap, destroyInstance, applyPool, scaleUp, launchOne, scaleDown, *)
(* housekeep), against GitHub, the providers and the operator.             *)
(*                                                                         *)
(* The loop is one goroutine; scaleUp fans out to at most                  *)
(* MaxCreateConcurrency launches and waits for them.  Every call to GitHub *)
(* or to a provider is a step of its own, so that runners, jobs and the    *)
(* operator move between any two calls, and what a pass read at its start  *)
(* (byName) and at each listing (live) goes stale while it acts.           *)
(*                                                                         *)
(* Organisation mode: a runner of a pool serves every job whose labels the *)
(* pool carries.  Runners of other hosts are in Scaling.                   *)
(***************************************************************************)
EXTENDS Scaling

CONSTANTS
  Name,                  \* runner names this host can mint
  NoName,
  PoolOf,                \* [Name -> Pool]: the pool a name was minted for
  Conf,                  \* [Pool -> [min, max]] of the configuration file
  OverrideChoices,       \* [Pool -> overrides the operator may set]
  Ceiling,               \* [Pool -> highest maximum the operator ever gives it]
  Drainable,             \* pools the operator may drain
  MaxCreateConcurrency,
  Faults,                \* kinds of misbehaviour that may happen
  MaxFaults,             \* bound: how many of them in one behaviour
  MaxOld                 \* bound: instances past job_timeout at one time

FaultKinds ==
  {"list", "deregister", "destroy", "register", "create", "poll", "partial",
   "crash", "die", "blip", "vanish", "dayold", "slow"}

NoOverride == [min |-> Unset, max |-> Unset]

ASSUME NamesAssumption ==
  /\ IsFiniteSet(Name) /\ NoName \notin Name
  /\ PoolOf \in [Name -> Pool]
ASSUME LimitsAssumption ==
  /\ Conf \in [Pool -> [min : Nat, max : Nat]]
  /\ OverrideChoices \in [Pool -> SUBSET [min : Nat \cup {Unset}, max : Nat \cup {Unset}]]
  /\ Ceiling \in [Pool -> Nat]
  /\ \A p \in Pool : \A o \in OverrideChoices[p] \cup {NoOverride} :
       EffectiveLimits(Conf[p], o).max <= Ceiling[p]
  /\ MaxCreateConcurrency \in Nat \ {0}
ASSUME BoundsAssumption ==
  Faults \subseteq FaultKinds /\ MaxFaults \in Nat /\ MaxOld \in Nat

VARIABLES
  \* GitHub
  reg,       \* [Name -> registration as GitHub reports it]
  job,       \* [Job -> "future", "queued" or "taken"]
  \* the providers
  inst,      \* [Name -> instance as its provider reports it]
  old,       \* instances that have lived longer than job_timeout
  \* the operator
  drained,   \* drained pools; in the memory of the daemon
  override,  \* [Pool -> live override]; on disk
  \* the orchestrator, between passes
  clock,     \* [Name -> idleSince entry]
  \* the pass under way
  pc, at,    \* its stage, and the index of the pool it works on
  byName,    \* [Name -> registration as listed at the start of the pass]
  live,      \* [Pool -> instances listed and not reaped]
  demand,    \* [Pool -> queued jobs counted against it]
  todo,      \* instances still to go through destroyInstance
  victim,    \* the one whose provider.Destroy is next
  orphans,   \* registrations still to remove
  toCreate,  \* launches scaleUp has not begun
  flight,    \* [Name -> stage of its launch]
  \* the environment
  spent      \* faults so far

github  == <<reg, job>>
hosts   == <<inst, old>>
control == <<drained, override>>
pass    == <<pc, at, byName, live, demand, todo, victim, orphans, toCreate, flight>>
vars    == <<github, hosts, control, clock, pass, spent>>

RegState   == {"none", "offline", "idle", "busy"}
InstState  == {"none", "running", "exited"}
ClockState == {"unset", "ticking", "expired", "dayold"}
Stage      == {"sleep", "list", "reap", "poll", "apply", "launch", "cull"}
LaunchStep == {"none", "registered", "failed"}

---------------------------------------------------------------------------
(* Helpers *)

Fault(kind) ==
  /\ kind \in Faults
  /\ spent < MaxFaults
  /\ spent' = spent + 1

ThisPool == PoolOrder[at]

NamesOf(p) == {n \in Name : PoolOf[n] = p}

LimitsFor(p) == EffectiveLimits(Conf[p], override[p])

(* A name with a new random suffix.  A name whose registration and instance *)
(* are gone stands for the next new one: what is still remembered of it    *)
(* (listing, idle clock) is never read again, and Mint forgets it.         *)
Fresh(n) ==
  /\ reg[n] = "none" /\ inst[n] = "none" /\ flight[n] = "none"
  /\ \A p \in Pool : n \notin live[p]

NoPass ==
  /\ pc' = "sleep" /\ at' = 1
  /\ byName' = [n \in Name |-> "none"]
  /\ live' = [p \in Pool |-> {}]
  /\ demand' = [p \in Pool |-> 0]
  /\ todo' = {} /\ victim' = NoName /\ orphans' = {}
  /\ toCreate' = 0
  /\ flight' = [n \in Name |-> "none"]

Init ==
  /\ reg = [n \in Name |-> "none"]
  /\ job = [j \in Job |-> "future"]
  /\ inst = [n \in Name |-> "none"]
  /\ old = {}
  /\ drained = {}
  /\ override = [p \in Pool |-> NoOverride]
  /\ clock = [n \in Name |-> "unset"]
  /\ pc = "sleep" /\ at = 1
  /\ byName = [n \in Name |-> "none"]
  /\ live = [p \in Pool |-> {}]
  /\ demand = [p \in Pool |-> 0]
  /\ todo = {} /\ victim = NoName /\ orphans = {}
  /\ toCreate = 0
  /\ flight = [n \in Name |-> "none"]
  /\ spent = 0

---------------------------------------------------------------------------
(* The pass: listing and reaping, one pool at a time *)

(* ListRunners; a pass that cannot read the repositories or the runners    *)
(* ends here and changes nothing.                                          *)
BeginPass ==
  /\ pc = "sleep"
  /\ byName' = reg
  /\ pc' = "list" /\ at' = 1
  /\ UNCHANGED <<github, hosts, control, clock, live, demand, todo, victim,
                 orphans, toCreate, flight, spent>>

(* After the last pool's listing, the queue is polled. *)
NextListing ==
  IF at = Len(PoolOrder)
  THEN pc' = "poll" /\ at' = 1
  ELSE pc' = "list" /\ at' = at + 1

Present(p)  == {n \in NamesOf(p) : inst[n] # "none"}

(* Mutant: instances past job_timeout are not destroyed. *)
MFinishedNeverOld(p) == {n \in Present(p) : inst[n] = "exited"}

Finished(p) == {n \in Present(p) : inst[n] = "exited" \/ n \in old}

(* Mutant: "linux" also matches the names of "linux-gpu". *)
MOrphansLoosePrefix(p) ==
  {n \in Name \ Present(p) : byName[n] \in {"offline", "idle"}}

(* Mutant: only runners that are online are removed. *)
MOrphansOnlineOnly(p) == {n \in NamesOf(p) \ Present(p) : byName[n] = "idle"}

(* Registrations of this pool, minted by this host, with no instance in    *)
(* the listing; a busy one is left alone.                                  *)
Orphans(p) ==
  {n \in NamesOf(p) \ Present(p) : byName[n] \in {"offline", "idle"}}

(* Mutant: what has exited is taken for live. *)
MListInstancesKeepsAll ==
  /\ pc = "list"
  /\ todo' = {}
  /\ live' = [live EXCEPT ![ThisPool] = Present(ThisPool)]
  /\ orphans' = Orphans(ThisPool)
  /\ pc' = "reap"
  /\ UNCHANGED <<github, hosts, control, clock, at, byName, demand, victim,
                 toCreate, flight, spent>>

ListInstances ==
  /\ pc = "list"
  /\ todo' = Finished(ThisPool)
  /\ live' = [live EXCEPT ![ThisPool] = Present(ThisPool) \ Finished(ThisPool)]
  /\ orphans' = Orphans(ThisPool)
  /\ pc' = "reap"
  /\ UNCHANGED <<github, hosts, control, clock, at, byName, demand, victim,
                 toCreate, flight, spent>>

(* The pool is skipped here, and applied later with no live instance. *)
ListInstancesFails ==
  /\ pc = "list"
  /\ Fault("list")
  /\ NextListing
  /\ UNCHANGED <<github, hosts, control, clock, byName, live, demand, todo,
                 victim, orphans, toCreate, flight>>

(* Mutant: GitHub's refusal is taken for a failure like any other. *)
MDeregisterIgnoresRefusal(n) ==
  /\ pc \in {"reap", "cull"}
  /\ victim = NoName /\ n \in todo
  /\ todo' = todo \ {n}
  /\ victim' = n
  /\ reg' = IF byName[n] # "none" /\ reg[n] # "busy" THEN [reg EXCEPT ![n] = "none"] ELSE reg
  /\ UNCHANGED <<job, hosts, control, clock, pc, at, byName, live, demand,
                 orphans, toCreate, flight, spent>>

(* Mutant: a runner listed as idle is destroyed without deregistering it. *)
MDeregisterTrustsListing(n) ==
  /\ pc \in {"reap", "cull"}
  /\ victim = NoName /\ n \in todo
  /\ todo' = todo \ {n}
  /\ victim' = IF byName[n] = "busy" THEN NoName ELSE n
  /\ UNCHANGED <<github, hosts, control, clock, pc, at, byName, live, demand,
                 orphans, toCreate, flight, spent>>

(* destroyInstance, first half: GitHub refuses while the runner is busy,   *)
(* and that ends it; an unknown registration is not an error.              *)
Deregister(n) ==
  /\ pc \in {"reap", "cull"}
  /\ victim = NoName /\ n \in todo
  /\ todo' = todo \ {n}
  /\ \/ /\ byName[n] = "none"
        /\ victim' = n
        /\ UNCHANGED reg
     \/ /\ byName[n] # "none" /\ reg[n] = "busy"
        /\ UNCHANGED <<reg, victim>>
     \/ /\ byName[n] # "none" /\ reg[n] # "busy"
        /\ reg' = [reg EXCEPT ![n] = "none"]
        /\ victim' = n
  /\ UNCHANGED <<job, hosts, control, clock, pc, at, byName, live, demand,
                 orphans, toCreate, flight, spent>>

(* Any other error: the instance is destroyed anyway. *)
DeregisterFails(n) ==
  /\ pc \in {"reap", "cull"}
  /\ victim = NoName /\ n \in todo
  /\ byName[n] # "none"
  /\ Fault("deregister")
  /\ todo' = todo \ {n}
  /\ victim' = n
  /\ UNCHANGED <<github, hosts, control, clock, pc, at, byName, live, demand,
                 orphans, toCreate, flight>>

(* destroyInstance, second half. *)
DestroyInstance ==
  /\ victim # NoName
  /\ inst' = [inst EXCEPT ![victim] = "none"]
  /\ old' = old \ {victim}
  /\ clock' = [clock EXCEPT ![victim] = "unset"]
  /\ victim' = NoName
  /\ UNCHANGED <<github, control, pc, at, byName, live, demand, todo, orphans,
                 toCreate, flight, spent>>

DestroyInstanceFails ==
  /\ victim # NoName
  /\ Fault("destroy")
  /\ victim' = NoName
  /\ UNCHANGED <<github, hosts, control, clock, pc, at, byName, live, demand,
                 todo, orphans, toCreate, flight>>

(* RemoveRunner on a registration with no instance: refused while busy,    *)
(* and any error is only logged.                                           *)
RemoveOrphan(n) ==
  /\ pc = "reap"
  /\ todo = {} /\ victim = NoName /\ n \in orphans
  /\ orphans' = orphans \ {n}
  /\ \/ /\ reg' = [reg EXCEPT ![n] = IF reg[n] = "busy" THEN "busy" ELSE "none"]
        /\ UNCHANGED spent
     \/ /\ Fault("deregister")
        /\ UNCHANGED reg
  /\ UNCHANGED <<job, hosts, control, clock, pc, at, byName, live, demand, todo,
                 victim, toCreate, flight>>

ReapDone ==
  /\ pc = "reap"
  /\ todo = {} /\ victim = NoName /\ orphans = {}
  /\ NextListing
  /\ UNCHANGED <<github, hosts, control, clock, byName, live, demand, todo,
                 victim, orphans, toCreate, flight, spent>>

---------------------------------------------------------------------------
(* The pass: polling the queue and deciding *)

QueuedJobs == {j \in Job : job[j] = "queued"}

(* PendingJobs, then AssignDemand over what it returned.  With a partial   *)
(* error the jobs of some repositories are missing.                        *)
PollJobs ==
  /\ pc = "poll"
  /\ \E jobs \in SUBSET QueuedJobs :
       /\ IF jobs = QueuedJobs THEN UNCHANGED spent ELSE Fault("partial")
       /\ LET assigned == AssignDemand(Queue(jobs),
                            [p \in Pool |-> Cardinality(live[p])],
                            [p \in Pool |-> LimitsFor(p)])
          IN  demand' = [p \in Pool |-> Cardinality(DemandOf(p, assigned, jobs))]
  /\ pc' = "apply"
  /\ UNCHANGED <<github, hosts, control, clock, at, byName, live, todo, victim,
                 orphans, toCreate, flight>>

(* Every repository failed: the pass ends after reaping. *)
PollJobsFails ==
  /\ pc = "poll"
  /\ Fault("poll")
  /\ NoPass
  /\ UNCHANGED <<github, hosts, control, clock>>

(* Mutant: one pool too many. *)
MNextPoolOffByOne ==
  IF at > Len(PoolOrder)
  THEN NoPass
  ELSE /\ pc' = "apply" /\ at' = at + 1
       /\ todo' = {} /\ victim' = NoName /\ orphans' = {}
       /\ toCreate' = 0
       /\ UNCHANGED <<byName, live, demand, flight>>

NextPool ==
  IF at = Len(PoolOrder)
  THEN NoPass
  ELSE /\ pc' = "apply" /\ at' = at + 1
       /\ todo' = {} /\ victim' = NoName /\ orphans' = {}
       /\ toCreate' = 0
       /\ UNCHANGED <<byName, live, demand, flight>>

(* The limits are read again, after AssignDemand used them; a drained pool *)
(* has none and no demand.                                                 *)
DrainedLimits == [min |-> 0, max |-> 0]

(* Mutant: runners that have not connected yet are not counted. *)
MDecisionForgetsStarting(p) ==
  LET is(s) == Cardinality({n \in live[p] : byName[n] = s})
  IN  Plan([live |-> is("busy") + is("idle"), busy |-> is("busy"), idle |-> is("idle")],
           IF p \in drained THEN 0 ELSE demand[p],
           IF p \in drained THEN DrainedLimits ELSE LimitsFor(p))

Decision(p) ==
  LET is(s) == Cardinality({n \in live[p] : byName[n] = s})
  IN  Plan([live |-> Cardinality(live[p]), busy |-> is("busy"), idle |-> is("idle")],
           IF p \in drained THEN 0 ELSE demand[p],
           IF p \in drained THEN DrainedLimits ELSE LimitsFor(p))

ScaleUp ==
  /\ pc = "apply"
  /\ ThisPool \notin drained
  /\ Decision(ThisPool).create > 0
  /\ toCreate' = Decision(ThisPool).create
  /\ pc' = "launch"
  /\ UNCHANGED <<github, hosts, control, clock, at, byName, live, demand, todo,
                 victim, orphans, flight, spent>>

(* The runner group cannot be resolved: nothing is launched. *)
ScaleUpFails ==
  /\ pc = "apply"
  /\ ThisPool \notin drained
  /\ Decision(ThisPool).create > 0
  /\ Fault("register")
  /\ NextPool
  /\ UNCHANGED <<github, hosts, control, clock>>

(* Mutant: a clock runs out no sooner than housekeeping forgets it. *)
MIdleClockRunsADay(n) == clock[n] = "dayold"

IdleClockRunOut(n) == clock[n] \in {"expired", "dayold"}

(* scaleDown starts the clock of a runner first seen idle, forgets that of *)
(* one that is not, and picks among those idle for the whole idle_timeout. *)
(* Which ones it picks when there are too many is left open (the code      *)
(* takes those idle longest).                                              *)
ScaleDown ==
  /\ pc = "apply"
  /\ Decision(ThisPool).cull > 0
  /\ LET idle     == {n \in live[ThisPool] : byName[n] = "idle"}
         eligible == {n \in idle : IdleClockRunOut(n)}
     IN  /\ clock' = [n \in Name |->
                        IF n \in idle
                        THEN IF clock[n] = "unset" THEN "ticking" ELSE clock[n]
                        ELSE IF n \in live[ThisPool] THEN "unset" ELSE clock[n]]
         /\ todo' \in {S \in SUBSET eligible :
              Cardinality(S) = AtMost(Cardinality(eligible), Decision(ThisPool).cull)}
  /\ pc' = "cull"
  /\ UNCHANGED <<github, hosts, control, at, byName, live, demand, victim,
                 orphans, toCreate, flight, spent>>

LeaveAlone ==
  /\ pc = "apply"
  /\ Decision(ThisPool).cull = 0
  /\ Decision(ThisPool).create = 0 \/ ThisPool \in drained
  /\ NextPool
  /\ UNCHANGED <<github, hosts, control, clock, spent>>

CullDone ==
  /\ pc = "cull"
  /\ todo = {} /\ victim = NoName
  /\ NextPool
  /\ UNCHANGED <<github, hosts, control, clock, spent>>

---------------------------------------------------------------------------
(* The pass: launching, several runners at a time *)

InFlight == {n \in Name : flight[n] # "none"}

(* One of the launches gets its turn and a name. *)
Mint(n) ==
  /\ pc = "launch"
  /\ toCreate > 0 /\ Cardinality(InFlight) < MaxCreateConcurrency
  /\ PoolOf[n] = ThisPool /\ Fresh(n)
  /\ toCreate' = toCreate - 1
  /\ byName' = [byName EXCEPT ![n] = "none"]
  /\ clock' = [clock EXCEPT ![n] = "unset"]

(* launchOne, GenerateJITConfig. *)
Register(n) ==
  /\ Mint(n)
  /\ reg' = [reg EXCEPT ![n] = "offline"]
  /\ flight' = [flight EXCEPT ![n] = "registered"]
  /\ UNCHANGED <<job, hosts, control, pc, at, live, demand, todo, victim,
                 orphans, spent>>

(* The launch ends with an error; GitHub may have registered the runner    *)
(* although the answer was lost.                                           *)
RegisterFails(n) ==
  /\ Mint(n)
  /\ Fault("register")
  /\ reg' \in {reg, [reg EXCEPT ![n] = "offline"]}
  /\ UNCHANGED <<job, hosts, control, pc, at, live, demand, todo, victim,
                 orphans, flight>>

(* launchOne, provider.Create. *)
Create(n) ==
  /\ flight[n] = "registered"
  /\ inst' = [inst EXCEPT ![n] = "running"]
  /\ flight' = [flight EXCEPT ![n] = "none"]
  /\ UNCHANGED <<github, old, control, clock, pc, at, byName, live, demand, todo,
                 victim, orphans, toCreate, spent>>

CreateFails(n) ==
  /\ flight[n] = "registered"
  /\ Fault("create")
  /\ flight' = [flight EXCEPT ![n] = "failed"]
  /\ UNCHANGED <<github, hosts, control, clock, pc, at, byName, live, demand,
                 todo, victim, orphans, toCreate>>

(* The registration of a runner that never started is taken back; if that  *)
(* fails too it is left to a later reap.                                   *)
Unregister(n) ==
  /\ flight[n] = "failed"
  /\ flight' = [flight EXCEPT ![n] = "none"]
  /\ \/ /\ reg' = [reg EXCEPT ![n] = "none"]
        /\ UNCHANGED spent
     \/ /\ Fault("deregister")
        /\ UNCHANGED reg
  /\ UNCHANGED <<job, hosts, control, clock, pc, at, byName, live, demand, todo,
                 victim, orphans, toCreate>>

LaunchDone ==
  /\ pc = "launch"
  /\ toCreate = 0 /\ InFlight = {}
  /\ NextPool
  /\ UNCHANGED <<github, hosts, control, clock, spent>>

---------------------------------------------------------------------------
(* The daemon, the operator and the rest of the world *)

(* Every 10 minutes, between passes: Prune removes what has exited, except *)
(* in pools where it fails, and idle clocks older than a day are dropped.  *)
Housekeep ==
  /\ pc = "sleep"
  /\ \E pruned \in SUBSET Pool :
       LET debris == {n \in Name : inst[n] = "exited" /\ PoolOf[n] \in pruned}
       IN  /\ inst' = [n \in Name |-> IF n \in debris THEN "none" ELSE inst[n]]
           /\ old' = old \ debris
  /\ clock' = [n \in Name |-> IF clock[n] = "dayold" THEN "unset" ELSE clock[n]]
  /\ UNCHANGED <<github, control, pass, spent>>

(* The daemon stops at any point and starts again: what it kept in memory  *)
(* is gone, the overrides are read back.                                   *)
Crash ==
  /\ Fault("crash")
  /\ NoPass
  /\ clock' = [n \in Name |-> "unset"]
  /\ drained' = {}
  /\ UNCHANGED <<github, hosts, override>>

SetDrained(p) ==
  /\ p \in Drainable
  /\ drained' \in {drained \cup {p}, drained \ {p}}
  /\ UNCHANGED <<github, hosts, override, clock, pass, spent>>

SetOverride(p) ==
  /\ override' \in {[override EXCEPT ![p] = o] : o \in OverrideChoices[p]}
  /\ UNCHANGED <<github, hosts, drained, clock, pass, spent>>

(* External: GitHub, its runners and their jobs. *)
Connect(n) ==
  /\ inst[n] = "running" /\ reg[n] = "offline"
  /\ reg' = [reg EXCEPT ![n] = "idle"]
  /\ UNCHANGED <<job, hosts, control, clock, pass, spent>>

Assign(n, j) ==
  /\ inst[n] = "running" /\ reg[n] = "idle"
  /\ job[j] = "queued" /\ CanServe(PoolOf[n], j)
  /\ reg' = [reg EXCEPT ![n] = "busy"]
  /\ job' = [job EXCEPT ![j] = "taken"]
  /\ UNCHANGED <<hosts, control, clock, pass, spent>>

(* An ephemeral runner takes one job, loses its registration and exits. *)
Finish(n) ==
  /\ inst[n] = "running" /\ reg[n] = "busy"
  /\ reg' = [reg EXCEPT ![n] = "none"]
  /\ inst' = [inst EXCEPT ![n] = "exited"]
  /\ UNCHANGED <<job, old, control, clock, pass, spent>>

(* GitHub notices that a runner is gone. *)
Disconnect(n) ==
  /\ inst[n] # "running" /\ reg[n] \in {"idle", "busy"}
  /\ reg' = [reg EXCEPT ![n] = "offline"]
  /\ UNCHANGED <<job, hosts, control, clock, pass, spent>>

Blip(n) ==
  /\ inst[n] = "running" /\ reg[n] = "idle"
  /\ Fault("blip")
  /\ reg' = [reg EXCEPT ![n] = "offline"]
  /\ UNCHANGED <<job, hosts, control, clock, pass>>

RunnerDies(n) ==
  /\ inst[n] = "running"
  /\ Fault("die")
  /\ inst' = [inst EXCEPT ![n] = "exited"]
  /\ UNCHANGED <<github, old, control, clock, pass>>

(* The instance is removed by hand. *)
Vanish(n) ==
  /\ inst[n] # "none"
  /\ Fault("vanish")
  /\ inst' = [inst EXCEPT ![n] = "none"]
  /\ old' = old \ {n}
  /\ UNCHANGED <<github, control, clock, pass>>

(* Time passes.  job_timeout is hours: a runner that outlives it while it  *)
(* is still to connect, while a job it could take is queued, or while it   *)
(* idles in a drained pool for idle_timeout (minutes), is a slow one, and  *)
(* counts as a fault.  The age of what has exited, and the idle clock of   *)
(* what is gone, no longer matter.                                         *)
Waiting(n) ==
  /\ inst[n] = "running"
  /\ \/ reg[n] = "offline"
     \/ /\ reg[n] = "idle"
        /\ \/ PoolOf[n] \in drained
           \/ \E j \in Job : job[j] = "queued" /\ CanServe(PoolOf[n], j)

Age(n) ==
  /\ inst[n] = "running" /\ n \notin old
  /\ Cardinality(old) < MaxOld
  /\ old' = old \cup {n}
  /\ IF Waiting(n) THEN Fault("slow") ELSE UNCHANGED spent
  /\ UNCHANGED <<github, inst, control, clock, pass>>

IdleTimeout(n) ==
  /\ clock[n] = "ticking" /\ inst[n] # "none"
  /\ clock' = [clock EXCEPT ![n] = "expired"]
  /\ UNCHANGED <<github, hosts, control, pass, spent>>

IdleForADay(n) ==
  /\ clock[n] = "expired"
  /\ Fault("dayold")
  /\ clock' = [clock EXCEPT ![n] = "dayold"]
  /\ UNCHANGED <<github, hosts, control, pass>>

QueueJob(j) ==
  /\ job[j] = "future"
  /\ job' = [job EXCEPT ![j] = "queued"]
  /\ UNCHANGED <<reg, hosts, control, clock, pass, spent>>

CancelJob(j) ==
  /\ job[j] = "queued"
  /\ job' = [job EXCEPT ![j] = "taken"]
  /\ UNCHANGED <<reg, hosts, control, clock, pass, spent>>

---------------------------------------------------------------------------
(* The specification *)

Reap == ListInstances \/ ReapDone \/ \E n \in Name : Deregister(n) \/ RemoveOrphan(n)
Decide == PollJobs \/ ScaleUp \/ ScaleDown \/ LeaveAlone \/ CullDone
Launch == LaunchDone \/ \E n \in Name : Register(n) \/ Create(n) \/ Unregister(n)

(* A pass makes progress: each call returns, and a failing one is a fault. *)
PassStep == BeginPass \/ Reap \/ DestroyInstance \/ Decide \/ Launch

PassFault ==
  \/ ListInstancesFails \/ DestroyInstanceFails \/ PollJobsFails \/ ScaleUpFails
  \/ \E n \in Name : DeregisterFails(n) \/ RegisterFails(n) \/ CreateFails(n)

Operator == \E p \in Pool : SetDrained(p) \/ SetOverride(p)

World ==
  \/ \E n \in Name :
       \/ Connect(n) \/ Finish(n) \/ Disconnect(n) \/ Blip(n) \/ RunnerDies(n)
       \/ Vanish(n) \/ Age(n) \/ IdleTimeout(n) \/ IdleForADay(n)
       \/ \E j \in Job : Assign(n, j)
  \/ \E j \in Job : QueueJob(j) \/ CancelJob(j)

Next == PassStep \/ PassFault \/ Housekeep \/ Crash \/ Operator \/ World

Spec == Init /\ [][Next]_vars

(* The ticker starts a pass over and over; runners connect, GitHub hands a *)
(* queued job to an idle runner, jobs end, GitHub notices lost runners and *)
(* time passes.                                                            *)
Fairness ==
  /\ WF_vars(PassStep)
  /\ \A n \in Name :
       /\ WF_vars(Connect(n)) /\ WF_vars(Finish(n)) /\ WF_vars(Disconnect(n))
       /\ WF_vars(Age(n)) /\ WF_vars(IdleTimeout(n))
  /\ WF_vars(\E n \in Name, j \in Job : Assign(n, j))

FairSpec == Spec /\ Fairness

(* Jobs may hang: nothing makes a runner finish. *)
HangSpec ==
  /\ Spec
  /\ WF_vars(PassStep)
  /\ \A n \in Name : WF_vars(Connect(n)) /\ WF_vars(Age(n))
  /\ WF_vars(\E n \in Name, j \in Job : Assign(n, j))
---------------------------------------------------------------------------
(* Properties *)

(* The state is what the code's types allow, and the instances a pool      *)
(* keeps as live or has yet to destroy are its own.                        *)
TypeOK ==
  /\ reg \in [Name -> RegState] /\ job \in [Job -> {"future", "queued", "taken"}]
  /\ inst \in [Name -> InstState] /\ old \subseteq Name
  /\ drained \subseteq Pool
  /\ DOMAIN override = Pool
  /\ \A p \in Pool : override[p] \in OverrideChoices[p] \cup {NoOverride}
  /\ clock \in [Name -> ClockState]
  /\ pc \in Stage /\ at \in DOMAIN PoolOrder
  /\ byName \in [Name -> RegState]
  /\ live \in [Pool -> SUBSET Name]
  /\ \A p \in Pool : live[p] \subseteq NamesOf(p)
  /\ demand \in [Pool -> Nat]
  /\ todo \subseteq Name /\ victim \in Name \cup {NoName} /\ orphans \subseteq Name
  /\ toCreate \in Nat
  /\ flight \in [Name -> LaunchStep]
  /\ spent \in Nat

(* A runner that is executing a job is not destroyed, although the pass    *)
(* knows it only from a listing made earlier (README.md:75, "Only idle     *)
(* runners are ever removed"; destroyInstance, RemoveRunner).  Holds when  *)
(* GitHub answers the deregistration.                                      *)
NeverKillsBusy ==
  victim # NoName => ~(inst[victim] = "running" /\ reg[victim] = "busy")

(* A registration removed as an orphan has no instance, although runners   *)
(* were listed before instances and those of a pool that was reaped first  *)
(* are gone (reap); nor is a launch about to give it one, as every pool is *)
(* reaped before any is launched for (reconcileOnce).                      *)
OrphansAreDead ==
  \A n \in orphans : inst[n] = "none" /\ flight[n] = "none"

(* Instances of a pool that have not outlived job_timeout.                 *)
Young(p) == {n \in NamesOf(p) : inst[n] = "running" /\ n \notin old}

(* No pool runs more instances than its maximum, whatever fails in between *)
(* (config.go:115, "Max caps concurrent runners in this pool").  Instances *)
(* past job_timeout are not counted: reap drops them from the live ones    *)
(* even when they survive.  Holds when the provider can be listed.         *)
WithinMax == \A p \in Pool : Cardinality(Young(p)) <= Ceiling[p]

Life ==
  [n \in Name |->
     IF inst[n] = "running"
     THEN CASE reg[n] = "none"    -> "leaving"
            [] reg[n] = "offline" -> "starting"
            [] reg[n] = "idle"    -> "ready"
            [] reg[n] = "busy"    -> "working"
     ELSE IF inst[n] = "exited" THEN "finished"
     ELSE IF reg[n] = "none" THEN "absent" ELSE "claimed"]

RL == INSTANCE RunnerLife WITH life <- Life

(* Every runner lives as RunnerLife says: registered before it has an      *)
(* instance, deregistered before it loses it, and untouched while it works *)
(* (launchOne; destroyInstance, "Deregister first").                       *)
RunnersLiveOrderly == RL!Spec

(* A queued job gets a runner, or a pool that could serve it is drained    *)
(* (Plan, "one fresh runner per waiting job").                             *)
JobServed ==
  \A j \in Job :
    job[j] = "queued" ~> (job[j] # "queued" \/ Candidates(j) \cap drained # {})

(* An instance that outlives job_timeout is destroyed, also when its job   *)
(* hangs (config.go:119, "JobTimeout force-destroys an instance that has   *)
(* lived this long, as a guard against jobs that hang").                   *)
JobTimeoutDestroys ==
  \A n \in Name : (n \in old /\ inst[n] = "running") ~> inst[n] # "running"

(* A registration with no instance behind it is eventually removed, also   *)
(* after a crash between registering and creating (orchestrator.go:353).   *)
OrphansRemoved ==
  \A n \in Name :
    (inst[n] = "none" /\ flight[n] = "none" /\ reg[n] # "none") ~> reg[n] = "none"

(* What has exited is cleaned up. *)
FinishedReaped == \A n \in Name : inst[n] = "exited" ~> inst[n] = "none"

(* A pool that stays drained ends up with no runner (SetDrained, "creates  *)
(* nothing and culls its idle runners to zero").                           *)
DrainEmpties ==
  \A p \in Pool :
    <>[](p \in drained) => <>[](\A n \in NamesOf(p) : inst[n] = "none")
===========================================================================
