--------------------------- MODULE JobPollProofs ---------------------------
(***************************************************************************)
(* Theorems about what PendingJobs answers, for any repositories, runs,    *)
(* jobs, labels, retries and waits.                                        *)
(***************************************************************************)
EXTENDS JobPoll, FiniteSetTheorems, WellFoundedInduction, TLAPS

(* The ids of runs have a least one. *)
Below == {ss \in Nat \X Nat : ss[1] < ss[2]}

LEMMA BelowIsWellFounded == IsWellFoundedOn(Below, Nat)
  BY NatLessThanWellFounded, Zenon DEF OpToRel, Below

LEMMA LeastIsIn ==
  ASSUME NEW S, S \subseteq Nat, S # {}
  PROVE  Least(S) \in S
<1>1. PICK m \in S : \A n \in S : ~(<<n, m>> \in Below)
  BY BelowIsWellFounded, WFMin, Zenon
<1>2. \A n \in S : m <= n
  <2>1. \A a, b \in Nat : a < b => <<a, b>> \in Below
    BY DEF Below
  <2>2. TAKE n \in S
  <2>3. n \in Nat /\ m \in Nat
    OBVIOUS
  <2>4. ~(n < m)
    BY <1>1, <2>1, <2>3, Zenon
  <2> QED BY <2>3, <2>4
<1> QED BY <1>2 DEF Least

-----------------------------------------------------------------------------
(* Types, as far as the answer depends on them. *)

RunState == {"none", "queued", "in_progress", "completed"}
Stages == {"queued", "in_progress", "jobs", "done", "failed", "idle", "waits"}

Shapes ==
  /\ run \in [Runs -> RunState] /\ job \in [Jobs -> {"none", "queued", "taken"}]
  /\ DOMAIN cache = Keys /\ polling \in BOOLEAN
  /\ at \in [Repos -> Stages]
  /\ found \in [Repos -> SUBSET Runs] /\ pending \in [Repos -> SUBSET Jobs]

\* Each entry holds what its tag stands for.
CacheInv == \A k \in Keys : cache[k] = NoEntry \/ cache[k].body = cache[k].tag

\* A worker asks for the jobs of runs that it has found, and only then; between
\* polls there is no worker and nothing found.
WorkerInv ==
  /\ \A w \in Repos : at[w] = "jobs" => found[w] # {}
  /\ \A w \in Repos : ~polling => at[w] = "idle" /\ pending[w] = {}
  /\ \A w \in Repos : at[w] \in {"idle", "waits"} => pending[w] = {}

\* A run with a queued job is queued or in progress.
QueueInv == \A j \in Jobs : job[j] = "queued" => run[RunOf[j]] \in {"queued", "in_progress"}

HistoryInv == /\ polling => Waiting \subseteq ever
              /\ always \subseteq Waiting

LEMMA Constants ==
  /\ Statuses[1] = "queued" /\ Statuses[2] = "in_progress"
  /\ Asking = {"queued", "in_progress", "jobs"}
  BY DEF Statuses, Asking

LEMMA ContentTypes ==
  ASSUME Shapes
  PROVE  /\ \A r \in Runs : Content(<<"jobs", r>>) \subseteq Waiting
         /\ \A w \in Repos : Content(<<"queued", w>>) \subseteq Runs
         /\ \A w \in Repos : Content(<<"in_progress", w>>) \subseteq Runs
         /\ \A k \in Keys : 0 \notin Content(k)
<1>1. \A r \in Runs : Content(<<"jobs", r>>) \subseteq Waiting
  BY DEF Content
<1>2. \A w \in Repos : Content(<<"queued", w>>) \subseteq Runs
  BY DEF Content, FirstRuns
<1>3. \A w \in Repos : Content(<<"in_progress", w>>) \subseteq Runs
  BY DEF Content, FirstRuns
<1>4. 0 \notin Runs \cup Jobs
  BY IdsAssumption
<1>5. Waiting \subseteq Jobs
  BY DEF Waiting
<1>6. ASSUME NEW k \in Keys PROVE 0 \notin Content(k)
  <2>1. \/ \E w \in Repos : k = <<"queued", w>> \/ k = <<"in_progress", w>>
        \/ \E r \in Runs : k = <<"jobs", r>>
    BY DEF Keys
  <2> QED BY <1>1, <1>2, <1>3, <1>4, <1>5, <2>1
<1> QED BY <1>1, <1>2, <1>3, <1>6

LEMMA KeyIsAKey ==
  ASSUME Shapes, WorkerInv, NEW w \in Repos, at[w] \in Asking
  PROVE  /\ Key(w) \in Keys
         /\ at[w] = "jobs" => Least(found[w]) \in found[w]
<1>1. CASE at[w] = "jobs"
  <2>1. found[w] \subseteq Runs /\ found[w] # {} /\ Runs \subseteq Nat
    BY <1>1, IdsAssumption DEF Shapes, WorkerInv
  <2>2. Least(found[w]) \in found[w]
    BY <2>1, LeastIsIn
  <2> QED BY <1>1, <2>1, <2>2 DEF Key, Keys
<1>2. CASE at[w] # "jobs"
  BY <1>2, Constants DEF Key, Keys
<1> QED BY <1>1, <1>2

-----------------------------------------------------------------------------
(* Whatever the answer is, 200 or 304, a worker reads what GitHub holds. *)

LEMMA Reading ==
  ASSUME Shapes, WorkerInv, CacheInv, NEW w \in Repos, Fetched(w) \/ NotModified(w)
  PROVE  /\ at[w] \in Asking /\ Read(w, Content(Key(w)))
         /\ UNCHANGED <<run, job, always, ever, polling>>
<1>1. CASE Fetched(w)
  BY <1>1 DEF Fetched, github
<1>2. CASE NotModified(w)
  <2>1. at[w] \in Asking /\ Key(w) \in Keys
    BY <1>2, KeyIsAKey DEF NotModified
  <2>2. cache[Key(w)].tag = Content(Key(w)) /\ 0 \notin Content(Key(w))
    BY <1>2, <2>1, ContentTypes DEF NotModified
  <2>3. cache[Key(w)] # NoEntry
    BY <2>2 DEF NoEntry
  <2>4. cache[Key(w)].body = Content(Key(w))
    BY <2>1, <2>2, <2>3 DEF CacheInv
  <2> QED BY <1>2, <2>1, <2>4 DEF NotModified, github
<1> QED BY <1>1, <1>2

\* The three requests of a worker, and what it then knows.
FoundQueued(w) ==
  /\ at[w] = "queued" /\ at' = [at EXCEPT ![w] = "in_progress"]
  /\ found' = [found EXCEPT ![w] = @ \cup Content(<<"queued", w>>)]
  /\ pending' = pending

FoundRunning(w) ==
  /\ at[w] = "in_progress"
  /\ found' = [found EXCEPT ![w] = @ \cup Content(<<"in_progress", w>>)]
  /\ at' = [at EXCEPT ![w] = IF found'[w] = {} THEN "done" ELSE "jobs"]
  /\ pending' = pending

Skips(w) ==
  /\ at[w] = "jobs" /\ found' = [found EXCEPT ![w] = @ \ {Least(@)}]
  /\ at' = [at EXCEPT ![w] = IF found'[w] = {} THEN "done" ELSE "jobs"]

ReadJobs(w) ==
  /\ Skips(w)
  /\ pending' = [pending EXCEPT ![w] = @ \cup Content(<<"jobs", Least(found[w])>>)]

LEMMA ReadingSteps ==
  ASSUME Shapes, NEW w \in Repos, at[w] \in Asking, Read(w, Content(Key(w)))
  PROVE  FoundQueued(w) \/ FoundRunning(w) \/ ReadJobs(w)
<1>1. CASE at[w] = "queued"
  <2>1. Key(w) = <<"queued", w>>
    BY <1>1 DEF Key
  <2> QED BY <1>1, <2>1, Constants DEF Read, GoOn, FoundQueued, Shapes
<1>2. CASE at[w] = "in_progress"
  <2>1. Key(w) = <<"in_progress", w>>
    BY <1>2 DEF Key
  <2> QED BY <1>2, <2>1, Constants DEF Read, GoOn, FoundRunning, Shapes
<1>3. CASE at[w] = "jobs"
  <2>1. Key(w) = <<"jobs", Least(found[w])>>
    BY <1>3 DEF Key
  <2> QED BY <1>3, <2>1, Constants DEF Read, GoOn, ReadJobs, Skips, Shapes
<1> QED BY <1>1, <1>2, <1>3, Constants

Acquires(w) ==
  at[w] = "waits" /\ at' = [at EXCEPT ![w] = "queued"] /\ found' = found /\ pending' = pending

LosesRun(w) ==
  /\ Skips(w) /\ pending' = pending
  /\ Least(found[w]) \in found[w] /\ run[Least(found[w])] = "completed"

GivesUp(w) ==
  /\ at[w] \in Asking /\ at' = [at EXCEPT ![w] = "failed"]
  /\ found' = [found EXCEPT ![w] = {}] /\ pending' = [pending EXCEPT ![w] = {}]

Stays == at' = at /\ found' = found /\ pending' = pending

LEMMA WorkSteps ==
  ASSUME Shapes, WorkerInv, CacheInv, NEW w \in Repos, Work(w)
  PROVE  /\ run' = run /\ job' = job /\ always' = always /\ ever' = ever /\ polling' = polling
         /\ \/ Acquires(w) \/ FoundQueued(w) \/ FoundRunning(w) \/ ReadJobs(w)
            \/ LosesRun(w) \/ GivesUp(w) \/ Stays
<1>1. CASE AcquireSlot(w)
  BY <1>1, Constants DEF AcquireSlot, Acquires, github
<1>2. CASE Fetched(w) \/ NotModified(w)
  BY <1>2, Reading, ReadingSteps
<1>3. CASE Vanished(w)
  <2>1. at[w] = "jobs"
    BY <1>3, Constants DEF Vanished, Deletable, Key
  <2>2. Key(w) = <<"jobs", Least(found[w])>> /\ Least(found[w]) \in found[w]
    BY <2>1, KeyIsAKey, Constants DEF Key
  <2>3. run[Least(found[w])] = "completed"
    BY <1>3, <2>2 DEF Vanished, Deletable
  <2>4. Skips(w)
    BY <1>3, <2>1, Constants DEF Vanished, GoOn, Skips, Shapes
  <2> QED BY <1>3, <2>2, <2>3, <2>4 DEF Vanished, LosesRun, github
<1>4. CASE AttemptFails(w) \/ Limited(w) \/ Refused(w)
  <2>1. at[w] \in Asking /\ UNCHANGED github /\ polling' = polling
    BY <1>4 DEF AttemptFails, Limited, Refused
  <2>2. GivesUp(w) \/ Stays
    BY <1>4, <2>1 DEF AttemptFails, Limited, Refused, Retry, GiveUp, GivesUp, Stays
  <2> QED BY <2>1, <2>2 DEF github
<1> QED BY <1>1, <1>2, <1>3, <1>4 DEF Work

(* What GitHub does leaves workers alone. *)
World == (\E j \in Jobs : QueueJob(j) \/ TakeJob(j)) \/ (\E r \in Runs : EndRun(r))

LEMMA WorldSteps ==
  ASSUME World
  PROVE  Stays /\ cache' = cache /\ polling' = polling
  BY DEF World, QueueJob, TakeJob, EndRun, worker, Stays

-----------------------------------------------------------------------------

LEMMA ShapesInit == Init => Shapes /\ CacheInv /\ WorkerInv /\ QueueInv /\ HistoryInv
<1> SUFFICES ASSUME Init PROVE Shapes /\ CacheInv /\ WorkerInv /\ QueueInv /\ HistoryInv
  OBVIOUS
<1>1. Shapes
  BY DEF Init, Shapes, RunState, Stages
<1>2. CacheInv
  BY DEF Init, CacheInv
<1>3. WorkerInv
  BY DEF Init, WorkerInv
<1>4. QueueInv /\ HistoryInv
  BY DEF Init, QueueInv, HistoryInv
<1> QED BY <1>1, <1>2, <1>3, <1>4

LEMMA CacheStep == Shapes /\ CacheInv /\ WorkerInv /\ [Next]_vars => CacheInv' /\ DOMAIN cache' = Keys
<1> SUFFICES ASSUME Shapes, CacheInv, WorkerInv, [Next]_vars
             PROVE  CacheInv' /\ DOMAIN cache' = Keys
  OBVIOUS
<1>1. ASSUME NEW w \in Repos, Fetched(w) PROVE CacheInv' /\ DOMAIN cache' = Keys
  <2>1. cache' = [cache EXCEPT ![Key(w)] = Entry(Key(w))] /\ Key(w) \in Keys
    BY <1>1, KeyIsAKey DEF Fetched
  <2>2. Entry(Key(w)).body = Entry(Key(w)).tag
    BY DEF Entry
  <2> HIDE DEF Entry
  <2> QED BY <2>1, <2>2 DEF CacheInv, Shapes
<1>2. CASE Sweep
  BY <1>2 DEF Sweep, CacheInv
<1>3. CASE cache' = cache
  BY <1>3 DEF CacheInv, Shapes
<1>4. Sweep \/ cache' = cache \/ \E w \in Repos : Fetched(w)
  BY WorldSteps DEF World, Next, BeginPoll, EndPoll, Work, AcquireSlot, NotModified, Vanished,
     AttemptFails, Limited, Refused, vars
<1> QED BY <1>1, <1>2, <1>3, <1>4

LEMMA WorkShapes ==
  ASSUME Shapes, WorkerInv, CacheInv, NEW w \in Repos, Work(w)
  PROVE  /\ at' \in [Repos -> Stages]
         /\ found' \in [Repos -> SUBSET Runs] /\ pending' \in [Repos -> SUBSET Jobs]
         /\ WorkerInv'
<1>1. /\ at \in [Repos -> Stages] /\ found \in [Repos -> SUBSET Runs]
      /\ pending \in [Repos -> SUBSET Jobs] /\ polling' = polling
  BY WorkSteps DEF Shapes
<1>2. /\ Content(<<"queued", w>>) \subseteq Runs /\ Content(<<"in_progress", w>>) \subseteq Runs
      /\ \A r \in Runs : Content(<<"jobs", r>>) \subseteq Jobs
  BY ContentTypes DEF Waiting
<1> USE DEF Stages, WorkerInv
<1>3. CASE Acquires(w)
  BY <1>1, <1>3 DEF Acquires
<1>4. CASE FoundQueued(w)
  BY <1>1, <1>2, <1>4 DEF FoundQueued
<1>5. CASE FoundRunning(w)
  BY <1>1, <1>2, <1>5 DEF FoundRunning
<1>6. CASE ReadJobs(w)
  <2>1. Least(found[w]) \in Runs
    BY <1>6, <1>1, KeyIsAKey, Constants DEF ReadJobs, Skips
  <2> QED BY <1>1, <1>2, <1>6, <2>1 DEF ReadJobs, Skips
<1>7. CASE LosesRun(w)
  BY <1>1, <1>7 DEF LosesRun, Skips
<1>8. CASE GivesUp(w)
  BY <1>1, <1>8, Constants DEF GivesUp
<1>9. CASE Stays
  BY <1>1, <1>9 DEF Stays
<1> QED BY <1>3, <1>4, <1>5, <1>6, <1>7, <1>8, <1>9, WorkSteps

LEMMA WorkerStep ==
  Shapes /\ WorkerInv /\ CacheInv /\ [Next]_vars => Shapes' /\ WorkerInv'
<1> SUFFICES ASSUME Shapes, WorkerInv, CacheInv, [Next]_vars PROVE Shapes' /\ WorkerInv'
  OBVIOUS
<1>0. DOMAIN cache' = Keys
  BY CacheStep
<1>1. ASSUME NEW w \in Repos, Work(w) PROVE Shapes' /\ WorkerInv'
  BY <1>0, <1>1, WorkShapes, WorkSteps DEF Shapes
<1>2. CASE World
  <2>1. run' \in [Runs -> RunState] /\ job' \in [Jobs -> {"none", "queued", "taken"}]
    BY <1>2, ShapeAssumption DEF World, QueueJob, TakeJob, EndRun, Shapes, RunState
  <2> QED BY <1>0, <1>2, <2>1, WorldSteps DEF Stays, Shapes, WorkerInv
<1>3. CASE BeginPoll
  BY <1>0, <1>3 DEF BeginPoll, Shapes, WorkerInv, Stages
<1>4. CASE EndPoll
  BY <1>0, <1>4 DEF EndPoll, Shapes, WorkerInv, Stages
<1>5. CASE Sweep \/ UNCHANGED vars
  BY <1>0, <1>5 DEF Sweep, vars, github, worker, Shapes, WorkerInv
<1> QED BY <1>1, <1>2, <1>3, <1>4, <1>5 DEF Next, World

LEMMA QueueStep ==
  Shapes /\ WorkerInv /\ CacheInv /\ QueueInv /\ [Next]_vars => QueueInv'
<1> SUFFICES ASSUME Shapes, WorkerInv, CacheInv, QueueInv, [Next]_vars PROVE QueueInv'
  OBVIOUS
<1>1. ASSUME NEW j \in Jobs, QueueJob(j) PROVE QueueInv'
  BY <1>1, ShapeAssumption DEF QueueJob, QueueInv, Shapes
<1>2. ASSUME NEW j \in Jobs, TakeJob(j) PROVE QueueInv'
  BY <1>2, ShapeAssumption DEF TakeJob, QueueInv, Shapes
<1>3. ASSUME NEW r \in Runs, EndRun(r) PROVE QueueInv'
  BY <1>3, ShapeAssumption DEF EndRun, QueueInv, Shapes
<1>4. CASE run' = run /\ job' = job
  BY <1>4 DEF QueueInv
<1>5. World \/ (run' = run /\ job' = job)
  BY WorkSteps DEF Next, World, BeginPoll, EndPoll, Sweep, vars, github
<1> QED BY <1>1, <1>2, <1>3, <1>4, <1>5 DEF World

LEMMA HistoryStep ==
  Shapes /\ WorkerInv /\ CacheInv /\ HistoryInv /\ [Next]_vars => HistoryInv'
<1> SUFFICES ASSUME Shapes, WorkerInv, CacheInv, HistoryInv, [Next]_vars PROVE HistoryInv'
  OBVIOUS
<1> USE DEF HistoryInv, Waiting
<1>1. ASSUME NEW j \in Jobs, QueueJob(j) PROVE HistoryInv'
  BY <1>1 DEF QueueJob, Shapes
<1>2. ASSUME NEW j \in Jobs, TakeJob(j) PROVE HistoryInv'
  BY <1>2 DEF TakeJob, Shapes
<1>3. ASSUME NEW r \in Runs, EndRun(r) PROVE HistoryInv'
  BY <1>3 DEF EndRun
<1>4. CASE BeginPoll \/ EndPoll
  BY <1>4 DEF BeginPoll, EndPoll
<1>5. CASE job' = job /\ always' = always /\ ever' = ever /\ polling' = polling
  BY <1>5
<1>6. \/ World \/ BeginPoll \/ EndPoll
      \/ job' = job /\ always' = always /\ ever' = ever /\ polling' = polling
  BY WorkSteps DEF Next, World, Sweep, vars, github
<1> QED BY <1>1, <1>2, <1>3, <1>4, <1>5, <1>6 DEF World

BaseInv == Shapes /\ CacheInv /\ WorkerInv /\ QueueInv /\ HistoryInv

LEMMA BaseHolds == Spec => []BaseInv
<1>1. BaseInv /\ [Next]_vars => BaseInv'
  BY CacheStep, WorkerStep, QueueStep, HistoryStep DEF BaseInv
<1> QED BY <1>1, ShapesInit, PTL DEF Spec, BaseInv

-----------------------------------------------------------------------------
(* What is reported did wait: what a worker reads waits when it is read, and   *)
(* what waits while a poll goes on is in its history.                            *)

GhostInv == \A w \in Repos : pending[w] \subseteq ever

LEMMA GhostStep == BaseInv /\ GhostInv /\ [Next]_vars => GhostInv'
<1> SUFFICES ASSUME BaseInv, GhostInv, [Next]_vars PROVE GhostInv'
  OBVIOUS
<1> USE DEF GhostInv
<1>1. ASSUME NEW w \in Repos, Work(w) PROVE GhostInv'
  <2>1. ever' = ever /\ pending \in [Repos -> SUBSET Jobs]
    BY <1>1, WorkSteps DEF BaseInv, Shapes
  <2>2. CASE ReadJobs(w)
    <3>1. Least(found[w]) \in Runs
      BY <2>2, KeyIsAKey, Constants DEF BaseInv, Shapes, ReadJobs, Skips
    <3>2. Content(<<"jobs", Least(found[w])>>) \subseteq ever
      BY <2>2, <3>1, ContentTypes DEF BaseInv, HistoryInv, WorkerInv, ReadJobs, Skips
    <3> QED BY <2>1, <2>2, <3>2 DEF ReadJobs
  <2>3. CASE GivesUp(w)
    BY <2>1, <2>3 DEF GivesUp
  <2>4. CASE pending' = pending
    BY <2>1, <2>4
  <2> QED
    BY <1>1, <2>2, <2>3, <2>4, WorkSteps
       DEF BaseInv, Acquires, FoundQueued, FoundRunning, LosesRun, Stays
<1>2. CASE World
  BY <1>2, WorldSteps DEF World, QueueJob, TakeJob, EndRun, Stays
<1>3. CASE BeginPoll \/ EndPoll
  BY <1>3 DEF BeginPoll, EndPoll, BaseInv, WorkerInv
<1>4. CASE Sweep \/ UNCHANGED vars
  BY <1>4 DEF Sweep, vars, github, worker
<1> QED BY <1>1, <1>2, <1>3, <1>4 DEF Next, World

(* PendingJobs reports no job that did not wait at some moment of the poll, *)
(* whatever the cache answers and however its requests fail.                   *)
THEOREM NoJobIsAGhost == Spec => []NoGhostJobs
<1>1. Init => GhostInv
  BY DEF Init, GhostInv
<1>2. GhostInv => NoGhostJobs
  BY DEF GhostInv, NoGhostJobs, Answer
<1> QED BY <1>1, <1>2, GhostStep, BaseHolds, PTL DEF Spec

-----------------------------------------------------------------------------
(* Nothing that waits is overlooked, if everything fits on a page. *)

PagesSuffice ==
  /\ IsFiniteSet(Runs) /\ Cardinality(Runs) <= PageSize
  /\ IsFiniteSet(Jobs) /\ Cardinality(Jobs) <= PageSize

LEMMA OthersAreFewer ==
  ASSUME NEW U, IsFiniteSet(U), Cardinality(U) <= PageSize, NEW x \in U,
         NEW T, T \subseteq U \ {x}
  PROVE  Cardinality(T) < PageSize
<1>1. IsFiniteSet(U \ {x}) /\ Cardinality(U \ {x}) = Cardinality(U) - 1
  BY FS_RemoveElement
<1>2. IsFiniteSet(T) /\ Cardinality(T) <= Cardinality(U \ {x})
  BY <1>1, FS_Subset
<1>3. Cardinality(U) \in Nat /\ Cardinality(U \ {x}) \in Nat /\ Cardinality(T) \in Nat
  BY <1>1, <1>2, FS_CardinalityType
<1>4. PageSize \in Nat
  BY NumbersAssumption
<1> QED BY <1>1, <1>2, <1>3, <1>4

LEMMA PagesAreWhole ==
  ASSUME PagesSuffice
  PROVE  /\ \A S \in SUBSET Runs : FirstRuns(S) = S
         /\ \A S \in SUBSET Jobs : FirstJobs(S) = S
<1>1. ASSUME NEW S \in SUBSET Runs, NEW r \in S PROVE r \in FirstRuns(S)
  <2>1. {s \in S : s > r} \subseteq Runs \ {r}
    BY IdsAssumption
  <2>2. Cardinality({s \in S : s > r}) < PageSize
    BY <2>1, OthersAreFewer DEF PagesSuffice
  <2> QED BY <2>2 DEF FirstRuns
<1>2. ASSUME NEW S \in SUBSET Jobs, NEW j \in S PROVE j \in FirstJobs(S)
  <2>1. {i \in S : i < j} \subseteq Jobs \ {j}
    BY IdsAssumption
  <2>2. Cardinality({i \in S : i < j}) < PageSize
    BY <2>1, OthersAreFewer DEF PagesSuffice
  <2> QED BY <2>2 DEF FirstJobs
<1> QED BY <1>1, <1>2 DEF FirstRuns, FirstJobs

LEMMA ContentIsWhole ==
  ASSUME PagesSuffice
  PROVE  /\ \A r \in Runs : Content(<<"jobs", r>>) = {j \in Waiting : RunOf[j] = r}
         /\ \A w \in Repos, s \in {"queued", "in_progress"} :
              Content(<<s, w>>) = {r \in Runs : RepoOf[r] = w /\ run[r] = s}
<1>1. ASSUME NEW r \in Runs PROVE Content(<<"jobs", r>>) = {j \in Waiting : RunOf[j] = r}
  <2> DEFINE S == {j \in Jobs : RunOf[j] = r /\ job[j] # "none"}
  <2>1. FirstJobs(S) = S
    BY PagesAreWhole
  <2>2. Content(<<"jobs", r>>) = S \cap Waiting
    BY <2>1 DEF Content
  <2> QED BY <2>2 DEF Waiting
<1>2. ASSUME NEW w \in Repos, NEW s \in {"queued", "in_progress"}
      PROVE  Content(<<s, w>>) = {r \in Runs : RepoOf[r] = w /\ run[r] = s}
  <2> DEFINE S == {r \in Runs : RepoOf[r] = w /\ run[r] = s}
  <2>1. FirstRuns(S) = S
    BY PagesAreWhole
  <2> QED BY <2>1 DEF Content
<1> QED BY <1>1, <1>2

\* Where the worker of a job's repository has got to, as far as that job goes.
Covered(j) ==
  LET w == RepoOf[RunOf[j]] IN
  /\ at[w] = "in_progress" => run[RunOf[j]] = "in_progress" \/ RunOf[j] \in found[w]
  /\ at[w] = "jobs" => RunOf[j] \in found[w] \/ j \in pending[w]
  /\ at[w] = "done" => j \in pending[w]

CoverInv == \A j \in always : Covered(j)

LEMMA CoverWork ==
  ASSUME PagesSuffice, BaseInv, CoverInv, NEW w \in Repos, Work(w)
  PROVE  CoverInv'
<1> SUFFICES ASSUME NEW j \in always PROVE Covered(j)'
  BY WorkSteps DEF BaseInv, CoverInv
<1> DEFINE r == RunOf[j]
           v == RepoOf[r]
<1>1. /\ j \in Waiting /\ j \in Jobs /\ r \in Runs /\ v \in Repos
      /\ run[r] \in {"queued", "in_progress"} /\ run' = run
      /\ at \in [Repos -> Stages] /\ found \in [Repos -> SUBSET Runs]
      /\ pending \in [Repos -> SUBSET Jobs]
  BY WorkSteps, ShapeAssumption DEF BaseInv, HistoryInv, QueueInv, Waiting, Shapes
<1>2. Covered(j)
  BY DEF CoverInv
<1>3. CASE Acquires(w)
  BY <1>1, <1>2, <1>3 DEF Acquires, Covered
<1>4. CASE FoundQueued(w)
  <2>1. v = w /\ run[r] = "queued" => r \in Content(<<"queued", w>>)
    BY <1>1, ContentIsWhole
  <2> QED BY <1>1, <1>2, <1>4, <2>1 DEF FoundQueued, Covered
<1>5. CASE FoundRunning(w)
  <2>1. v = w /\ run[r] = "in_progress" => r \in Content(<<"in_progress", w>>)
    BY <1>1, ContentIsWhole
  <2> QED BY <1>1, <1>2, <1>5, <2>1 DEF FoundRunning, Covered
<1>6. CASE ReadJobs(w)
  <2>1. r = Least(found[w]) => j \in Content(<<"jobs", Least(found[w])>>)
    BY <1>1, ContentIsWhole
  <2> QED BY <1>1, <1>2, <1>6, <2>1 DEF ReadJobs, Skips, Covered
<1>7. CASE LosesRun(w)
  <2>1. r # Least(found[w])
    BY <1>1, <1>7 DEF LosesRun
  <2> QED BY <1>1, <1>2, <1>7, <2>1 DEF LosesRun, Skips, Covered
<1>8. CASE GivesUp(w)
  BY <1>1, <1>2, <1>8 DEF GivesUp, Covered
<1>9. CASE Stays
  BY <1>1, <1>2, <1>9 DEF Stays, Covered
<1> QED BY <1>3, <1>4, <1>5, <1>6, <1>7, <1>8, <1>9, WorkSteps DEF BaseInv

LEMMA CoverStep ==
  ASSUME PagesSuffice
  PROVE  BaseInv /\ CoverInv /\ [Next]_vars => CoverInv'
<1> SUFFICES ASSUME BaseInv, CoverInv, [Next]_vars PROVE CoverInv'
  OBVIOUS
<1>1. ASSUME NEW w \in Repos, Work(w) PROVE CoverInv'
  BY <1>1, CoverWork
<1>2. \A j \in always : j \in Jobs /\ job[j] = "queued" /\ RunOf[j] \in Runs
                        /\ run[RunOf[j]] \in {"queued", "in_progress"}
  BY ShapeAssumption DEF BaseInv, HistoryInv, QueueInv, Waiting
<1>3. ASSUME NEW i \in Jobs, QueueJob(i) PROVE CoverInv'
  <2>1. always' = always /\ Stays
    BY <1>3, WorldSteps DEF World, QueueJob
  <2>2. \A j \in always : run'[RunOf[j]] = run[RunOf[j]]
    BY <1>2, <1>3 DEF QueueJob, BaseInv, Shapes
  <2> QED BY <2>1, <2>2 DEF CoverInv, Covered, Stays
<1>4. ASSUME NEW i \in Jobs, TakeJob(i) PROVE CoverInv'
  <2>1. always' \subseteq always /\ Stays
    BY <1>4, WorldSteps DEF World, TakeJob
  <2>2. \A j \in always : run[RunOf[j]] = "in_progress" => run'[RunOf[j]] = "in_progress"
    BY <1>2, <1>4 DEF TakeJob, BaseInv, Shapes
  <2> QED BY <2>1, <2>2 DEF CoverInv, Covered, Stays
<1>5. ASSUME NEW q \in Runs, EndRun(q) PROVE CoverInv'
  <2>1. always' = always /\ Stays
    BY <1>5, WorldSteps DEF World, EndRun
  <2>2. \A j \in always : run'[RunOf[j]] = run[RunOf[j]]
    BY <1>2, <1>5 DEF EndRun, BaseInv, Shapes
  <2> QED BY <2>1, <2>2 DEF CoverInv, Covered, Stays
<1>6. CASE BeginPoll
  <2>1. \A j \in always' : RepoOf[RunOf[j]] \in Repos
    BY <1>6, ShapeAssumption DEF BeginPoll, Waiting
  <2> QED BY <1>6, <2>1 DEF BeginPoll, CoverInv, Covered
<1>7. CASE EndPoll
  BY <1>7 DEF EndPoll, CoverInv
<1>8. CASE Sweep \/ UNCHANGED vars
  BY <1>8 DEF Sweep, vars, github, worker, CoverInv, Covered
<1> QED BY <1>1, <1>3, <1>4, <1>5, <1>6, <1>7, <1>8 DEF Next

(* A self-hosted job that waits during the whole poll is in its answer, unless *)
(* its own repository failed, however GitHub moves on between the requests, as     *)
(* long as everything fits on a page (repoPendingJobs, PendingJobs).                *)
THEOREM NoJobIsOverlooked ==
  ASSUME PagesSuffice
  PROVE  Spec => []NoJobOverlooked
<1>1. Init => CoverInv
  BY DEF Init, CoverInv
<1>2. BaseInv /\ CoverInv => NoJobOverlooked
  <2> SUFFICES ASSUME BaseInv, CoverInv, Answered, NEW j \in always,
                      RepoOf[RunOf[j]] \notin Failures
               PROVE  j \in Answer
    BY DEF NoJobOverlooked
  <2>1. RepoOf[RunOf[j]] \in Repos
    BY ShapeAssumption DEF BaseInv, HistoryInv, Waiting
  <2>2. at[RepoOf[RunOf[j]]] = "done"
    BY <2>1 DEF Answered, Over, Failures
  <2>3. j \in pending[RepoOf[RunOf[j]]]
    BY <2>2 DEF CoverInv, Covered
  <2> QED BY <2>1, <2>3 DEF Answer, Failures
<1> QED BY <1>1, <1>2, CoverStep, BaseHolds, PTL DEF Spec

-----------------------------------------------------------------------------
(* Waiting *)

(* Induction up to N, over the set of the numbers that have the property. *)
LEMMA Induction ==
  ASSUME NEW N \in Nat, NEW T, 0 \in T,
         \A n \in 0 .. N : n \in T /\ n < N => n + 1 \in T
  PROVE  0 .. N \subseteq T
<1> SUFFICES ASSUME (0 .. N) \ T # {} PROVE FALSE
  OBVIOUS
<1> DEFINE U == (0 .. N) \ T
<1>1. U \subseteq Nat /\ U # {}
  OBVIOUS
<1>2. PICK m \in U : \A n \in U : m <= n
  <2> HIDE DEF U
  <2>1. PICK m \in U : \A n \in U : ~(<<n, m>> \in Below)
    BY <1>1, BelowIsWellFounded, WFMin, Zenon
  <2>2. \A a, b \in Nat : a < b => <<a, b>> \in Below
    BY DEF Below
  <2>3. \A n \in U : m <= n
    <3>1. TAKE n \in U
    <3>2. n \in Nat /\ m \in Nat
      BY <1>1
    <3>3. ~(n < m)
      BY <2>1, <2>2, <3>2, Zenon
    <3> QED BY <3>2, <3>3
  <2> QED BY <2>3
<1>3. m # 0 /\ m - 1 \in 0 .. N /\ m - 1 < N
  BY <1>2
<1>4. (m - 1) + 1 \in T
  BY <1>2, <1>3
<1> QED BY <1>2, <1>4

(* The powers of two count the subsets of an interval. *)
LEMMA BackoffType ==
  ASSUME NEW n \in Nat
  PROVE  Backoff(n) \in Nat
<1>1. IsFiniteSet(1 .. n) /\ Cardinality(1 .. n) = n
  BY FS_Interval
<1>2. 2 ^ n = Cardinality(SUBSET (1 .. n)) /\ IsFiniteSet(SUBSET (1 .. n))
  BY <1>1, FS_SUBSET
<1>3. 2 ^ n \in Nat
  BY <1>2, FS_CardinalityType
<1> QED BY <1>3, NumbersAssumption DEF Backoff, CapSleep

(* The sums of the backoffs exist: each is extended by the next. *)
LEMMA BackoffsExist ==
  \E f \in [0 .. MaxRetries -> Nat] :
    f[0] = 0 /\ \A n \in 1 .. MaxRetries : f[n] = f[n - 1] + Backoff(n)
<1> DEFINE Fits(k, f) == f[0] = 0 /\ \A n \in 1 .. k : f[n] = f[n - 1] + Backoff(n)
           T == {k \in 0 .. MaxRetries : \E f \in [0 .. MaxRetries -> Nat] : Fits(k, f)}
<1>0. MaxRetries \in Nat
  BY NumbersAssumption
<1>1. 0 \in T
  <2>1. [n \in 0 .. MaxRetries |-> 0] \in [0 .. MaxRetries -> Nat]
    OBVIOUS
  <2>2. Fits(0, [n \in 0 .. MaxRetries |-> 0])
    BY <1>0
  <2> HIDE DEF Fits
  <2> QED BY <1>0, <2>1, <2>2
<1>2. ASSUME NEW k \in 0 .. MaxRetries, k \in T, k < MaxRetries
      PROVE  k + 1 \in T
  <2>1. PICK f \in [0 .. MaxRetries -> Nat] : Fits(k, f)
    BY <1>2
  <2> DEFINE g == [f EXCEPT ![k + 1] = f[k] + Backoff(k + 1)]
  <2>2. k + 1 \in 1 .. MaxRetries /\ k + 1 \in 0 .. MaxRetries /\ f[k] + Backoff(k + 1) \in Nat
    <3>1. k + 1 \in Nat /\ k + 1 \in 1 .. MaxRetries /\ k + 1 \in 0 .. MaxRetries
      BY <1>0, <1>2
    <3>2. Backoff(k + 1) \in Nat /\ f[k] \in Nat
      BY <3>1, BackoffType
    <3> QED BY <3>1, <3>2
  <2>3. g \in [0 .. MaxRetries -> Nat]
    BY <2>2
  <2>4. \A n \in 0 .. k : g[n] = f[n]
    BY <1>0, <1>2
  <2>5. g[k + 1] = f[k] + Backoff(k + 1)
    BY <2>2
  <2>6. ASSUME NEW n \in 1 .. k + 1
        PROVE  g[n] = g[n - 1] + Backoff(n)
    <3>1. CASE n = k + 1
      <4>1. n - 1 = k /\ k \in 0 .. k
        BY <3>1, <1>2
      <4> QED BY <2>4, <2>5, <3>1, <4>1
    <3>2. CASE n # k + 1
      <4>1. n \in 1 .. k /\ n \in 0 .. k /\ n - 1 \in 0 .. k
        BY <3>2, <1>2
      <4>2. f[n] = f[n - 1] + Backoff(n)
        BY <2>1, <4>1
      <4> HIDE DEF g
      <4> QED BY <2>4, <4>1, <4>2
    <3> QED BY <3>1, <3>2
  <2>7. g[0] = 0
    BY <2>1, <2>4, <1>2
  <2>8. Fits(k + 1, g)
    BY <2>6, <2>7
  <2> HIDE DEF Fits, g
  <2> QED BY <2>2, <2>3, <2>8
<1>3. MaxRetries \in T
  <2> HIDE DEF T
  <2>1. 0 .. MaxRetries \subseteq T
    BY <1>0, <1>1, <1>2, Induction
  <2> QED BY <1>0, <2>1
<1> QED BY <1>3

LEMMA BackoffsAre ==
  /\ Backoffs \in [0 .. MaxRetries -> Nat]
  /\ Backoffs[0] = 0
  /\ \A n \in 1 .. MaxRetries : Backoffs[n] = Backoffs[n - 1] + Backoff(n)
<1> DEFINE D(f) == [n \in 0 .. MaxRetries |-> IF n = 0 THEN 0 ELSE f[n - 1] + Backoff(n)]
<1>0. MaxRetries \in Nat
  BY NumbersAssumption
<1>1. PICK f \in [0 .. MaxRetries -> Nat] :
        f[0] = 0 /\ \A n \in 1 .. MaxRetries : f[n] = f[n - 1] + Backoff(n)
  BY BackoffsExist
<1>2. f = D(f)
  BY <1>0, <1>1
<1>3. Backoffs = CHOOSE g : g = D(g)
  BY DEF Backoffs
<1>4. Backoffs = D(Backoffs)
  <2> HIDE DEF D
  <2> QED BY <1>2, <1>3
<1>5. /\ Backoffs[0] = 0 /\ DOMAIN Backoffs = 0 .. MaxRetries
      /\ Backoffs = [n \in 0 .. MaxRetries |-> Backoffs[n]]
  BY <1>0, <1>4
<1>6. \A n \in 1 .. MaxRetries : Backoffs[n] = Backoffs[n - 1] + Backoff(n)
  BY <1>0, <1>4
<1>7. 0 .. MaxRetries \subseteq {n \in 0 .. MaxRetries : Backoffs[n] \in Nat}
  <2> DEFINE T == {n \in 0 .. MaxRetries : Backoffs[n] \in Nat}
  <2>1. 0 \in T
    BY <1>0, <1>5
  <2>2. ASSUME NEW n \in 0 .. MaxRetries, n \in T, n < MaxRetries
        PROVE  n + 1 \in T
    <3>1. n + 1 \in 1 .. MaxRetries /\ n + 1 \in 0 .. MaxRetries /\ (n + 1) - 1 = n
      BY <1>0, <2>2
    <3>2. Backoff(n + 1) \in Nat
      BY <3>1, BackoffType
    <3> QED BY <1>6, <2>2, <3>1, <3>2
  <2> HIDE DEF T
  <2>3. 0 .. MaxRetries \subseteq T
    BY <1>0, <2>1, <2>2, Induction
  <2> QED BY <2>3 DEF T
<1> QED BY <1>5, <1>6, <1>7

(* They only grow. *)
LEMMA BackoffsGrow ==
  ASSUME NEW n \in 0 .. MaxRetries
  PROVE  Backoffs[n] <= Backoffs[MaxRetries]
<1>0. MaxRetries \in Nat
  BY NumbersAssumption
<1> DEFINE T == {k \in 0 .. MaxRetries :
                   \A m \in 0 .. MaxRetries : m <= k => Backoffs[m] <= Backoffs[k]}
<1>1. 0 \in T
  BY <1>0, BackoffsAre
<1>2. ASSUME NEW k \in 0 .. MaxRetries, k \in T, k < MaxRetries
      PROVE  k + 1 \in T
  <2>1. k + 1 \in 1 .. MaxRetries /\ k + 1 \in 0 .. MaxRetries /\ (k + 1) - 1 = k
    BY <1>0, <1>2
  <2>2. Backoff(k + 1) \in Nat /\ Backoffs[k] \in Nat
    <3>1. k + 1 \in Nat
      BY <1>0
    <3> QED BY <3>1, BackoffType, BackoffsAre
  <2>3. Backoffs[k + 1] = Backoffs[k] + Backoff(k + 1)
    BY <2>1, BackoffsAre
  <2>4. ASSUME NEW m \in 0 .. MaxRetries, m <= k + 1
        PROVE  Backoffs[m] <= Backoffs[k + 1]
    <3>0. Backoffs[m] \in Nat
      BY BackoffsAre
    <3>1. CASE m = k + 1
      BY <3>0, <3>1
    <3>2. CASE m # k + 1
      <4>1. m <= k
        BY <2>4, <3>2
      <4>2. Backoffs[m] <= Backoffs[k]
        BY <1>2, <4>1
      <4> QED BY <2>2, <2>3, <3>0, <4>2
    <3> QED BY <3>1, <3>2
  <2> QED BY <2>1, <2>4
<1>3. MaxRetries \in T
  <2> HIDE DEF T
  <2>1. 0 .. MaxRetries \subseteq T
    BY <1>0, <1>1, <1>2, Induction
  <2> QED BY <1>0, <2>1
<1> QED BY <1>0, <1>3

(* What a request has waited is accounted for by the attempts it has failed:   *)
(* for each, one wait that GitHub asked for, and one that was its own.           *)
TimeInv ==
  /\ attempt \in [Repos -> 0 .. MaxRetries] /\ waited \in [Repos -> Nat]
  /\ \A w \in Repos : waited[w] <= attempt[w] * MaxSleep + Backoffs[attempt[w]]

LEMMA TimeInit == Init => TimeInv
<1> SUFFICES ASSUME Init PROVE TimeInv
  OBVIOUS
<1>1. 0 \in 0 .. MaxRetries /\ 0 * MaxSleep = 0
  BY NumbersAssumption
<1>2. Backoffs[0] = 0
  BY BackoffsAre
<1> QED BY <1>1, <1>2 DEF Init, TimeInv

(* One attempt more, or a fresh start. *)
LEMMA RetryTime ==
  ASSUME TimeInv, NEW w \in Repos, NEW sleep \in 0 .. MaxSleep, Retry(w, sleep)
  PROVE  TimeInv'
<1>0. MaxRetries \in Nat /\ MaxSleep \in Nat
  BY NumbersAssumption
<1>1. CASE Last(w)
  <2>1. /\ attempt' = [attempt EXCEPT ![w] = 0] /\ waited' = [waited EXCEPT ![w] = 0]
    BY <1>1 DEF Retry, GiveUp
  <2>2. 0 * MaxSleep + Backoffs[0] = 0
    BY <1>0, BackoffsAre
  <2> QED BY <1>0, <2>1, <2>2 DEF TimeInv
<1>2. CASE ~Last(w)
  <2> DEFINE a == attempt[w]
  <2>1. a \in 0 .. MaxRetries /\ a < MaxRetries
    BY <1>0, <1>2 DEF Last, TimeInv
  <2>2. a + 1 \in 1 .. MaxRetries /\ a + 1 \in 0 .. MaxRetries /\ (a + 1) - 1 = a /\ a + 1 \in Nat
    BY <1>0, <2>1
  <2>3. /\ attempt' = [attempt EXCEPT ![w] = a + 1]
        /\ waited' = [waited EXCEPT ![w] = waited[w] + sleep + Backoff(a + 1)]
    BY <1>2 DEF Retry
  <2> HIDE DEF a
  <2>4. Backoffs[a + 1] = Backoffs[a] + Backoff(a + 1)
    BY <2>2, BackoffsAre
  <2>5. Backoff(a + 1) \in Nat /\ Backoffs[a] \in Nat
    BY <2>1, <2>2, BackoffType, BackoffsAre
  <2>6. (a + 1) * MaxSleep = a * MaxSleep + MaxSleep /\ a * MaxSleep \in Nat
    BY <1>0, <2>1
  <2>7. waited[w] \in Nat /\ waited[w] <= a * MaxSleep + Backoffs[a]
    BY DEF TimeInv, a
  <2>8. waited[w] + sleep + Backoff(a + 1) <= (a + 1) * MaxSleep + Backoffs[a + 1]
    BY <1>0, <2>4, <2>5, <2>6, <2>7
  <2>9. attempt' \in [Repos -> 0 .. MaxRetries] /\ waited' \in [Repos -> Nat]
    BY <1>0, <2>2, <2>3, <2>5, <2>7 DEF TimeInv
  <2> QED BY <2>3, <2>8, <2>9 DEF TimeInv
<1> QED BY <1>1, <1>2

LEMMA TimeStep == TimeInv /\ [Next]_vars => TimeInv'
<1> SUFFICES ASSUME TimeInv, [Next]_vars PROVE TimeInv'
  OBVIOUS
<1>0. MaxRetries \in Nat /\ MaxSleep \in Nat /\ Asks \subseteq Nat
  BY NumbersAssumption
<1>1. CASE UNCHANGED <<attempt, waited>>
  BY <1>1 DEF TimeInv
<1>2. ASSUME NEW w \in Repos,
             attempt' = [attempt EXCEPT ![w] = 0], waited' = [waited EXCEPT ![w] = 0]
      PROVE  TimeInv'
  <2>1. 0 * MaxSleep + Backoffs[0] = 0
    BY <1>0, BackoffsAre
  <2> QED BY <1>0, <1>2, <2>1 DEF TimeInv
<1>3. ASSUME NEW w \in Repos, Work(w)
      PROVE  TimeInv'
  <2>1. CASE Fetched(w) \/ NotModified(w) \/ Vanished(w) \/ Refused(w)
    BY <1>2, <2>1 DEF Fetched, NotModified, Read, Vanished, GoOn, Refused, GiveUp
  <2>2. CASE AttemptFails(w)
    BY <1>0, <2>2, RetryTime DEF AttemptFails
  <2>3. CASE Limited(w)
    <3>1. \A ask \in Asks : CapSleep(ask) \in 0 .. MaxSleep
      BY <1>0 DEF CapSleep
    <3> QED BY <2>3, <3>1, RetryTime DEF Limited
  <2>4. CASE AcquireSlot(w)
    BY <1>1, <2>4 DEF AcquireSlot
  <2> QED BY <1>3, <2>1, <2>2, <2>3, <2>4 DEF Work
<1> QED
  BY <1>1, <1>3
  DEF Next, QueueJob, TakeJob, EndRun, BeginPoll, EndPoll, Sweep, vars, worker

LEMMA TimeHolds == Spec => []TimeInv
  BY TimeInit, TimeStep, PTL DEF Spec

(* A request waits for no longer than MaxRetries times the longest wait, beside *)
(* its own backing off, however often and for however long GitHub asks it to,     *)
(* for any number of retries (getJSONLink, retryAfter, capSleep).                  *)
THEOREM RequestsDoNotWaitForever == Spec => []WaitsAreBounded
<1>1. TimeInv => WaitsAreBounded
  <2> SUFFICES ASSUME TimeInv, NEW w \in Repos
               PROVE  waited[w] <= MaxRetries * MaxSleep + Backoffs[MaxRetries]
    BY DEF WaitsAreBounded
  <2>1. /\ MaxRetries \in Nat /\ MaxSleep \in Nat
        /\ attempt[w] \in 0 .. MaxRetries /\ waited[w] \in Nat
    BY NumbersAssumption DEF TimeInv
  <2>2. MaxRetries * MaxSleep = attempt[w] * MaxSleep + (MaxRetries - attempt[w]) * MaxSleep
    BY <2>1
  <2>3. attempt[w] * MaxSleep \in Nat /\ (MaxRetries - attempt[w]) * MaxSleep \in Nat
    <3>1. \A i, k \in Nat : i * k \in Nat
      OBVIOUS
    <3> QED BY <2>1, <3>1
  <2>4. /\ Backoffs[attempt[w]] <= Backoffs[MaxRetries]
        /\ Backoffs[attempt[w]] \in Nat /\ Backoffs[MaxRetries] \in Nat
    BY <2>1, BackoffsAre, BackoffsGrow
  <2>5. waited[w] <= attempt[w] * MaxSleep + Backoffs[attempt[w]]
    BY DEF TimeInv
  <2> QED BY <2>1, <2>2, <2>3, <2>4, <2>5
<1> QED BY <1>1, TimeHolds, PTL

-----------------------------------------------------------------------------
(* Type correctness *)

(* What the invariants above leave of it. *)
RestInv ==
  /\ cache \in [Keys -> [tag : SUBSET (Runs \cup Jobs \cup {0}), body : SUBSET (Runs \cup Jobs)]]
  /\ polling => \A w \in Repos : at[w] # "idle"
  /\ always \subseteq ever /\ ever \subseteq Jobs

LEMMA RestInit == Init => RestInv
  BY DEF Init, RestInv, NoEntry

LEMMA RestStep == BaseInv /\ RestInv /\ [Next]_vars => RestInv'
<1> SUFFICES ASSUME BaseInv, RestInv, [Next]_vars PROVE RestInv'
  OBVIOUS
<1> USE DEF BaseInv, RestInv
<1>1. ASSUME NEW w \in Repos, Work(w) PROVE RestInv'
  <2>1. polling' = polling /\ always' = always /\ ever' = ever
    BY <1>1, WorkSteps
  <2>2. polling => \A v \in Repos : at'[v] # "idle"
    BY <1>1, WorkSteps DEF Shapes, Acquires, FoundQueued, FoundRunning, ReadJobs, LosesRun,
       Skips, GivesUp, Stays
  <2>3. CASE Fetched(w)
    <3>1. cache' = [cache EXCEPT ![Key(w)] = Entry(Key(w))] /\ Key(w) \in Keys
      BY <2>3, KeyIsAKey DEF Fetched
    <3>2. Content(Key(w)) \subseteq Runs \cup Jobs
      <4>1. \/ \E v \in Repos : Key(w) = <<"queued", v>> \/ Key(w) = <<"in_progress", v>>
            \/ \E r \in Runs : Key(w) = <<"jobs", r>>
        BY <3>1 DEF Keys
      <4> QED BY <4>1, ContentTypes DEF Waiting
    <3>3. Entry(Key(w)) \in [tag : SUBSET (Runs \cup Jobs \cup {0}), body : SUBSET (Runs \cup Jobs)]
      BY <3>2 DEF Entry
    <3> HIDE DEF Entry
    <3> QED BY <2>1, <2>2, <3>1, <3>3
  <2>4. CASE ~Fetched(w)
    <3>1. cache' = cache
      BY <1>1, <2>4 DEF Work, AcquireSlot, NotModified, Vanished, AttemptFails, Limited, Refused
    <3> QED BY <2>1, <2>2, <3>1
  <2> QED BY <2>3, <2>4
<1>2. CASE World
  <2>1. always' \subseteq ever' /\ ever' \subseteq Jobs
    BY <1>2 DEF World, QueueJob, TakeJob, EndRun
  <2> QED BY <1>2, <2>1, WorldSteps DEF Stays
<1>3. CASE BeginPoll
  <2>1. always' = Waiting /\ ever' = Waiting /\ Waiting \subseteq Jobs
    BY <1>3 DEF BeginPoll, Waiting
  <2> QED BY <1>3, <2>1 DEF BeginPoll
<1>4. CASE EndPoll
  BY <1>4 DEF EndPoll
<1>5. CASE Sweep
  BY <1>5 DEF Sweep, github, worker, NoEntry
<1>6. CASE UNCHANGED vars
  BY <1>6 DEF vars, github, worker
<1> QED BY <1>1, <1>2, <1>3, <1>4, <1>5, <1>6 DEF Next, World

(* Every reachable state is well typed; in particular a worker is at work only  *)
(* in a poll, and what has waited throughout a poll has waited at some moment.    *)
THEOREM TypeCorrect == Spec => []TypeOK
<1>1. Spec => []RestInv
  BY RestInit, RestStep, BaseHolds, PTL DEF Spec
<1>2. BaseInv /\ TimeInv /\ RestInv => TypeOK
  BY Constants
     DEF BaseInv, Shapes, RunState, Stages, WorkerInv, TimeInv, RestInv, TypeOK, Over
<1> QED BY <1>1, <1>2, BaseHolds, TimeHolds, PTL
=============================================================================
