------------------------------- MODULE JobPoll -------------------------------
(* PendingJobs of internal/ghapi: one worker per repository asks GitHub for   *)
(* the runs that are queued, for those in progress, and for the jobs of each,  *)
(* while GitHub moves on.  Every request is retried, waits when GitHub says    *)
(* so, and is conditional on what the cache holds.                             *)
EXTENDS Naturals, FiniteSets, Sequences

CONSTANTS
  Repos,        \* the repositories watched
  Runs, Jobs,   \* ids of workflow runs and of their jobs
  RepoOf,       \* the repository of a run
  RunOf,        \* the run of a job
  Labels,       \* the labels a job asks for
  Images,       \* labels that name an image hosted by GitHub
  Concurrency,  \* repositories polled at a time
  PageSize,     \* entries GitHub puts on a page
  MaxRetries,   \* attempts after the first
  MaxSleep,     \* longest wait, in units of 250 ms, as all waits
  Asks          \* how long GitHub may ask a client to wait

ASSUME IdsAssumption == Runs \cup Jobs \subseteq Nat \ {0}
ASSUME ShapeAssumption ==
  /\ RepoOf \in [Runs -> Repos] /\ RunOf \in [Jobs -> Runs]
  /\ Images \subseteq UNION {Labels[j] : j \in Jobs}
ASSUME NumbersAssumption ==
  /\ {Concurrency, PageSize} \subseteq Nat \ {0}
  /\ {MaxRetries, MaxSleep} \subseteq Nat /\ Asks \subseteq Nat

VARIABLES
  run, job,   \* GitHub: the status of each run and job
  cache,      \* etagCache: what was last fetched per request, and its tag
  polling,    \* PendingJobs is under way
  at,         \* per repository: the request its worker makes, or its stage
  found,      \* the runs the worker found and has not read
  pending,    \* the jobs it found waiting
  attempt,    \* attempts its request has failed
  waited,     \* how long its request has waited
  always,     \* history: self-hosted jobs queued at every moment of this poll
  ever        \* history: those queued at some moment of this poll

github == <<run, job, always, ever>>
worker == <<at, found, pending, attempt, waited>>
vars == <<github, worker, cache, polling>>

Keys == ({"queued", "in_progress"} \X Repos) \cup ({"jobs"} \X Runs)
Over == {"done", "failed"}
NoEntry == [tag |-> Runs \cup Jobs \cup {0}, body |-> {}]
\* A job that names only images hosted by GitHub is none of ours.
SelfHosted(j) == Labels[j] # {} /\ ~(Labels[j] \subseteq Images)

Waiting == {j \in Jobs : job[j] = "queued" /\ SelfHosted(j)}

Init ==
  /\ run = [r \in Runs |-> "none"] /\ job = [j \in Jobs |-> "none"]
  /\ always = {} /\ ever = {}
  /\ cache = [k \in Keys |-> NoEntry]
  /\ polling = FALSE
  /\ at = [w \in Repos |-> "idle"]
  /\ found = [w \in Repos |-> {}] /\ pending = [w \in Repos |-> {}]
  /\ attempt = [w \in Repos |-> 0] /\ waited = [w \in Repos |-> 0]

-----------------------------------------------------------------------------
(* GitHub *)

\* A job enters the queue: with its run, or later (matrix legs, `needs:`).
QueueJob(j) ==
  /\ job[j] = "none" /\ run[RunOf[j]] \in {"none", "queued", "in_progress"}
  /\ job' = [job EXCEPT ![j] = "queued"]
  /\ run' = [run EXCEPT ![RunOf[j]] = IF @ = "none" THEN "queued" ELSE @]
  /\ ever' = IF polling /\ SelfHosted(j) THEN ever \cup {j} ELSE ever
  /\ UNCHANGED <<always, worker, cache, polling>>

\* A queued job starts, here or elsewhere, or is cancelled.
TakeJob(j) ==
  /\ job[j] = "queued"
  /\ job' = [job EXCEPT ![j] = "taken"]
  /\ run' = [run EXCEPT ![RunOf[j]] = "in_progress"]
  /\ always' = always \ {j}
  /\ UNCHANGED <<ever, worker, cache, polling>>

\* A run without queued jobs ends; its record may then be deleted any time.
EndRun(r) ==
  /\ run[r] = "in_progress" /\ run' = [run EXCEPT ![r] = "completed"]
  /\ \A j \in Jobs : RunOf[j] = r => job[j] # "queued"
  /\ UNCHANGED <<job, always, ever, worker, cache, polling>>

-----------------------------------------------------------------------------
(* What a request is answered with: the first page only.                       *)

\* Runs are listed newest first, jobs in the order of their ids.
FirstRuns(S) == {r \in S : Cardinality({s \in S : s > r}) < PageSize}
FirstJobs(S) == {j \in S : Cardinality({i \in S : i < j}) < PageSize}

\* The answer to request k, the jobs reduced to those that a worker keeps.
Content(k) ==
  IF k[1] = "jobs"
  THEN FirstJobs({j \in Jobs : RunOf[j] = k[2] /\ job[j] # "none"}) \cap Waiting
  ELSE FirstRuns({r \in Runs : RepoOf[r] = k[2] /\ run[r] = k[1]})

-----------------------------------------------------------------------------
(* A worker *)

\* A job may start, and take its run from queued to in progress, in between.
MStatusesSwapped == <<"in_progress", "queued">>
Statuses == <<"queued", "in_progress">>

\* The slots of the semaphore that are taken; every worker gives its own back.
MSlotsLeak == {w \in Repos : at[w] \in {"queued", "in_progress", "jobs", "failed"}}
Slots == {w \in Repos : at[w] \in {"queued", "in_progress", "jobs"}}

BeginPoll ==
  /\ ~polling /\ polling' = TRUE
  /\ always' = Waiting /\ ever' = Waiting
  /\ at' = [w \in Repos |-> "waits"]
  /\ UNCHANGED <<run, job, cache, found, pending, attempt, waited>>

AcquireSlot(w) ==
  /\ at[w] = "waits" /\ Cardinality(Slots) < Concurrency
  /\ at' = [at EXCEPT ![w] = Statuses[1]]
  /\ UNCHANGED <<github, cache, polling, found, pending, attempt, waited>>

Asking == {Statuses[1], Statuses[2], "jobs"}
Least(S) == CHOOSE r \in S : \A s \in S : r <= s

\* The request that a worker makes; runs are read in the order of their ids.
Key(w) == IF at[w] = "jobs" THEN <<"jobs", Least(found[w])>> ELSE <<at[w], w>>

\* On to the next request, its attempts starting anew: in progress after
\* queued, then the jobs of each run found.
GoOn(w, runs) ==
  /\ attempt' = [attempt EXCEPT ![w] = 0] /\ waited' = [waited EXCEPT ![w] = 0]
  /\ found' = [found EXCEPT ![w] = runs]
  /\ at' = [at EXCEPT ![w] = IF @ = Statuses[1] THEN Statuses[2]
                             ELSE IF runs = {} THEN "done" ELSE "jobs"]

\* The request of w is answered with this body.
Read(w, body) ==
  \/ /\ at[w] = "jobs"
     /\ pending' = [pending EXCEPT ![w] = @ \cup body]
     /\ GoOn(w, found[w] \ {Least(found[w])})
  \/ at[w] # "jobs" /\ pending' = pending /\ GoOn(w, found[w] \cup body)

\* store: the tag and the body it came with.
MEntryOldBody(k) == [tag |-> Content(k), body |-> cache[k].body \cup Content(k)]
Entry(k) == [tag |-> Content(k), body |-> Content(k)]

\* A 200; the tag the cache sent, if any, no longer matches.
Fetched(w) ==
  /\ at[w] \in Asking /\ cache[Key(w)].tag # Content(Key(w))
  /\ cache' = [cache EXCEPT ![Key(w)] = Entry(Key(w))]
  /\ Read(w, Content(Key(w)))
  /\ UNCHANGED <<github, polling>>

\* A 304; the body is the cache's.
NotModified(w) ==
  /\ at[w] \in Asking /\ cache[Key(w)].tag = Content(Key(w))
  /\ Read(w, cache[Key(w)].body)
  /\ UNCHANGED <<github, cache, polling>>

Deletable(k) == k[1] = "jobs" /\ run[k[2]] = "completed"

\* A 404 for a run that vanished after it was listed.
Vanished(w) ==
  /\ at[w] \in Asking /\ Deletable(Key(w))
  /\ pending' = pending /\ GoOn(w, found[w] \ {Least(found[w])})
  /\ UNCHANGED <<github, cache, polling>>

MCapSleepNot(d) == d
CapSleep(d) == IF d > MaxSleep THEN MaxSleep ELSE d
Backoff(n) == CapSleep(2 ^ n)

GiveUp(w) ==
  /\ at' = [at EXCEPT ![w] = "failed"]
  /\ found' = [found EXCEPT ![w] = {}] /\ pending' = [pending EXCEPT ![w] = {}]
  /\ attempt' = [attempt EXCEPT ![w] = 0] /\ waited' = [waited EXCEPT ![w] = 0]

MLastOneLater(w) == attempt[w] > MaxRetries
Last(w) == attempt[w] >= MaxRetries

\* The attempt failed: wait as asked, back off and try again, unless it was the last.
Retry(w, sleep) ==
  \/ /\ ~Last(w)
     /\ attempt' = [attempt EXCEPT ![w] = @ + 1]
     /\ waited' = [waited EXCEPT ![w] = @ + sleep + Backoff(attempt[w] + 1)]
     /\ UNCHANGED <<at, found, pending>>
  \/ Last(w) /\ GiveUp(w)

\* No answer, an answer cut short, or a 5xx.
AttemptFails(w) ==
  at[w] \in Asking /\ Retry(w, 0) /\ UNCHANGED <<github, cache, polling>>

\* A rate limit, with Retry-After or the time of its reset.
Limited(w) ==
  /\ at[w] \in Asking /\ \E ask \in Asks : Retry(w, CapSleep(ask))
  /\ UNCHANGED <<github, cache, polling>>

\* Any other 4xx, or no token: the repository is given up at once.
Refused(w) ==
  at[w] \in Asking /\ GiveUp(w) /\ UNCHANGED <<github, cache, polling>>

\* What PendingJobs returns: a partial answer unless every repository failed.
Failures == {w \in Repos : at[w] = "failed"}
Answer == IF Failures = Repos THEN {} ELSE UNION {pending[w] : w \in Repos \ Failures}

Answered == polling /\ \A w \in Repos : at[w] \in Over

EndPoll ==
  /\ Answered /\ polling' = FALSE
  /\ always' = {} /\ ever' = {}
  /\ at' = [w \in Repos |-> "idle"] /\ pending' = [w \in Repos |-> {}]
  /\ UNCHANGED <<run, job, cache, found, attempt, waited>>

\* Housekeeping, between passes: no poll got through for an hour, and all
\* entries go.  (Those of ended runs go sooner; nobody asks for them again.)
Sweep ==
  /\ ~polling /\ cache' = [k \in Keys |-> NoEntry]
  /\ UNCHANGED <<github, worker, polling>>

Work(w) == AcquireSlot(w) \/ Fetched(w) \/ NotModified(w) \/ Vanished(w)
           \/ AttemptFails(w) \/ Limited(w) \/ Refused(w)

Next ==
  \/ \E j \in Jobs : QueueJob(j) \/ TakeJob(j)
  \/ \E r \in Runs : EndRun(r)
  \/ BeginPoll \/ EndPoll
  \/ \E w \in Repos : Work(w)
  \/ Sweep

Spec == Init /\ [][Next]_vars

\* Workers are goroutines whose requests time out; nothing else is promised.
FairSpec == Spec /\ (\A w \in Repos : WF_vars(Work(w))) /\ WF_vars(EndPoll)

-----------------------------------------------------------------------------

TypeOK ==
  /\ run \in [Runs -> {"none", "queued", "in_progress", "completed"}]
  /\ job \in [Jobs -> {"none", "queued", "taken"}]
  /\ cache \in [Keys -> [tag : SUBSET (Runs \cup Jobs \cup {0}), body : SUBSET (Runs \cup Jobs)]]
  /\ polling \in BOOLEAN
  /\ at \in [Repos -> Asking \cup Over \cup {"idle", "waits"}]
  /\ \A w \in Repos : polling <=> at[w] # "idle"
  /\ found \in [Repos -> SUBSET Runs] /\ pending \in [Repos -> SUBSET Jobs]
  /\ attempt \in [Repos -> 0 .. MaxRetries] /\ waited \in [Repos -> Nat]
  /\ always \subseteq ever /\ ever \subseteq Jobs

(* A self-hosted job that waited for a runner during the whole poll is in its *)
(* answer, whatever GitHub did meanwhile and whichever other repositories       *)
(* failed, unless its own did (PendingJobs, repoPendingJobs).                    *)
NoJobOverlooked ==
  Answered => \A j \in always : RepoOf[RunOf[j]] \notin Failures => j \in Answer

(* What is reported as waiting did wait at some moment of this poll, also when *)
(* the answer comes from the cache; hosted jobs never count.                      *)
NoGhostJobs == Answered => Answer \subseteq ever

(* However often GitHub asks for more time, a request waits for no longer than *)
(* MaxRetries times the longest wait, beside its own backing off: one bad        *)
(* repository does not hold the pass for as long as GitHub would like.           *)
Backoffs[n \in 0 .. MaxRetries] == IF n = 0 THEN 0 ELSE Backoffs[n - 1] + Backoff(n)
WaitsAreBounded ==
  \A w \in Repos : waited[w] <= MaxRetries * MaxSleep + Backoffs[MaxRetries]

(* Every poll returns, whatever is answered: no attempt is free, and no worker *)
(* keeps its slot from another.                                                  *)
PollEnds == polling ~> ~polling
=============================================================================
