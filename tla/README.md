# arc, specified

`arc` keeps pools of ephemeral, self-hosted GitHub Actions runners on one host:
it polls GitHub for queued jobs, launches a runner per waiting job, and removes
what is finished, surplus or lost.  This directory holds its specification:
TLA+ modules translated from the Go source, the configurations with which TLC
checks them, and proofs that TLAPS checks.

    tlc -workers 2 -config MCReconcile.cfg MCReconcile.tla
    tlapm ReconcileProofs.tla

## The system

| Component | Keeps | Does | Talks to |
|---|---|---|---|
| Reconcile loop (`internal/orchestrator/orchestrator.go`) | idle clocks, drained pools, repository cache, last snapshot and failure count; during a pass the runner listing and the live instances of each pool | `reconcileOnce`: list runners, list and reap instances, poll jobs, assign, plan, launch or cull; `housekeep` | GitHub client, providers, overrides; read by the control API |
| Scaling decisions (`scale.go`, `limitsFor`, `discountForeignIdle`) | nothing | labels → candidate pools, queued jobs → demand, state → create/cull | called by the loop |
| Providers (`provider/dockerprov`, `provider/processprov`) | containers with labels; instance directories with a state file and a process | Create, List, Destroy, Prune, Preflight | the docker engine; processes and the file system |
| GitHub client (`ghapi`) | token, ETag cache, rate-limit state, runner-group cache | ListRunners, PendingJobs, GenerateJITConfig, RemoveRunner, EnsureWebhook; retries and backoff | GitHub |
| Live limits (`state/overrides.go`, `api/server.go`) | overrides in memory and in a file | scale, reset, drain, resume, health, status | the operator, the loop |
| Webhook pipeline (`webhook`, `ghapi/hooks.go`) | tunnel process, secret, registered hooks | wake the loop when a job is queued | GitHub, `Poke` |
| Configuration and start-up (`config`, `opconfig`, `cmd/arc/run.go`) | configuration file, credential cache | load, validate, probe, refresh | the vault, GitHub |
| Self update (`cmd/arc/update.go`), template installation (`bootstrap.go`) | files staged beside the final ones | download, verify, swap | the file system |
| Commands (`cmd/arc`) | nothing | wizard, doctor, status, service files | the control API |

The loop is a single goroutine.  What runs beside it: up to four launches
(which the pass waits for), HTTP handlers of the control API, the webhook
receiver, and everything outside the process: runners that connect, take jobs
and exit on their own, GitHub's view of them, the operator, and a restart of the
daemon at any point.

What is hard, and what has to be right about it:

- A pass acts on a runner listing made at its start.  By the time it destroys or
  deregisters a runner, that runner may have taken a job: **a busy runner is
  not destroyed, and a registration that has or is about to have an instance is
  not removed as an orphan**.
- Launches are concurrent and any call may fail: **a pool stays within its
  maximum**, and a runner is **registered before it has an instance and
  deregistered before it loses it**.
- The daemon may stop between any two calls: the next one must **find and remove
  what was left**, and still get **every queued job a runner**.
- Jobs fit several pools: a job must **not be charged to a full or a scarce pool
  without need**, nor launch a runner when another host's idle one will take it.
- Requests that change limits interleave, and the daemon may stop while one
  saves: **limits in force never cross**, the file **can be read after a save that
  had it to itself** (requests that save at one time may tear it), and it holds **a
  whole copy** of the limits, never a mixture of two.
- Runner processes outlive the daemon, exit on their own, and leave process ids
  that other programs get: the process provider must **signal nobody but its own
  runner**, report as gone **only what is gone**, and **clear what is left**.
- Jobs start, appear and vanish while they are listed with several requests, each
  of which may be retried, made to wait or answered from a cache: **what waits is
  found, what does not is not**, and **the pass is not held up for ever**.
- Ticks, deliveries, housekeeping, passes sat out and failing passes coincide: **no
  delivery is slept through**, and **healthy means that something was done lately**.
- The Docker daemon may do what it did not answer, while requests are cancelled:
  **what failed to launch never runs**, and **what nobody remembers goes away**.
- arc may be stopped while it writes its cache, its configuration, its template or
  its own program: it **comes by its configuration again**, and **takes nothing partial
for whole**.

`PROJECT.json` lists the hazards one by one, at their lines.

## Modules

| Module | Models | Extends |
|---|---|---|
| `PoolLimits` | `limitsFor`: what an override makes of a configured limit | |
| `Scaling` | the decisions of a pass, as operators | `PoolLimits` |
| `Decision` | one decision over all pools, and what it has to get right | `Scaling` |
| `MCScaling` | bounded inputs for it | `Decision` |
| `DecisionProofs` | its properties, proved for all inputs | `Decision` |
| `RunnerLife` | abstract: the life of each runner name | |
| `Reconcile` | the loop, the world around it, its properties | `Scaling`, instantiates `RunnerLife` |
| `MCReconcile` | constants of the runs | `Reconcile` |
| `ReconcileProofs` | its type invariant, safety and refinement, proved | `Reconcile` |
| `DurableLimits` | abstract: limits that change, are saved and come back | |
| `Overrides` | `handleScale`, the override map and its file | `PoolLimits`, instantiates `DurableLimits` |
| `MCOverrides` | constants of its runs | `Overrides` |
| `OverridesProofs` | its type invariant, safety and refinement, proved | `Overrides` |
| `InstanceLife` | abstract: the life of a runner and its directory | |
| `ProcessProvider` | the process provider of one pool and the processes it starts | instantiates `InstanceLife` |
| `MCProcess` | constants of its runs | `ProcessProvider` |
| `ProcessProofs` | its type invariant, safety and refinement, proved | `ProcessProvider` |
| `JobPoll` | `PendingJobs`: the workers, retries, waits, the cache, against a moving GitHub | |
| `MCJobPoll` | constants of its runs | `JobPoll` |
| `JobPollProofs` | its type invariant, what a poll answers and how long it waits, proved | `JobPoll` |
| `RunLoop` | when passes run, health, the breaker, the doorbell and the tunnel, in time | |
| `RunLoopProofs` | its type invariant, doorbell and health, proved | `RunLoop` |
| `DockerProvider` | the Docker provider of one pool, and the daemon it talks to | |
| `DockerProofs` | its type invariant and safety, proved | `DockerProvider` |
| `Startup` | how `arc run` comes by its configuration; what `arc config` writes | |
| `Installs` | runner template, `cloudflared`, `arc update` | |
| `MCHost` | constants and composition of the last two | `Startup`, instantiates `Installs` |
| `HostProofs` | what arc starts from and what it installs, proved | `MCHost` |

### Scaling and Decision

`AssignDemand` is what `Placed` holds after the whole queue, each job being placed
by `PlaceJob`: the tightest candidate (`Candidates`, sorted by number of labels, in
configuration order among equals) that still has headroom, otherwise the tightest
at all.  `DiscountForeignIdle` goes pool by pool (`Consumed`) and job by job
(`ForPool`) over the idle runners of other hosts, using up the first that fits
(`ConsumeSlot`).  `EffectiveLimits` is `limitsFor`, `Plan` is `Plan`.  Labels are
elements of sets (the code lower-cases strings before it compares them), a job is
its id (`PendingJobs` sorts by id).

`Decision` is steps 4 and 5 of `reconcileOnce` at once: `Decide` takes what a pass
has read (`Inputs`) to what it decides (`Outcome`).  Its `InputsAssumption` is all
the proofs need of the inputs: no job is queued twice, counts and configured limits
are natural numbers.  `Reconcile` assigns and plans with the same operators, a pool at
a time, and has no foreign runners to discount.

### Reconcile

One action per call that leaves the process or per decision, so that the world
moves between any two of them:

| Code | Actions |
|---|---|
| `reconcileOnce`, breaker to `ListRunners` | `BeginPass` (a pass that fails before has no effect here) |
| `provider.List`, first loop of `reap` | `ListInstances`, `ListInstancesFails` |
| `destroyInstance` | `Deregister`, `DeregisterFails`, then `DestroyInstance`, `DestroyInstanceFails` |
| second loop of `reap` | `RemoveOrphan`, `ReapDone` |
| `PendingJobs`, `AssignDemand` | `PollJobs` (with a partial answer as a fault), `PollJobsFails` |
| `applyPool` | `ScaleUp`, `ScaleUpFails`, `ScaleDown`, `LeaveAlone`, by `Decision` |
| `scaleUp`, `launchOne` | `Mint` in `Register`/`RegisterFails`, `Create`, `CreateFails`, `Unregister`, `LaunchDone` |
| `scaleDown` | `ScaleDown`, the destroy actions, `CullDone` |
| `housekeep` | `Housekeep` |
| restart | `Crash` |
| `SetDrained`, `handleScale` | `SetDrained`, `SetOverride` |
| GitHub, runners, time (external) | `Connect`, `Assign`, `Finish`, `Disconnect`, `Blip`, `RunnerDies`, `Vanish`, `Age`, `IdleTimeout`, `IdleForADay`, `QueueJob`, `CancelJob` |

State: `reg` (what GitHub would list), `inst` and `old` (what the provider would
list, and what has outlived `job_timeout`), `job`; `byName`, `live`, `demand`,
`todo`, `victim`, `orphans`, `toCreate`, `flight` are the local variables of the
pass, `clock` is `idleSince`.

What is abstracted: time, to the thresholds the code compares it with (older
than `job_timeout`; idle for `idle_timeout`; idle for a day); names, which are
recycled once their registration and instance are gone, standing for the next
random suffix; the order in which `reap` goes through instances, which is left
open.  Runners of other hosts appear in `Scaling` only.

`Fault(kind)` marks a step as a misbehaviour: it needs its kind in `Faults` and
counts against `MaxFaults`.  Everything else may happen any number of times.

### Overrides

A request goes through stages, one action per lock or file call, as each runs on
a goroutine of its own: `Validate` reads the limits under the mutex (with `Get`),
`Set` or `Clear` changes the map and copies it under the mutex, and `persist`
saves the copy with none: `OpenTmp` creates or truncates the temporary file,
`WriteTmp` writes it, `Rename` moves it over the file.  `Restart` stops the
daemon anywhere and runs `LoadOverrides`, perhaps with an edited configuration.

Files are inodes: `tmp` and `file` are the inodes under the two names, `fd` the
one a request has open.  Hence a request that opened the temporary file still
writes to it after another has renamed it.  A content is empty, torn or whole;
`Overwrite` says what a file holds after a text was written over what another
request wrote there.  A pool without an entry in the map and one whose entry has
no field are the same.  A bare `os.WriteFile` without `fsync` is taken at its
word: what a stopped machine, as opposed to a stopped daemon, leaves of the file
is not modelled.

Any number of requests save at one time, as no lock is held meanwhile.  They share
the temporary file, so that one may rename what another has only truncated
(`overrides.go:115`), or an older copy after a newer one.  Two history variables
tell the lone saves from the others: `shared` are the requests under way whose
save has overlapped with another's, and `mixed` says that one of them was the last
to rename.  `FileParses` says what the comment of `persist` promises, and fails;
`LoneSavesParse` says what is left of it.  `DurableLimits` keeps the copies that
wait to be saved: a lone save has the only one, and of several any may come last.

### ProcessProvider

| Code | Actions |
|---|---|
| `List` | `BeginList` (read the directory), for each entry `Look` (state file, `processAlive`) and `Verify` (`processMatches`), then `Listed` |
| `Destroy` | `Destroy` (state file, `processAlive`), `Check` (`processMatches`), `Terminate`, `ExitSeen` or `Kill` after twenty seconds, `ExitSeen` or `GiveUp` after five more, `Remove`, `RemoveFails` |
| `Prune`, and the loop's `reap` and `scaleDown` as callers of `Destroy` | `Listed` chooses what is destroyed: all that is gone, and any running ones |
| `Create` | `Launch` (the loop's `scaleUp`), `CloneTree`, `CloneTreeFails`, `PrepareFails`, `Start`, `Record` (`writeState` and the goroutine that waits), `RecordFails`, then `Launched` |
| `cmd.Wait` in its goroutine | `waited`, `Wait` |
| `verifier.seen` | `seen` |
| stop and start of the daemon | `Stop`, `Restart` |
| the operating system (external) | `Exit`, `Recycle`, `StrangerExits` |

State: `dir` and `pid` are the directories and what their state files say;
`proc` says of each process id whose process has it, for which runner it was
last signalled by the provider, and whether it is a child of this daemon, an
orphan of an earlier one, or a zombie.  `for` is a history variable: it is what
`SignalsOnlyItsRunner` speaks of.  `ReportedGoneIsGone` speaks of `listing`,
which is what `List` returns until the pass is over.

A zombie still counts as alive for `processAlive`, and its command line (which
`ps` shows as defunct, or not at all) still as a match or as already remembered.
Ids are given away freely while the daemon is down.  While it runs, an id that a
state file still names is used again only as the fault `reuse`, at a start or
between two passes: the kernel gives ids in turn, so one comes back only after
all the others.  Ids of no state file are always free to be used again.

What is abstracted: a name is used again once its directory and its process are
gone, standing for the next random suffix, and answers remembered about it are
forgotten with it.  The command line of any runner is a match, as in the code,
whichever its directory; other programs show neither `run.sh`, nor
`Runner.Listener`, nor an instance's directory in theirs.  `ps` is installed; when
the process has just gone it fails, which the code takes for a match.
The children a runner has in its process group are part of it.  An undo that
fails in turn after a failed `Create` leaves what `CloneTreeFails` leaves, and is
not repeated as a fault of its own.  The Windows variants are left out.

### JobPoll

| Code | Actions |
|---|---|
| `PendingJobs`: a goroutine per repository, the semaphore | `BeginPoll`, `AcquireSlot` |
| `repoPendingJobs`: runs queued, runs in progress, then the jobs of each | `Statuses`, `Key`, `GoOn`, `Read` |
| `request`, one attempt | `Fetched` (200), `NotModified` (304), `Vanished` (a 404 for a run that was listed), `AttemptFails` (no answer or a 5xx), `Limited` (429 or 403 with a time to wait), `Refused` (any other 4xx, or no token) |
| `backoff`, `capSleep`, the attempts left | `Backoff`, `CapSleep`, `Last`, in `Retry` |
| `etagCache`: `tag`, `body`, `store`, `Sweep` | `cache`, `Entry`, `Sweep` |
| merging the answers, `PartialError` | `Failures`, `Answer`, `EndPoll` |
| GitHub (external) | `QueueJob`, `TakeJob`, `EndRun`, and `Content`, which is what it answers to a request |

State: `run` and `job` are GitHub's; `at`, `found`, `pending`, `attempt` and
`waited` are a worker's.  `always` and `ever` are history: the jobs that waited
during all of the poll, and at some moment of it.  A tag is the content it was
given for, so that two contents never share one; a request is one step, as its
answer is a view of GitHub at one moment.  Waits are counted in units of the
shortest (250 ms), without jitter, which only shortens them.  An entry of an ended
run may be swept sooner than modelled, but nothing asks for it again.  The client
follows no link to a next page here, and `PageSize` says how much it then sees.

### RunLoop

| Code | Actions |
|---|---|
| `Run`: first pass, tickers, select | `Init`, `Time` (which fires the tickers), `OnTick`, `OnPoke`, `BeginHousekeeping`, `EndHousekeeping` |
| `reconcileOnce` to the circuit breaker | `Paused`, `SitOut`, `Poll` |
| the end of a pass, `recordRateLimit`, `recordFailure` | `CompletePass`, `FailPass`, `RecordFailure` |
| `Healthy` | `Healthy` |
| `Poke`, the webhook handler | `Poke`, `Deliver` |
| `webhook.Manager.Run`, the tunnel, `EnsureWebhook` | `StartTunnel`, `TunnelExits` |
| restart of the daemon | `Restart` |

Time is discrete; a pass and housekeeping take up to `MaxPass`.  `age` is the age of
the snapshot and `trust` (history) the time since the last good pass began, both
counted up to where they cease to matter.  What a pass finds is `Reconcile`'s and
`JobPoll`'s: here it succeeds or fails.  A `PartialError` counts as success, as in
the code.  Where several channels are ready the select takes any.  The times at
which the tunnel is started again are not bounded; the few requests that register
hooks leave the budget alone.  Housekeeping, whose interval is long, may come due at
any time except while it runs.

The code, as modelled, differs from what one may expect in three places, none of
which breaks a property: the comment of `Healthy` says that one failure is
tolerated, and two are; a daemon whose first passes fail counts as healthy for as
many failures although none has succeeded; and a hook that could not be registered
is not tried again before the tunnel exits.

### DockerProvider

| Code | Actions |
|---|---|
| `Preflight`, `ensureImage`, `pullOnce` | `Preflight`, `EnsureImage`, `FetchOrKeep` |
| `List`, `dockerState`, and what `reap` and `scaleDown` then destroy | `List`, `ListFails`, `Reported`, `State` |
| `Destroy` | `Destroy`, `DestroyFails` |
| `Prune` | `Prune`, `Destroy`, `Pruned` |
| `Create`: image, create, start, undo | `Launch`, `FindImage`, `CreateContainer`, `CreateFails`, `StartContainer`, `StartFails`, `Undo`, `UndoFails`, `Launched` |
| SIGTERM, restart, a kill | `Signal` (the context is cancelled, requests under way fail), `Leave`, `Start`, `Crash` |
| the Docker daemon, runners, people (external) | `StartsLate`, `Exits`, `Ages`, `Handled`, `ImageRemoved` |

State: `box` is Docker's own state of each container, `late` the starts that it will
carry out though nobody waits for them, `image` whether the image is there; `pulled`
is the `sync.Once` of the pull and its error.  A lost answer means that the daemon
did or will do what was asked.  `failed` is history: the launches that returned an
error (and whose registration the loop takes back), except those whose removal failed
too.

With `missing` the first pull of a process decides: under `-skip-preflight`, one
that fails is never tried again, and an image removed later is not pulled until arc
is restarted.  `LeftoversGo` is kept all the same, as removing needs no image.

### Startup and Installs

| Code | Actions of `Startup` |
|---|---|
| `loadConfigMax`, `config.Load`, `expandEnv`, defaults and `Validate` | `LoadFile`, `Defaults`, `Valid` |
| `autoConfig`: cache, vault, probe, refresh or fall back | `ReadCache`, `LoadVault`, `VaultFails`, `Probed`, `Rejected`, `Unreachable` |
| `WriteCache`, the derived configuration, `HostPool` | `Truncate`, `Save`, `SaveFails`, `Derive`, `Derived` |
| `arc config` | `OverwriteFile` (`Asked`, `Assembled`), `WriteFile`, `Kill` |
| the owner, the editor, the service manager (external) | `IssueToken`, `RevokeToken`, `FillVault`, `EditFile`, `Stop`, `Begin` |

| Code | Actions of `Installs` |
|---|---|
| `ensureTemplate` | `Look`, `Clear`, `DownloadArchive`, `Extract`, `Extracted`, `CheckEntrypoint`, `Commit`, `Fail`, `Interrupt` |
| `ensureCloudflared` | `FetchTunnel`, `FetchFails`, `Place`, `Finish`, `FetchStops` |
| `cmdUpdate`, `installTo`, `swapBinary` | `BeginUpdate`, `Download`, `Verify`, `Swap`, `MoveAside`, `Replace`, `RollBack`, `UpdateStops` |

A configuration is the fields whose rules relate them to each other, and the
environment variables it names with no default; a file is nothing, torn (emptied,
and not yet written) or whole.  `env` is what the environment of a start has set,
chosen anew as each start reads the file: a file that names another variable does not
load.  The wizard asks for a token with `${GITHUB_TOKEN}` as the default and checks
its file without expanding it, so it writes files that load only where that is set. 
Tokens may be revoked at
any time, also between the probe and the start; `issued` remembers what was once
accepted.  A 403 is taken for a rejection, as in the code, also when the token is
good.  `MCHost` puts the four parts side by side.  None shares a variable with
another, so each behaviour moves one of them: interleaving them would multiply the
states and show nothing more.

What the code leaves possible, and the properties name as their exceptions:

- `arc run` and `arc doctor` share the directory that a template is staged in; one
  may rename what the other has only begun to fill, and a template that is there is
  never looked into again (`met`).  The comment at `bootstrap.go:48` counts on the
  rename alone.
- Between the rename of `cloudflared` and its `chmod`, and while it is unpacked in
  place on macOS, a stop leaves a file that counts as installed (`fetching`).
- A stop between the two renames of an update on Windows leaves only `arc.exe.old`.
- The cache, rewritten at each start, and the configuration file are not written
  atomically.  The first is harmless, since a torn cache counts as none, but it costs
  a visit to the vault; the second makes `arc run` fail until somebody repairs it.

## Runs

| Run | Question | States |
|---|---|---|
| `scaling` | are the decisions right for every input? | 86 thousand |
| `reconcile` | is the loop safe, with two pools and two faults of ten kinds? | 1.4 million |
| `reconcile_live` | does everything that must happen happen? | 59 thousand |
| `overrides` | do limits stay sane and durable while requests save at one time? | 3.2 million |
| `process_provider` | does the provider know its runners from other processes? | 0.3 million |
| `job_poll` | does a poll find what waits, and end? | 0.4 million |
| `run_loop` | does the loop wake up, and say when it does nothing? | 0.2 million |
| `docker_provider` | are failed launches and leftovers gone? | 0.2 million |
| `startup` | does arc come by its configuration again after a stop at any step? | 0.1 million |
| `unseen_job` | is a job found that does not fit on a page? **no** | |
| `hung_job` | does `job_timeout` destroy a hung runner? **no** | |
| `torn_file` | can the overrides file be read whenever the daemon stops? **no** | |

**scaling.**  Three pools (`linux`, a `gpu` superset of it listed first, `arm`
with as many labels as `linux` less one), five jobs of which one fits nobody, up
to two foreign runners (one organisation-wide, one on a repository), limits and
overrides that cross, and every mix of busy, idle and starting runners up to two.
`SpillsBeforeOverload`: a pool is charged beyond its headroom only with jobs all
of whose candidates are full.  `ScarcePoolsAreSpared`: no job sits on a pool with
more labels while a candidate with fewer had room.  `DiscountIsAMaximalMatching`:
the jobs that stop counting can be given distinct foreign runners, and no runner
left over covers a job that still counts.  `PlanCoversDemand`: after the plan,
every counted job has a runner that is not busy, up to the maximum; the warm
floor holds; only idle runners are culled.

**reconcile.**  Two pools whose names begin alike.  `linux-gpu` has a warm floor of
one and a maximum of two, three names (so that one more may be finished, orphaned or
unlisted), two jobs with different labels, launches two at a time, and an override
that lowers the maximum below what runs.  `linux` comes first, fits no job and stays
empty: it is listed, reaped and planned in every pass with the one listing of the
runners that both share, and must take none of the other's registrations for its
own.  A pass lists and reaps all pools before it launches for any.  Two faults are
enough for every pair in the hazard list (a failed creation and a restart; a
crash after a lost answer).  Besides the invariants this run shows
`RunnersLiveOrderly`: `Reconcile` implements `RunnerLife`.  The refinement mapping
`Life` reads a name's phase from its registration and instance.  `deregister`,
`list` and `vanish` are not among the faults: with them `NeverKillsBusy`,
`WithinMax` and the life cycle do not hold, as *Excluded by name* says.
`OrphansAreDead` holds with them too, as `OrphansAreSafe` shows for any number of
pools.

**reconcile_live.**  One pool of at most one and no warm floor, one job, so the queue
really waits for the slot; three names, because after a failed listing one is in use
by a runner that the pass does not see while another is launched, and a third is
needed so that names do not run out; one fault out of nine kinds: those of
registering, creating, destroying, deregistering and listing, the crash, a runner
that dies or is slow, and an instance removed by hand.
Assumed fair, weakly:

- the steps of the pass (`PassStep`): `Run` starts a pass on every tick, and a
  pass is sequential code whose calls return; a call that fails is a fault;
- `Connect`, `Finish`, `Disconnect` and `Assign`: runners connect, jobs end,
  GitHub reports lost runners offline and gives a queued job to an idle runner;
- `Age` and `IdleTimeout`: time passes.

No fairness is asked of the operator, of new jobs or of faults.  A runner that is
still to connect, or idle while a job waits for it, does not outlive
`job_timeout` (hours) unless it is `slow`, a fault.  `JobServed` allows for a
drained pool; `DrainEmpties` is about a pool that stays drained.

**overrides.**  Two pools, two requests under way and four changes, of which two
are each acceptable and cross when both are made, and one asks for a maximum of
zero; a configuration whose maximum is lowered between starts; one failed write or
restart, at any step.  The two requests interleave freely, while they validate, change
and save.  `LimitsMakeSense`: what the loop reads is never crossed although each was
validated against older values.  `LoneSavesParse`: a save that overlapped with no
other leaves a file that can be read, whatever overlapping saves have left in the
temporary file before, and nobody still writes to it.  `LimitsAreDurable`:
`Overrides` implements `DurableLimits`, where saving is one step that takes one of the
copies waiting, whole, or leaves nothing that can be read.

**process_provider.**  Two instances that are launched side by side, three
process ids so that one can belong to another program while both runners live,
and three faults of six kinds (a failed copy, preparation, record or removal, a
runner that does not die, a stop of the daemon): enough for a stop after a failed
removal and another stop while that is cleared up.  `InstancesLiveOrderly`:
`ProcessProvider` implements `InstanceLife`, in which a runner loses its
directory only once it has exited or was told to stop.  `DebrisIsCleared` assumes
fair the loop and the launches it waits for (sequential code whose calls return),
the start after a stop (`Restart=always` in the service file), the goroutines
that wait for children, and that a process that was killed exits unless it is
`stuck`, a fault.  Runners need not exit by themselves, nor other programs.

**job_poll.**  Two repositories and one slot, so that one waits for the other; a
run with a job for a hosted image and one for ours, and a run with one job, so that
jobs appear and start between any two requests.  One retry, a wait of an hour asked
for and capped at thirty seconds.  GitHub puts everything on the first page; with
`PageSize = 1` `NoJobOverlooked` fails (`unseen_job`).  `NoJobOverlooked` depends on
the order of the two listings: queued runs are asked for before those in progress,
and a run only goes that way.  `NoGhostJobs` says that what the cache answers is not
older than the poll.  `WaitsAreBounded` and `PollEnds` assume nothing of GitHub: it
may fail, limit or refuse every attempt.  Fair are the workers, which are goroutines
with a timeout on each request, and the return of `PendingJobs` when they are over;
that `PollEnds` needs no strong fairness means that no attempt is free.

**run_loop.**  An interval of one, a pass of up to four, so that ticks are dropped
and a pass outlives the age at which a snapshot is stale; two failures tolerated as
in the code; a rate limit reset within two.  `HealthyMeansRecent` has a bound made
of exactly these: a good pass, housekeeping, the failing passes that are tolerated,
and the time until the last of them is stale.  `DoorbellIsAnswered` looks at every
moment at which the loop waits.  `JobsAreNoticed` assumes fair, strongly: time
(deliveries may come without end), ticks and housekeeping (the select is random),
and good passes (GitHub answers one now and then); weakly: the steps of the loop.
Nothing is asked of the tunnel: polling alone suffices.

**docker_provider.**  Two containers, each pull policy (chosen at the start), three
faults of seven kinds: enough for a start that is lost, its removal refused, and a
stop.  People may pause and remove containers and images at any time.  `LeftoversGo`
assumes fair the loop, its launches, a start after a stop, and the daemon's late
starts; that containers grow old; and strongly that passes list (housekeeping does
not come always) and that the loop sees the cancelled context.  `CannotStart` is its
one way out: with `never` and no image, `Preflight` refuses to start arc at all.

**startup.**  Two tokens, a user and an organisation, a file that somebody wrote with
two owners and one pool, the wizard told of a group and of a pool that cannot keep its
limits, files that name `${GITHUB_TOKEN}` and starts with and without it, two
installers.  `StartsUnaided` allows a failing start three reasons: a file that a
person wrote or a kill tore, a variable the file names and nobody has set, and
credentials that are not there or not accepted.
`RunsWhatWasVerified` compares what arc goes by with what GitHub said, whichever of
cache and vault it came from.  `ComesUp` assumes that the service manager starts arc
again, that the vault and GitHub answer now and then, and that it is not always
stopped before it is up.  It speaks of the configuration alone: the overrides, the
providers' preflight and the server that come next are no part of `Startup` (a torn
overrides file, for one, stops the daemon there).  The machines of `Installs` may rest
for good, so deadlock
is not checked.

**Violations.**  Each is a sentence of the repository that the code does not
keep; `findings` in `PROJECT.json` quotes them.

- `unseen_job`: `repoPendingJobs` drops the link to the next page that `getJSON`
  returns.  With more jobs in a run (or runs in a repository) than fit on a page of
  100, jobs that wait are not among those `PendingJobs` returns.  In the run a page
  has one entry.
- `hung_job`: with no fairness on `Finish` (jobs may hang), a busy runner that
  outlives `job_timeout` is refused by GitHub on every pass and never destroyed.
  It is not counted as live either, so the pool may launch another in its place:
  `WithinMax` counts only instances that have not outlived `job_timeout`.
- `torn_file`: `persist` runs outside the mutex, and every call uses the same temporary
  file.  One request renames it when another has just truncated it; a daemon that stops
  then does not start again.  Likewise the last of two renames may carry the older copy,
  and a change that was acknowledged is undone by a restart.

**Excluded by name.**  What breaks a property is a named fault or a named bound, so
that a reader can put it back and see the counterexample:

| Add | Breaks | Because |
|---|---|---|
| fault `list` to one pool | `WithinMax` | `reconcileOnce` skips the reaping of a pool whose instances cannot be listed but applies it all the same, with no live instance, and launches up to the maximum again |
| fault `deregister` | `NeverKillsBusy` | an idle runner is chosen for culling, takes a job, its deregistration fails with something other than 422, and it is destroyed |
| fault `vanish` | `RunnersLiveOrderly` | an instance removed by hand keeps its registration until it is an orphan |
| fault `reuse` | `SignalsOnlyItsRunner` | that a process is the runner of a directory is remembered for the daemon's life; an id reused between two passes is taken for it still |
| fault `unrecorded` | `ReportedGoneIsGone` | the daemon stops after it started a runner and before the state file is written; the next one takes the directory for debris |
| `PageSize = 1` | `NoJobOverlooked` | the next page is never asked for |

## Proofs

TLAPS proves, for all names, pools, jobs, limits, faults and bounds that meet the
named assumptions of the modules that declare them (each an `ASSUME` that TLC also
evaluates in the runs):

| Theorem | States |
|---|---|
| `SpilloverComesFirst` | `Spec => []SpillsBeforeOverload` |
| `ScarcePoolsAlwaysSpared` | `Spec => []ScarcePoolsAreSpared` |
| `DiscountAlwaysMaximal` | `Spec => []DiscountIsAMaximalMatching` |
| `PlanAlwaysCoversDemand` | `Spec => []PlanCoversDemand` |
| `LimitsNeverCross` | limits in force are natural numbers, min ≤ max |
| `CreationStopsAtMax`, `CullingKeepsTarget`, `OneFreshRunnerPerJob` | what `Plan` does |
| `ReconcileProofs!TypeCorrect` | `Spec => []TypeOK` of `Reconcile` |
| `OrphansAreSafe` | `Spec => []OrphansAreDead` |
| `BusyRunnersSurvive` | `Spec => []NeverKillsBusy` if deregistration never fails otherwise than by refusal |
| `PoolsStayWithinMax` | `Spec => []WithinMax` if instances can be listed |
| `RunnersLiveOrderlyAlways` | `Reconcile` implements `RunnerLife` if deregistration never fails otherwise than by refusal and nobody removes instances by hand |
| `LimitsTyped` | `Spec => []TypeOK` of `Overrides` |
| `LimitsAlwaysMakeSense` | `Spec => []LimitsMakeSense`, however many requests save at once |
| `LoneSavesAlwaysParse` | `Spec => []LoneSavesParse`, whatever overlaps before and after |
| `LimitsStayDurable` | `Overrides` implements `DurableLimits`, however many requests save at once |
| `ProcessesTyped` | `Spec => []TypeOK` of `ProcessProvider` |
| `OnlyItsRunnerIsSignalled` | `Spec => []SignalsOnlyItsRunner` if ids are reused only while the daemon is down |
| `ReportedGoneIsGoneAlways` | `Spec => []ReportedGoneIsGone` if, besides, no stop falls between a start and its record |
| `InstancesStayOrderly` | `ProcessProvider` implements `InstanceLife`, under the same assumptions |
| `LoopTyped` | `Spec => []TypeOK` of `RunLoop` |
| `DoorbellIsAlwaysAnswered` | `Spec => []DoorbellIsAnswered` |
| `HealthyMeansRecentAlways` | `Spec => []HealthyMeansRecent`, for all intervals and lengths |
| `ContainersTyped` | `Spec => []TypeOK` of `DockerProvider` |
| `ReportedGoneStaysGone` | `Spec => []ReportedGoneIsGone` of `DockerProvider`, whatever fails |
| `FailedLaunchesNeverRun` | `Spec => []FailedLaunchNeverRuns`, whatever fails |
| `NoJobIsAGhost` | `Spec => []NoGhostJobs` |
| `NoJobIsOverlooked` | `Spec => []NoJobOverlooked` if every run and job fits on a page (`PagesSuffice`) |
| `RequestsDoNotWaitForever` | `Spec => []WaitsAreBounded`, for any number of retries and any waits |
| `JobPollProofs!TypeCorrect` | `Spec => []TypeOK` of `JobPoll` |
| `RunsOnlyWhatWasVerified` | `Spec => []RunsWhatWasVerified` of `Startup` |
| `StartsAlwaysUnaided` | `Spec => StartsUnaided` of `Startup` |
| `InstallsStayWhole` | `Spec => []InstallsAreWhole` of `Installs`, for any number of installers |

What `AssignDemand` and `DiscountForeignIdle` compute is proved by induction over
the queue and over the pools.  The induction is stated over the set of the positions
where something holds (`Induction`, from the well-foundedness of `<`), and that the
functions exist at all is `Recursion`; `PlacedAre`, `ForPoolIs` and `ConsumedIs` then
say what they are at each position.

`PlaceInv` is what holds when the first jobs of the queue are placed.  A pool has
either no more jobs than room it has lost, or the excess is no larger than the number
of its jobs all of whose candidates are out of room (`RoomInv`); room only shrinks, so
such a job stays one.  A job sits above a candidate with fewer labels only when that
is out of room (`SpareInv`).  `SpillsBeforeOverload` and `ScarcePoolsAreSpared` follow,
as a pool without room left is charged with its whole headroom.  `Tightest` always
has a value because numbers of labels, and positions among equals, have a least one
(`TightestIs`).

`MatchInv` keeps a matching of the covered jobs into the runners used up, of which
the free ones are exactly the rest, and that no free runner covers a job that was
passed over: free runners only become fewer.  That a job is met once only is where
it is needed that the queue holds no job twice and a job is counted on one pool.

`OrphansAreDead` is not inductive.  `StageInv` adds which parts of a pass's
memory are in use at which stage: launches only while launching, orphans only
while reaping.  So a launch and a removal never overlap, and no step outside the
loop starts an instance (`OutsideKeepsFrame`).

`NeverKillsBusy` follows from `KillInv`: a name the listing does not know has no
registration until the pass itself launches under it, hence what is destroyed
without deregistering has nothing to deregister, and what is next to be destroyed
has no registration.  This is where the assumption on faults is used, in one step.

`WithinMax` follows from `MaxInv`: between the listing of a pool and its turn to
be applied, its young instances are among those listed, as only its own turn
creates any; and while it launches, the instances and launches together with
those still to begin stay within the limits the plan was made with
(`ScaleUpWithinMax`, from `CreationStopsAtMax`), which are below `Ceiling`, the
highest maximum the operator gives.  Each launch moves one unit from `toCreate`
to the taken names (`MaxMint`).

That `Reconcile` implements `RunnerLife` takes `FlightInv`: a launch under way has a
registration that nobody else touches and no instance yet, so that `Create` moves it
on and `Unregister` takes it back from where the abstract life says.  Each kind of step
then moves each name along (`OutsideMoves`, `DestroyMoves`, `LaunchMoves`,
`LoopMoves`); `KillInv` gives that what is destroyed has no registration.  The
assumptions on faults enter where `DeregisterFails` and `Vanish` would skip a phase.

In `Overrides`, `LimitsMakeSense` follows from the types alone, which is the
point of `limitsFor`: no relation between the two fields of an override is
maintained.  `LoneSavesParse` follows from `SaveInv`: a request whose save has
overlapped with none has the temporary file to itself, empty until it is written and
whole when it is renamed, and once such a file is in place nobody has it open.  That
`Overrides` implements `DurableLimits` takes `TmpInv` besides: what is whole in the
temporary file, as long as anybody is about to write or to rename, is the copy of a
request that has yet to rename.  So a rename, whoever makes it, saves a copy that still
waits, or something that does not parse; a write to a file that was renamed
meanwhile does the same (`WriteOnDisk`).

In `ProcessProvider`, `SignalsOnlyItsRunner` follows from `SignalInv`: a state
file names its runner's process, a free id or, after a stop, another program's
(`RecordsAreHonest`); a remembered answer about it is still true
(`AnswersAreTrue`), which is where reuse under the daemon's eyes is excluded; and
a process is signalled only after such an answer (`OnlyVerifiedAreSignalled`).

`ReportedGoneIsGone` follows from `GoneInv` on top of that.  A runner is either
the one its state file names or the one its launch is about to record
(`RunnersAreKnown`, the conjunct a stop before the record breaks), and it is one
process (`OneProcessEach`).  A launch starts from nothing (`LaunchedAfresh`).
What waits for a process to exit has told it to (`AwaitedIsTold`), so that a
directory goes only when its runner is over (`RemovedIsOver`), and over it stays
(`GoneIsOver`), as nothing is launched while a listing is in use.

That `ProcessProvider` implements `InstanceLife` takes one thing more, `DirInv`:
there is a directory wherever one is about to be used, or else removing it in part
would bring one into being.  Then each kind of step moves each instance along
(`LaunchMoves`, `LoopMoves`, `SystemMoves`, `StopMoves`); that a runner exits into
"done" and not into nothing is where `RunnersAreKnown` is needed again.

In `RunLoop`, `HealthyMeansRecent` follows from `TrustInv`.  `Remaining` bounds,
from where the loop is, the time until it records its next pass; no step but a record
raises it, and every unit of time lowers it (`RemainingTime`, which needs that an idle
loop never waits with something in a channel, and that housekeeping does not come due
while it runs).  So two records are at most `Gap` apart, `trust + Remaining` stays
within what as many failures as are counted allow for, and once they are more than
`Tolerated` nothing is claimed any more.  The products are kept in one lemma
(`BackGrows`).  `DoorbellIsAnswered` follows from `rung => poke`: the channel keeps
what the loop was too busy to receive.

In `DockerProvider`, nothing is started twice: a container is started by the launch
that created it or by the daemon, late, for that launch.  Hence what was listed as
finished stays so (`GoneInv`), and a launch that failed has nobody left to start its
container (`FailedInv`), as removing it also ends a late start.

In `JobPoll`, an entry of the cache holds what its tag stands for (`CacheInv`), so
that a 304 tells a worker what a 200 would (`Reading`).  `CoverInv` follows a job that
waits through its worker's requests: after the first listing its run is found or in
progress, after the second it is found, and then it is to be read or the job was.
The run of a waiting job is never deleted or ended (`QueueInv`), so a 404 loses none.
`PagesSuffice` is used in one lemma (`ContentIsWhole`); `unseen_job` shows what
happens without it.

`WaitsAreBounded` follows from `TimeInv`: a request at its n-th attempt has waited no
longer than n longest waits and the first n backoffs, whose sum is again defined from
one attempt to the next (`BackoffsAre`) and only grows (`BackoffsGrow`).

In `Startup`, `StartInv` says what each step has in hand: from the cache, or once
GitHub has answered, credentials whose token was accepted and whose account's kind is
known (`Verified`); from the vault, before, only `Unverified` ones.  The cache holds
verified credentials or nothing usable, and the latter only as long as nothing was
proven (`KeptInv`), so a start that has to give up lacks something its user owes it.
`DerivedIsValid` is what makes credentials enough to start from.  What the wizard wrote
is valid whenever it is whole, so a start that fails on it lacks a variable.
`HostsDoBoth` carries the theorems to the composition in `MCHost`.  In `Installs`,
`ProgramInv` follows the program through the two renames on Windows, and
`TemplateInv` says that a lone installer renames only what it has checked.

Only model-checked: the liveness properties (`JobServed`, `OrphansRemoved`,
`FinishedReaped`, `DrainEmpties`, `DebrisIsCleared`, `PollEnds`, `JobsAreNoticed`,
`LeftoversGo`, `ComesUp`), whose fairness is beyond the prover.  Every other property
of the passing runs is a theorem.

## Plan

1. *Done:* `Scaling`, `RunnerLife`, `Reconcile`, their runs and first proofs.
2. *Done:* `Overrides`, `DurableLimits`, their runs and proofs.
3. *Done:* `ProcessProvider`, `InstanceLife`, their runs and proofs.
4. *Done:* `RunLoop`, `JobPoll`, `DockerProvider`, `Startup`, `Installs` and their
   runs.  They declare no recursive operator and name their assumptions, so that
   they can be proved about.
5. *Done:* proofs about every module: type invariants, safety, the three refinements
   (`Reconcile` of `RunnerLife`, `Overrides` of `DurableLimits`, `ProcessProvider` of
   `InstanceLife`), and the algorithms of `Scaling`.
6. In `Reconcile`: personal-account mode (repository pinning) and several hosts
   sharing an account.

## Not modelled

- Text: YAML, the values of `${VAR}`, durations, labels and the rules about a single
field; the
  output of `doctor` and `status`, service files, Prometheus metrics.
- Transport: the docker engine's sockets, TLS, registry credentials and log framing;
  tokens, signatures and JWTs; `paginate` and the repository filter, whose listing
  is taken at its word; runner groups; `EnsureWebhook`'s search for its own hook and
  the hooks of single repositories.
- Personal-account mode in `scaleUp`, the repository cache of `pollableRepos`, and
  the clocks of runners that are idle for longer than a day but not long enough to
  cull: their hazards are listed without a property.
- The Windows variants of process handling, beside the Unix ones.
- Host identity (a constant), images, scripts and deployment files.
