--------------------------- MODULE DockerProvider ---------------------------
(* The Docker provider of one pool: its containers at a Docker daemon that     *)
(* answers late or not at all, and the loop that lists, removes and launches    *)
(* them.  As in ProcessProvider, a pass goes through List, Destroy and Create    *)
(* one after the other, and the launches of a pass run side by side.             *)
EXTENDS Naturals

CONSTANTS
  Name,       \* runner names, which are container names
  Policies,   \* the pull policies a pool may have
  Faults,     \* kinds of misbehaviour that may happen
  MaxFaults   \* bound: how many of them in one behaviour

FaultKind == {"image",    \* the image cannot be looked up or pulled
              "list",     \* the containers cannot be listed
              "refuse",   \* the daemon refuses to create or start
              "lost",     \* it does, or will, but the answer is lost
              "remove",   \* it does not remove a container, or only in part
              "signal",   \* arc is told to stop: its requests are cancelled
              "crash"}    \* arc is killed

ASSUME PoliciesAssumption == Policies \subseteq {"missing", "always", "never"}
ASSUME FaultsAssumption == Faults \subseteq FaultKind /\ MaxFaults \in Nat

VARIABLES
  box,      \* Docker's state of each container
  late,     \* containers with a start under way that nobody waits for any more
  old,      \* containers older than job_timeout
  image,    \* the runner image is at the daemon
  policy,   \* the pull policy
  pulled,   \* what pullOnce has done in this process
  stage,    \* what the loop is doing, or "down"
  ending,   \* the context is cancelled
  listing,  \* what List reports
  doomed,   \* instances still to be destroyed
  job,      \* where each Create is
  failed,   \* history: launches that returned an error, nothing else going wrong
  spent     \* faults so far

docker == <<box, late, old, image>>
pulls  == <<policy, pulled>>
loop   == <<stage, listing, doomed>>
vars   == <<docker, pulls, loop, ending, job, failed, spent>>

Box       == {"none", "created", "running", "paused", "exited", "dead"}
NoListing == [n \in Name |-> "none"]
NoJob     == [n \in Name |-> "none"]

Init ==
  /\ box = [n \in Name |-> "none"] /\ late = {} /\ old = {} /\ image \in BOOLEAN
  /\ policy \in Policies /\ pulled = "no" /\ stage = "down" /\ ending = FALSE
  /\ listing = NoListing /\ doomed = {} /\ job = NoJob /\ failed = {}
  /\ spent = 0

Fault(kind) == kind \in Faults /\ spent < MaxFaults /\ spent' = spent + 1
NoFault == UNCHANGED spent

\* A request that its context cancels fails; any other only through a fault.
Fails(kind) == IF ending THEN NoFault ELSE Fault(kind)
Succeeds == ~ending /\ NoFault

Become(n, state) == box' = [box EXCEPT ![n] = state]
Vanish(n) == Become(n, "none") /\ late' = late \ {n} /\ old' = old \ {n} /\ UNCHANGED image

-----------------------------------------------------------------------------
(* ensureImage: what the policy does, and whether the image can be used.       *)

FetchOrKeep(ok) ==
  \/ ok /\ Succeeds /\ IF policy = "never" THEN image /\ UNCHANGED image ELSE image' = TRUE
  \/ ~ok /\ UNCHANGED image /\ IF policy = "never" /\ ~image THEN NoFault ELSE Fails("image")

\* With "missing" the first call decides for this process, also when it fails.
EnsureImage(ok) ==
  IF policy = "missing"
  THEN IF pulled # "no" THEN ok = (pulled = "ok") /\ UNCHANGED <<image, pulled, spent>>
       ELSE FetchOrKeep(ok) /\ pulled' = IF ok THEN "ok" ELSE "failed"
  ELSE FetchOrKeep(ok) /\ UNCHANGED pulled

\* arc does not come up with a pool whose image is not there, unless told to
\* (-skip-preflight); then a first pull that failed is never tried again.
Preflight ==
  /\ stage = "preflight"
  /\ \E ok \in BOOLEAN :
       EnsureImage(ok) /\ stage' \in IF ok THEN {"idle"} ELSE {"idle", "down"}
  /\ ending' = (ending /\ stage' = "idle")
  /\ UNCHANGED <<box, late, old, policy, listing, doomed, job, failed>>

-----------------------------------------------------------------------------
(* List, Destroy and Prune *)

MStatePausedUnknown == [none |-> "none", created |-> "starting", running |-> "running",
                        paused |-> "unknown", exited |-> "exited", dead |-> "exited"]
State == [none |-> "none", created |-> "starting", running |-> "running",
          paused |-> "running", exited |-> "exited", dead |-> "exited"]

\* Containers that do not run are asked for too (all=true).
MShownRunningOnly == {n \in Name : box[n] \in {"running", "paused"}}
Shown == {n \in Name : box[n] # "none"}

Reported == [n \in Name |-> IF n \in Shown THEN State[box[n]] ELSE "none"]

\* What reap destroys: what has finished, what is overdue - a runner that is busy
\* stays, one that never started is not - and what scaleDown finds idle.
List ==
  /\ stage = "idle" /\ Succeeds
  /\ listing' = Reported
  /\ \E idle \in SUBSET {n \in Name : Reported[n] = "running"} :
       doomed' = idle \cup {n \in Name : Reported[n] \in {"exited", "unknown"}}
                      \cup {n \in old : Reported[n] = "starting"}
  /\ stage' = "reap"
  /\ UNCHANGED <<docker, pulls, ending, job, failed>>

\* The pool is planned all the same, as if it were empty.
ListFails ==
  /\ stage = "idle" /\ Fails("list")
  /\ stage' = "reap"
  /\ UNCHANGED <<docker, pulls, listing, doomed, ending, job, failed>>

Prune ==
  /\ stage = "idle" /\ Succeeds
  /\ listing' = Reported /\ doomed' = {n \in Name : Reported[n] = "exited"}
  /\ stage' = "prune"
  /\ UNCHANGED <<docker, pulls, ending, job, failed>>

\* By force, with its volumes; one that is gone already is fine.
Destroy(n) ==
  /\ n \in doomed /\ Succeeds
  /\ Vanish(n) /\ doomed' = doomed \ {n}
  /\ UNCHANGED <<pulls, stage, listing, ending, job, failed>>

DestroyFails(n) ==
  /\ n \in doomed /\ Fails("remove") /\ doomed' = doomed \ {n}
  /\ Become(n, box[n]) \/ (~ending /\ box[n] # "none" /\ Become(n, "dead"))
  /\ UNCHANGED <<late, old, image, pulls, stage, listing, ending, job, failed>>

Pruned ==
  /\ stage = "prune" /\ doomed = {}
  /\ stage' = "idle" /\ listing' = NoListing
  /\ UNCHANGED <<docker, pulls, doomed, ending, job, failed, spent>>

-----------------------------------------------------------------------------
(* Create *)

Launch ==
  /\ stage = "reap" /\ doomed = {}
  /\ \E new \in SUBSET {n \in Name : box[n] = "none"} :
       /\ job' = [n \in Name |-> IF n \in new THEN "image" ELSE "none"]
       /\ failed' = failed \ new
  /\ stage' = "launch" /\ listing' = NoListing
  /\ UNCHANGED <<docker, pulls, doomed, ending, spent>>

\* Create of n goes on, or returns its error.
Goes(n, to) == job' = [job EXCEPT ![n] = to] /\ UNCHANGED failed
Errs(n) == job' = [job EXCEPT ![n] = "none"] /\ failed' = failed \cup {n}

FindImage(n) ==
  /\ job[n] = "image"
  /\ \E ok \in BOOLEAN : EnsureImage(ok) /\ IF ok THEN Goes(n, "create") ELSE Errs(n)
  /\ UNCHANGED <<box, late, old, policy, loop, ending>>

CreateContainer(n) ==
  /\ job[n] = "create" /\ image /\ Succeeds
  /\ Become(n, "created") /\ Goes(n, "start")
  /\ UNCHANGED <<late, old, image, pulls, loop, ending>>

\* Refused, for the image may be gone; or carried out with the answer lost.
CreateFails(n) ==
  /\ job[n] = "create" /\ Errs(n)
  /\ \/ UNCHANGED box /\ IF image THEN Fails("refuse") ELSE NoFault
     \/ image /\ ~ending /\ Fault("lost") /\ Become(n, "created")
  /\ UNCHANGED <<late, old, image, pulls, loop, ending>>

StartContainer(n) ==
  /\ job[n] = "start" /\ box[n] = "created" /\ Succeeds
  /\ Become(n, "running") /\ Goes(n, "none")
  /\ UNCHANGED <<late, old, image, pulls, loop, ending>>

\* Refused, as when somebody removed it; or started, now or later, unheard.
StartFails(n) ==
  /\ job[n] = "start" /\ Goes(n, "undo")
  /\ \/ UNCHANGED <<box, late>> /\ IF box[n] = "created" THEN Fails("refuse") ELSE NoFault
     \/ box[n] = "created" /\ Fails("lost") /\ Become(n, "running") /\ UNCHANGED late
     \/ box[n] = "created" /\ Fails("lost") /\ late' = late \cup {n} /\ UNCHANGED box
  /\ UNCHANGED <<old, image, pulls, loop, ending>>

\* With the context of the launch the removal is cancelled as the start was.
MUndoCancelled(n) ==
  /\ job[n] = "undo" /\ NoFault /\ Errs(n)
  /\ IF ending THEN UNCHANGED docker ELSE Vanish(n)
  /\ UNCHANGED <<pulls, loop, ending>>

\* What would not start is removed, even though arc is told to stop.
Undo(n) ==
  /\ job[n] = "undo" /\ NoFault /\ Errs(n)
  /\ Vanish(n)
  /\ UNCHANGED <<pulls, loop, ending>>

UndoFails(n) ==
  /\ job[n] = "undo" /\ Fault("remove") /\ Goes(n, "none")
  /\ UNCHANGED <<docker, pulls, loop, ending>>

MLaunchedAtOnce ==
  /\ stage = "launch" /\ stage' = "idle"
  /\ UNCHANGED <<docker, pulls, listing, doomed, ending, job, failed, spent>>

Launched ==
  /\ stage = "launch" /\ job = NoJob /\ stage' = "idle"
  /\ UNCHANGED <<docker, pulls, listing, doomed, ending, job, failed, spent>>

-----------------------------------------------------------------------------
(* arc starts and stops; containers stay. *)

Start ==
  /\ stage = "down" /\ stage' = "preflight" /\ pulled' = "no"
  /\ UNCHANGED <<docker, policy, listing, doomed, ending, job, failed, spent>>

\* A signal cancels the context; what is under way ends first.
Signal ==
  /\ stage # "down" /\ ~ending /\ Fault("signal") /\ ending' = TRUE
  /\ UNCHANGED <<docker, pulls, loop, job, failed>>

Stopped == stage' = "down" /\ ending' = FALSE /\ listing' = NoListing
           /\ doomed' = {} /\ job' = NoJob /\ UNCHANGED <<docker, pulls, failed>>

Leave == stage = "idle" /\ ending /\ NoFault /\ Stopped
Crash == stage # "down" /\ Fault("crash") /\ Stopped

-----------------------------------------------------------------------------
(* The Docker daemon, runners and other people.  Containers are not restarted: *)
(* their restart policy is "no".                                                 *)

StartsLate(n) ==
  /\ n \in late /\ late' = late \ {n} /\ box[n] = "created" /\ Become(n, "running")
  /\ UNCHANGED <<old, image, pulls, loop, ending, job, failed, spent>>

Exits(n) ==
  /\ box[n] = "running" /\ Become(n, "exited")
  /\ UNCHANGED <<late, old, image, pulls, loop, ending, job, failed, spent>>

Ages(n) ==
  /\ box[n] # "none" /\ old' = old \cup {n}
  /\ UNCHANGED <<box, late, image, pulls, loop, ending, job, failed, spent>>

Handled(n) ==
  /\ \/ box[n] = "running" /\ Become(n, "paused") /\ UNCHANGED <<late, old, image>>
     \/ box[n] = "paused" /\ Become(n, "running") /\ UNCHANGED <<late, old, image>>
     \/ box[n] # "none" /\ Vanish(n)
  /\ UNCHANGED <<pulls, loop, ending, job, failed, spent>>

ImageRemoved ==
  /\ image /\ image' = FALSE
  /\ UNCHANGED <<box, late, old, pulls, loop, ending, job, failed, spent>>

LaunchStep(n) ==
  \/ FindImage(n) \/ CreateContainer(n) \/ CreateFails(n)
  \/ StartContainer(n) \/ StartFails(n) \/ Undo(n) \/ UndoFails(n)

LoopStep ==
  \/ Start \/ Preflight \/ List \/ ListFails \/ Prune \/ Pruned \/ Launch \/ Launched \/ Leave
  \/ \E n \in Name : Destroy(n) \/ DestroyFails(n)

Next ==
  \/ LoopStep \/ Signal \/ Crash \/ ImageRemoved
  \/ \E n \in Name : LaunchStep(n) \/ StartsLate(n) \/ Exits(n) \/ Ages(n) \/ Handled(n)

Spec == Init /\ [][Next]_vars

\* The loop, its launches and the daemon go on, arc is started again, passes are
\* not always housekeeping, the loop notices that it is told to end, and time passes.
FairSpec ==
  /\ Spec /\ WF_vars(LoopStep) /\ SF_vars(List) /\ SF_vars(Leave)
  /\ \A n \in Name : WF_vars(LaunchStep(n)) /\ WF_vars(StartsLate(n)) /\ WF_vars(Ages(n))

-----------------------------------------------------------------------------

Alive(n) == box[n] \in {"running", "paused"}

Shapes ==
  /\ box \in [Name -> Box] /\ late \subseteq Name /\ old \subseteq Name
  /\ policy \in Policies /\ pulled \in {"no", "ok", "failed"}
  /\ stage \in {"down", "preflight", "idle", "reap", "prune", "launch"}
  /\ listing \in [Name -> {"none", "starting", "running", "exited", "unknown"}]
  /\ doomed \subseteq {n \in Name : listing[n] # "none"}
  /\ job \in [Name -> {"none", "image", "create", "start", "undo"}]
  /\ failed \subseteq Name
  /\ \A n \in Name : job[n] # "none" => stage = "launch"
  /\ \A n \in Name : box[n] = "none" => n \notin late /\ n \notin old

Flags == image \in BOOLEAN /\ ending \in BOOLEAN

TypeOK == Shapes /\ Flags /\ spent \in 0 .. MaxFaults

(* What List reports as finished runs no job, then or ever after, whatever the *)
(* daemon's own state of it was: it is removed by force (dockerState).           *)
ReportedGoneIsGone == \A n \in Name : listing[n] \in {"exited", "unknown"} => ~Alive(n)

(* A launch that returned an error, whose registration is then taken back, has no *)
(* runner and will have none, although the daemon may have done what it did not     *)
(* answer and arc is being stopped (Create); unless the removal is refused as well.  *)
FailedLaunchNeverRuns ==
  \A n \in failed : ~Alive(n) /\ n \notin late

\* A pool that never pulls does not come up without its image.
CannotStart == policy = "never" /\ ~image

(* Containers that never started, have exited or could not be removed go away in *)
(* the end, also those that nobody remembers after a crash (List, Destroy).         *)
LeftoversGo ==
  \A n \in Name :
    box[n] \in {"created", "exited", "dead"} ~> (Alive(n) \/ box[n] = "none" \/ CannotStart)
=============================================================================
