-------------------------- MODULE ProcessProvider --------------------------
(***************************************************************************)
(* The process provider of one pool: instance directories, the state files *)
(* in them, and the operating system's processes.                          *)
(*                                                                         *)
(* The reconcile loop calls List, Destroy and Prune one after the other    *)
(* and never beside its launches, which run Create concurrently.  Runners  *)
(* exit on their own, survive a restart of the daemon, and their process   *)
(* ids may be given to others after them.                                  *)
(***************************************************************************)
EXTENDS FiniteSets, Naturals

CONSTANTS
  Name,       \* runner names: the directories of the pool
  Pid,        \* process ids
  NoName, NoPid, Stranger,
  Faults,     \* kinds of misbehaviour that may happen
  MaxFaults   \* bound: how many of them in one behaviour

FaultKind == {"clone",       \* the template cannot be copied
              "prepare",     \* the preflight script, the log file or the start fails
              "record",      \* the state file cannot be written
              "remove",      \* a directory is removed in part only
              "stuck",       \* a killed process is still there after five seconds
              "crash",       \* the daemon stops
              "unrecorded",  \* it does between starting and recording a runner
              "reuse"}       \* the id of a runner still listed is given away while it runs

ASSUME NamesAssumption == NoName \notin Name /\ Stranger \notin Name /\ NoName # Stranger
ASSUME PidsAssumption == NoPid \notin Pid
ASSUME FaultsAssumption == Faults \subseteq FaultKind /\ MaxFaults \in Nat

VARIABLES
  dir,      \* [Name -> "none", "bare" (without a state file) or "stated"]
  pid,      \* [Name -> the process id in its state file]
  proc,     \* [Pid -> whose it is, for whom it was signalled, its state]
  waited,   \* processes whose exit a goroutine waits for
  seen,     \* verifier.seen: answers for a process id and a directory
  stage,    \* what the loop is doing, or "down"
  cur,      \* the instance it does it to
  todo,     \* directories List has still to look at
  listing,  \* [Name -> what List reports]
  doomed,   \* instances still to be destroyed
  job,      \* [Name -> where its Create is]
  spent     \* faults so far

disk   == <<dir, pid>>
system == <<proc, waited>>
loop   == <<stage, cur, todo, listing, doomed>>
vars   == <<disk, system, seen, loop, job, spent>>

Stage == {"down", "idle", "launch", "list", "verify", "reap",
          "check", "term", "await", "awaitKilled", "remove"}

Free      == [who |-> NoName, for |-> NoName, state |-> "none"]
Process   == [who : Name \cup {NoName, Stranger}, for : Name \cup {NoName},
              state : {"none", "child", "orphan", "zombie"}]
NoListing == [n \in Name |-> "none"]
NoJob     == [n \in Name |-> "none"]

Init ==
  /\ dir = [n \in Name |-> "none"] /\ pid = [n \in Name |-> NoPid]
  /\ proc = [p \in Pid |-> Free] /\ waited = {}
  /\ seen = {}
  /\ stage = "idle" /\ cur = NoName /\ todo = {} /\ listing = NoListing /\ doomed = {}
  /\ job = NoJob
  /\ spent = 0

Fault(kind) ==
  /\ kind \in Faults
  /\ spent < MaxFaults
  /\ spent' = spent + 1

NoFault == UNCHANGED spent

---------------------------------------------------------------------------
(* Processes *)

(* A process that has exited can be signalled until it is waited for. *)
Alive(p) == p # NoPid /\ proc[p].who # NoName

Runs(n, p) == proc[p].who = n /\ proc[p].state # "zombie"
Running(n) == \E p \in Pid : Runs(n, p)

Recorded(p) == \E n \in Name : pid[n] = p

(* Mutant: the command line is not looked at. *)
MPsTrustsPid(p) == TRUE

(* What ps shows: a runner's command line, of this directory or another;   *)
(* no answer counts as a match.                                            *)
Ps(p) == proc[p].who # Stranger

(* Mutant: the answer is remembered for the process id alone. *)
MMatchesByPid(p, n, yes) ==
  /\ yes = IF \E m \in Name, b \in BOOLEAN : <<p, m, b>> \in seen
             THEN \E m \in Name : <<p, m, TRUE>> \in seen ELSE Ps(p)
  /\ seen' = seen \cup {<<p, n, yes>>}

Matches(p, n, yes) ==
  /\ yes = IF \E b \in BOOLEAN : <<p, n, b>> \in seen THEN <<p, n, TRUE>> \in seen ELSE Ps(p)
  /\ seen' = seen \cup {<<p, n, yes>>}

(* The process with the id p, whoever it is now, gets a signal meant for n. *)
Signal(p, n) ==
  IF p \in Pid /\ Alive(p) /\ proc[p].for = NoName
    THEN proc' = [proc EXCEPT ![p] = [@ EXCEPT !.for = n]]
    ELSE UNCHANGED proc

---------------------------------------------------------------------------
(* List *)

BeginList ==
  /\ stage = "idle"
  /\ stage' = "list"
  /\ todo' = {n \in Name : dir[n] # "none"}
  /\ UNCHANGED <<disk, system, seen, cur, listing, doomed, job, spent>>

(* Read the state file and see whether the process exists. *)
Look(n) ==
  /\ stage = "list" /\ n \in todo
  /\ todo' = todo \ {n}
  /\ IF dir[n] = "stated" /\ Alive(pid[n])
       THEN stage' = "verify" /\ cur' = n /\ UNCHANGED listing
       ELSE /\ listing' = [listing EXCEPT ![n] = IF dir[n] = "bare" THEN "unknown" ELSE "exited"]
            /\ UNCHANGED <<stage, cur>>
  /\ UNCHANGED <<disk, system, seen, doomed, job, spent>>

(* See whether the process is the runner of this directory. *)
Verify ==
  /\ stage = "verify"
  /\ \E yes \in BOOLEAN :
       /\ Matches(pid[cur], cur, yes)
       /\ listing' = [listing EXCEPT ![cur] = IF yes THEN "running" ELSE "exited"]
  /\ stage' = "list" /\ cur' = NoName
  /\ UNCHANGED <<disk, system, todo, doomed, job, spent>>

Gone(n) == listing[n] \in {"exited", "unknown"}

(* reap and Prune destroy what is gone; the loop may also want surplus or  *)
(* overdue runners destroyed.                                              *)
Listed ==
  /\ stage = "list" /\ todo = {}
  /\ \E surplus \in SUBSET {n \in Name : listing[n] = "running"} :
       doomed' = {n \in Name : Gone(n)} \cup surplus
  /\ stage' = "reap"
  /\ UNCHANGED <<disk, system, seen, cur, todo, listing, job, spent>>

---------------------------------------------------------------------------
(* Destroy *)

Destroy(n) ==
  /\ stage = "reap" /\ n \in doomed
  /\ doomed' = doomed \ {n}
  /\ cur' = n
  /\ stage' = IF dir[n] = "stated" /\ Alive(pid[n]) THEN "check" ELSE "remove"
  /\ UNCHANGED <<disk, system, seen, todo, listing, job, spent>>

Check ==
  /\ stage = "check"
  /\ \E yes \in BOOLEAN :
       /\ Matches(pid[cur], cur, yes)
       /\ stage' = IF yes THEN "term" ELSE "remove"
  /\ UNCHANGED <<disk, system, cur, todo, listing, doomed, job, spent>>

(* Mutant: the runner is not told to stop. *)
MTerminateOnlyWaits ==
  /\ stage = "term"
  /\ stage' = "remove"
  /\ UNCHANGED <<disk, system, seen, cur, todo, listing, doomed, job, spent>>

Terminate ==
  /\ stage = "term"
  /\ Signal(pid[cur], cur)
  /\ stage' = "await"
  /\ UNCHANGED <<disk, waited, seen, cur, todo, listing, doomed, job, spent>>

ExitSeen ==
  /\ stage \in {"await", "awaitKilled"} /\ ~Alive(pid[cur])
  /\ stage' = "remove"
  /\ UNCHANGED <<disk, system, seen, cur, todo, listing, doomed, job, spent>>

(* Twenty seconds have passed. *)
Kill ==
  /\ stage = "await" /\ Alive(pid[cur])
  /\ Signal(pid[cur], cur)
  /\ stage' = "awaitKilled"
  /\ UNCHANGED <<disk, waited, seen, cur, todo, listing, doomed, job, spent>>

(* Another five. *)
GiveUp ==
  /\ stage = "awaitKilled" /\ Alive(pid[cur])
  /\ Fault("stuck")
  /\ stage' = "remove"
  /\ UNCHANGED <<disk, system, seen, cur, todo, listing, doomed, job>>

Remove ==
  /\ stage = "remove"
  /\ dir' = [dir EXCEPT ![cur] = "none"] /\ pid' = [pid EXCEPT ![cur] = NoPid]
  /\ stage' = "reap" /\ cur' = NoName
  /\ UNCHANGED <<system, seen, todo, listing, doomed, job, spent>>

(* The state file may be among what was removed. *)
RemoveFails ==
  /\ stage = "remove"
  /\ Fault("remove")
  /\ \/ UNCHANGED disk
     \/ dir' = [dir EXCEPT ![cur] = "bare"] /\ pid' = [pid EXCEPT ![cur] = NoPid]
  /\ stage' = "reap" /\ cur' = NoName
  /\ UNCHANGED <<system, seen, todo, listing, doomed, job>>

---------------------------------------------------------------------------
(* Create *)

Fresh(n) == dir[n] = "none" /\ \A p \in Pid : proc[p].who # n

(* The loop goes on to launch runners; Prune launches none.  Their names   *)
(* are random: no earlier answer is about their directories.               *)
Launch ==
  /\ stage = "reap" /\ doomed = {}
  /\ \E new \in SUBSET {n \in Name : Fresh(n)} :
       /\ job' = [n \in Name |-> IF n \in new THEN "clone" ELSE "none"]
       /\ seen' = {x \in seen : x[2] \notin new}
  /\ stage' = "launch" /\ listing' = NoListing
  /\ UNCHANGED <<disk, system, cur, todo, doomed, spent>>

CloneTree(n) ==
  /\ job[n] = "clone"
  /\ dir' = [dir EXCEPT ![n] = "bare"]
  /\ job' = [job EXCEPT ![n] = "start"]
  /\ UNCHANGED <<pid, system, seen, loop, spent>>

(* What was copied is left for Prune. *)
CloneTreeFails(n) ==
  /\ job[n] = "clone"
  /\ Fault("clone")
  /\ dir' = [dir EXCEPT ![n] = "bare"]
  /\ job' = [job EXCEPT ![n] = "none"]
  /\ UNCHANGED <<pid, system, seen, loop>>

(* The system gives ids away again; of a runner that is still listed only  *)
(* as a fault.                                                             *)
Reusing(p) == IF Recorded(p) THEN Fault("reuse") ELSE NoFault

(* What was prepared is removed.  Without an id a process cannot start.    *)
PrepareFails(n) ==
  /\ job[n] = "start"
  /\ IF \E p \in Pid : proc[p] = Free /\ ~Recorded(p) THEN Fault("prepare") ELSE NoFault
  /\ dir' = [dir EXCEPT ![n] = "none"]
  /\ job' = [job EXCEPT ![n] = "none"]
  /\ UNCHANGED <<pid, system, seen, loop>>

Start(n) ==
  /\ job[n] = "start"
  /\ \E p \in Pid :
       /\ proc[p] = Free /\ Reusing(p)
       /\ proc' = [proc EXCEPT ![p] = [Free EXCEPT !.who = n, !.state = "child"]]
  /\ job' = [job EXCEPT ![n] = "record"]
  /\ UNCHANGED <<disk, waited, seen, loop>>

(* Mutant: nobody waits for the process. *)
MRecordLeavesZombie(n) ==
  /\ job[n] = "record"
  /\ \E p \in Pid :
       /\ proc[p].who = n
       /\ dir' = [dir EXCEPT ![n] = "stated"] /\ pid' = [pid EXCEPT ![n] = p]
  /\ job' = [job EXCEPT ![n] = "none"]
  /\ UNCHANGED <<system, seen, loop, spent>>

(* Mutant: the state file is written without the process id. *)
MRecordWithoutPid(n) ==
  /\ job[n] = "record"
  /\ \E p \in Pid : proc[p].who = n /\ waited' = waited \cup {p}
  /\ dir' = [dir EXCEPT ![n] = "stated"]
  /\ job' = [job EXCEPT ![n] = "none"]
  /\ UNCHANGED <<pid, proc, seen, loop, spent>>

(* The state file is in place, and a goroutine waits for the process. *)
Record(n) ==
  /\ job[n] = "record"
  /\ \E p \in Pid :
       /\ proc[p].who = n
       /\ dir' = [dir EXCEPT ![n] = "stated"] /\ pid' = [pid EXCEPT ![n] = p]
       /\ waited' = waited \cup {p}
  /\ job' = [job EXCEPT ![n] = "none"]
  /\ UNCHANGED <<proc, seen, loop, spent>>

(* The runner is killed, and what was prepared is removed. *)
RecordFails(n) ==
  /\ job[n] = "record"
  /\ Fault("record")
  /\ \E p \in Pid : proc[p].who = n /\ Signal(p, n)
  /\ dir' = [dir EXCEPT ![n] = "none"]
  /\ job' = [job EXCEPT ![n] = "none"]
  /\ UNCHANGED <<pid, waited, seen, loop>>

Launched ==
  /\ stage = "launch" /\ job = NoJob
  /\ stage' = "idle"
  /\ UNCHANGED <<disk, system, seen, cur, todo, listing, doomed, job, spent>>

---------------------------------------------------------------------------
(* The operating system, and restarts *)

Exit(p) ==
  /\ \E n \in Name : Runs(n, p)
  /\ proc' = [proc EXCEPT ![p] = IF @.state = "child" THEN [@ EXCEPT !.state = "zombie"] ELSE Free]
  /\ UNCHANGED <<disk, waited, seen, loop, job, spent>>

Wait(p) ==
  /\ p \in waited /\ proc[p].state = "zombie"
  /\ proc' = [proc EXCEPT ![p] = Free]
  /\ waited' = waited \ {p}
  /\ UNCHANGED <<disk, seen, loop, job, spent>>

(* Another program gets the id of a runner that has exited: while the      *)
(* daemon is down, or, as a fault, between two passes.                     *)
Recycle(p) ==
  /\ proc[p] = Free /\ Recorded(p)
  /\ IF stage = "down" THEN NoFault ELSE stage = "idle" /\ Fault("reuse")
  /\ proc' = [proc EXCEPT ![p] = [Free EXCEPT !.who = Stranger, !.state = "orphan"]]
  /\ UNCHANGED <<disk, waited, seen, loop, job>>

StrangerExits(p) ==
  /\ proc[p].who = Stranger
  /\ proc' = [proc EXCEPT ![p] = Free]
  /\ UNCHANGED <<disk, waited, seen, loop, job, spent>>

(* The daemon stops; its runners go on. *)
Stop ==
  /\ stage # "down"
  /\ Fault(IF \E n \in Name : job[n] = "record" THEN "unrecorded" ELSE "crash")
  /\ stage' = "down" /\ cur' = NoName /\ todo' = {} /\ listing' = NoListing /\ doomed' = {}
  /\ job' = NoJob
  /\ seen' = {}
  /\ proc' = [p \in Pid |-> IF proc[p].state = "zombie" THEN Free
                            ELSE IF proc[p].state = "child" THEN [proc[p] EXCEPT !.state = "orphan"]
                            ELSE proc[p]]
  /\ waited' = {}
  /\ UNCHANGED disk

Restart ==
  /\ stage = "down"
  /\ stage' = "idle"
  /\ UNCHANGED <<disk, system, seen, cur, todo, listing, doomed, job, spent>>

---------------------------------------------------------------------------
LaunchStep(n) ==
  \/ CloneTree(n) \/ CloneTreeFails(n) \/ PrepareFails(n)
  \/ Start(n) \/ Record(n) \/ RecordFails(n)

LoopStep ==
  \/ BeginList \/ Verify \/ Listed
  \/ Check \/ Terminate \/ ExitSeen \/ Kill \/ GiveUp \/ Remove \/ RemoveFails
  \/ Launch \/ Launched \/ Restart
  \/ \E n \in Name : Look(n) \/ Destroy(n)

Next ==
  \/ LoopStep
  \/ \E n \in Name : LaunchStep(n)
  \/ \E p \in Pid : Exit(p) \/ Wait(p) \/ Recycle(p) \/ StrangerExits(p)
  \/ Stop

(* The loop and the launches it waits for go on, and start again after a   *)
(* stop (systemd: Restart=always); goroutines run; a killed process exits. *)
Fairness ==
  /\ WF_vars(LoopStep)
  /\ \A n \in Name : WF_vars(LaunchStep(n))
  /\ \A p \in Pid : WF_vars(Wait(p)) /\ WF_vars(stage = "awaitKilled" /\ Exit(p))

Spec == Init /\ [][Next]_vars
FairSpec == Spec /\ Fairness

---------------------------------------------------------------------------
(* Properties *)

(* A state file names a process, only launches build directories, and the  *)
(* loop works on recorded instances.                                       *)
TypeOK ==
  /\ dir \in [Name -> {"none", "bare", "stated"}]
  /\ pid \in [Name -> Pid \cup {NoPid}]
  /\ \A n \in Name : dir[n] = "stated" <=> pid[n] # NoPid
  /\ proc \in [Pid -> Process]
  /\ waited \subseteq Pid
  /\ seen \subseteq Pid \X Name \X BOOLEAN
  /\ stage \in Stage
  /\ cur \in Name \cup {NoName}
  /\ cur \in Name <=> stage \in {"verify", "check", "term", "await", "awaitKilled", "remove"}
  /\ stage \in {"verify", "check", "term", "await", "awaitKilled"} => dir[cur] = "stated"
  /\ todo \subseteq Name /\ doomed \subseteq Name
  /\ listing \in [Name -> {"none", "running", "exited", "unknown"}]
  /\ job \in [Name -> {"none", "clone", "start", "record"}]
  /\ stage # "launch" => job = NoJob
  /\ \A n \in Name : job[n] # "none" => dir[n] # "stated"
  /\ spent \in Nat

(* Nobody but the runner of an instance is signalled when the instance is  *)
(* destroyed, also when its process id was given to another program while  *)
(* the daemon was down (Destroy, processMatches).                          *)
SignalsOnlyItsRunner ==
  \A p \in Pid : proc[p].for # NoName => proc[p].who = proc[p].for

ToldToStop(n) == \E p \in Pid : Runs(n, p) /\ proc[p].for # NoName

(* What List reports as exited or unknown, and reap therefore destroys, is *)
(* not running, when it is reported and until it is destroyed, except for  *)
(* what a kill takes long to end.                                          *)
ReportedGoneIsGone ==
  \A n \in Name : Gone(n) => ~Running(n) \/ ToldToStop(n)

Life ==
  [n \in Name |->
     IF ToldToStop(n) THEN "leaving"
     ELSE IF Running(n) THEN "running"
     ELSE IF job[n] \in {"clone", "start"} THEN "making"
     ELSE IF dir[n] # "none" THEN "done" ELSE "absent"]

IL == INSTANCE InstanceLife WITH phase <- Life

(* A runner keeps its directory until it exits or is told to (Destroy      *)
(* "deletes its directory" after the process), and no step skips a phase.  *)
InstancesLiveOrderly == IL!Spec

(* A directory whose runner has exited, or never started, is removed       *)
(* (process.go:312, "Prune will remove it").                               *)
DebrisIsCleared ==
  \A n \in Name : dir[n] # "none" /\ job[n] = "none" /\ ~Running(n) ~> dir[n] = "none"
============================================================================
