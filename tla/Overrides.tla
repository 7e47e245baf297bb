----------------------------- MODULE Overrides -----------------------------
(***************************************************************************)
(* Live limits: handleScale of the control API, the Overrides it changes,  *)
(* and the file they are kept in.                                          *)
(*                                                                         *)
(* The HTTP server runs each request on a goroutine of its own.  A mutex   *)
(* guards the map; validating against it and changing it take the mutex    *)
(* separately, and the file is written with no lock held, by any number of *)
(* requests at a time.  The daemon may stop at any point and start again,  *)
(* perhaps with another configuration file.                                *)
(***************************************************************************)
EXTENDS PoolLimits, FiniteSets

CONSTANTS
  Pool,
  Confs,       \* configurations a start may find: [Pool -> [min, max]]
  Asks,        \* changes the operator may request: [pool, min, max]
  Request,     \* requests that may be under way at one time
  Faults,      \* kinds of misbehaviour that may happen
  MaxFaults    \* bound: how many of them in one behaviour

Limit    == [min : Nat, max : Nat \ {0}]
Override == [min : Nat \cup {Unset}, max : (Nat \ {0}) \cup {Unset}]

(* config.Validate accepts no other configuration. *)
ASSUME ConfsAssumption ==
  /\ Confs # {}
  /\ \A c \in Confs : c \in [Pool -> Limit] /\ \A p \in Pool : c[p].min <= c[p].max
ASSUME AsksAssumption ==
  Asks \subseteq [pool : Pool, min : Int, max : Int]
ASSUME PoolsAssumption == Pool # {}
ASSUME RequestsAssumption == IsFiniteSet(Request)
ASSUME FaultsAssumption == Faults \subseteq {"crash", "write"} /\ MaxFaults \in Nat

VARIABLES
  conf,       \* the configuration the daemon runs with
  mem,        \* Overrides.m; a pool without an entry has both fields unset
  stage,      \* [Request -> where it is]
  ask,        \* [Request -> what it asks for]
  snapshot,   \* [Request -> copy of the map it is to save]
  fd,         \* [Request -> the file it has open]
  data,       \* [File -> its content]
  tmp, file,  \* the files under the two names
  up,         \* the daemon has started
  shared,     \* history: requests that have saved while another did
  mixed,      \* history: such a request renamed the file last
  spent       \* faults so far

disk == <<data, tmp, file>>
history == <<shared, mixed>>
vars == <<conf, mem, stage, ask, snapshot, fd, disk, up, history, spent>>

File    == 1..(Cardinality(Request) + 2)
NoFile  == 0
Stage   == {"idle", "valid", "open", "write", "rename"}
NoLimit == [min |-> Unset, max |-> Unset]
Empty   == [p \in Pool |-> NoLimit]

Blank    == [state |-> "empty", limits |-> Empty]
Torn     == [state |-> "torn", limits |-> Empty]
Whole(m) == [state |-> "whole", limits |-> m]

NoAsk == [pool |-> CHOOSE p \in Pool : TRUE, min |-> Unset, max |-> Unset]

Init ==
  /\ conf \in Confs
  /\ mem = Empty
  /\ stage = [r \in Request |-> "idle"]
  /\ ask = [r \in Request |-> NoAsk]
  /\ snapshot = [r \in Request |-> Empty]
  /\ fd = [r \in Request |-> NoFile]
  /\ data = [f \in File |-> Blank]
  /\ tmp = NoFile /\ file = NoFile
  /\ up = TRUE
  /\ shared = {} /\ mixed = FALSE
  /\ spent = 0

Fault(kind) ==
  /\ kind \in Faults
  /\ spent < MaxFaults
  /\ spent' = spent + 1

---------------------------------------------------------------------------
(* handleScale *)

(* What is given replaces what was set. *)
Merge(a, b) ==
  [min |-> IF b.min = Unset THEN a.min ELSE b.min,
   max |-> IF b.max = Unset THEN a.max ELSE b.max]

(* Mutant: a maximum of zero is let through. *)
MAcceptableNoFloor(a) ==
  LET eff == Merge(Merge(conf[a.pool], mem[a.pool]), a)
  IN  /\ a.min # Unset \/ a.max # Unset
      /\ eff.min >= 0 /\ eff.min <= eff.max

(* The request against the effective values, those it leaves alone too. *)
Acceptable(a) ==
  LET eff == Merge(Merge(conf[a.pool], mem[a.pool]), a)
  IN  /\ a.min # Unset \/ a.max # Unset
      /\ eff.min >= 0
      /\ eff.max >= 1
      /\ eff.min <= eff.max

Validate(r) ==
  /\ up /\ stage[r] = "idle"
  /\ \E a \in Asks : Acceptable(a) /\ ask' = [ask EXCEPT ![r] = a]
  /\ stage' = [stage EXCEPT ![r] = "valid"]
  /\ UNCHANGED <<conf, mem, snapshot, fd, disk, up, history, spent>>

Saving == {r \in Request : stage[r] \in {"open", "write", "rename"}}

(* A request that begins to save while others do shares the temporary file *)
(* with all of them.                                                       *)
BeginSaving(r) ==
  /\ stage' = [stage EXCEPT ![r] = "open"]
  /\ shared' = IF Saving = {} THEN {} ELSE Saving \cup {r}

(* Mutant: the copy is made before the change. *)
MPutCopiesFirst(r, p, override) ==
  /\ mem' = [mem EXCEPT ![p] = override]
  /\ snapshot' = [snapshot EXCEPT ![r] = mem]
  /\ BeginSaving(r)

(* Under the mutex: change the map and copy it. *)
Put(r, p, override) ==
  /\ mem' = [mem EXCEPT ![p] = override]
  /\ snapshot' = [snapshot EXCEPT ![r] = mem']
  /\ BeginSaving(r)

Set(r) ==
  /\ up /\ stage[r] = "valid"
  /\ Put(r, ask[r].pool, Merge(mem[ask[r].pool], ask[r]))
  /\ ask' = [ask EXCEPT ![r] = NoAsk]
  /\ UNCHANGED <<conf, fd, disk, up, mixed, spent>>

Clear(r) ==
  /\ up /\ stage[r] = "idle"
  /\ \E p \in Pool : Put(r, p, NoLimit)
  /\ UNCHANGED <<conf, ask, fd, disk, up, mixed, spent>>

---------------------------------------------------------------------------
(* persist *)

FreeFile ==
  CHOOSE f \in File : f \notin {tmp, file} /\ \A r \in Request : fd[r] # f

(* Mutant: the file itself is rewritten. *)
MOpenTmpInPlace(r) ==
  /\ up /\ stage[r] = "open"
  /\ LET f == IF file = NoFile THEN FreeFile ELSE file
     IN  /\ fd' = [fd EXCEPT ![r] = f]
         /\ data' = [data EXCEPT ![f] = Blank]
         /\ tmp' = f
  /\ stage' = [stage EXCEPT ![r] = "write"]
  /\ UNCHANGED <<conf, mem, ask, snapshot, file, up, history, spent>>

(* os.WriteFile creates the temporary file or truncates the one there is. *)
OpenTmp(r) ==
  /\ up /\ stage[r] = "open"
  /\ LET f == IF tmp = NoFile THEN FreeFile ELSE tmp
     IN  /\ fd' = [fd EXCEPT ![r] = f]
         /\ data' = [data EXCEPT ![f] = Blank]
         /\ tmp' = f
  /\ stage' = [stage EXCEPT ![r] = "write"]
  /\ UNCHANGED <<conf, mem, ask, snapshot, file, up, history, spent>>

(* Writing from the start over what another request wrote since: the end   *)
(* of a longer text stays, and what is then there parses no more.          *)
Overwrite(old, m) == IF old \in {Blank, Whole(m)} THEN {Whole(m)} ELSE {Whole(m), Torn}

WriteTmp(r) ==
  /\ up /\ stage[r] = "write"
  /\ \E c \in Overwrite(data[fd[r]], snapshot[r]) : data' = [data EXCEPT ![fd[r]] = c]
  /\ fd' = [fd EXCEPT ![r] = NoFile]
  /\ stage' = [stage EXCEPT ![r] = "rename"]
  /\ UNCHANGED <<conf, mem, ask, snapshot, tmp, file, up, history, spent>>

(* The request is answered, and the copy of the map is done with. *)
Answer(r) ==
  /\ stage' = [stage EXCEPT ![r] = "idle"]
  /\ snapshot' = [snapshot EXCEPT ![r] = Empty]
  /\ shared' = shared \ {r}

(* With an error; the map keeps the change. *)
WriteTmpFails(r) ==
  /\ up /\ stage[r] = "write"
  /\ Fault("write")
  /\ data' = [data EXCEPT ![fd[r]] = Torn]
  /\ fd' = [fd EXCEPT ![r] = NoFile]
  /\ Answer(r)
  /\ UNCHANGED <<conf, mem, ask, tmp, file, up, mixed>>

(* With an error when another request renamed the file first. *)
Rename(r) ==
  /\ up /\ stage[r] = "rename"
  /\ IF tmp = NoFile THEN UNCHANGED <<tmp, file, mixed>>
     ELSE file' = tmp /\ tmp' = NoFile /\ mixed' = (r \in shared)
  /\ Answer(r)
  /\ UNCHANGED <<conf, mem, ask, fd, data, up, spent>>

---------------------------------------------------------------------------
(* Restart *)

Parses == file = NoFile \/ data[file].state = "whole"

Stored == IF file = NoFile THEN Empty ELSE data[file].limits

(* The daemon stops and LoadOverrides reads the file; one that does not    *)
(* parse keeps the daemon from starting.                                   *)
Restart ==
  /\ up
  /\ Fault("crash")
  /\ up' = Parses
  /\ mem' = IF Parses THEN Stored ELSE Empty
  /\ conf' \in Confs
  /\ stage' = [r \in Request |-> "idle"]
  /\ ask' = [r \in Request |-> NoAsk]
  /\ snapshot' = [r \in Request |-> Empty]
  /\ fd' = [r \in Request |-> NoFile]
  /\ shared' = {}
  /\ UNCHANGED <<disk, mixed>>

Next ==
  \/ \E r \in Request :
       \/ Validate(r) \/ Set(r) \/ Clear(r)
       \/ OpenTmp(r) \/ WriteTmp(r) \/ WriteTmpFails(r) \/ Rename(r)
  \/ Restart

Spec == Init /\ [][Next]_vars

---------------------------------------------------------------------------
(* Properties *)

(* The state is what the code's types and the validation of requests allow. *)
TypeOK ==
  /\ conf \in Confs
  /\ mem \in [Pool -> Override]
  /\ stage \in [Request -> Stage]
  /\ ask \in [Request -> [pool : Pool, min : Nat \cup {Unset}, max : (Nat \ {0}) \cup {Unset}]]
  /\ snapshot \in [Request -> [Pool -> Override]]
  /\ fd \in [Request -> File \cup {NoFile}]
  /\ data \in [File -> [state : {"empty", "torn", "whole"}, limits : [Pool -> Override]]]
  /\ tmp \in File \cup {NoFile} /\ file \in File \cup {NoFile}
  /\ up \in BOOLEAN
  /\ shared \subseteq Request /\ mixed \in BOOLEAN
  /\ spent \in Nat

(* The limits in force make sense, also when the configuration file was    *)
(* edited under the overrides kept from before (limitsFor lowers min).     *)
LimitsMakeSense ==
  \A p \in Pool :
    LET lim == EffectiveLimits(conf[p], mem[p])
    IN  0 <= lim.min /\ lim.min <= lim.max /\ 1 <= lim.max

(* The next start can read the file, whenever the daemon stops             *)
(* (overrides.go:107, "persist writes atomically: a torn overrides file    *)
(* would fail to parse at the next start and take the orchestrator down    *)
(* with it").  The code does not keep this: requests that save at one time *)
(* share the temporary file, and one renames what the other has truncated. *)
FileParses == Parses

(* A save that has had the temporary file to itself leaves a file that the *)
(* next start can read, whatever overlapping saves left there before,      *)
(* wherever the daemon stops and whatever fails after it, until others     *)
(* that overlap replace it.  Nobody still writes to it, although a request *)
(* that was overtaken keeps the file it has opened (persist).              *)
LoneSavesParse == ~mixed => Parses

DL == INSTANCE DurableLimits
        WITH Nothing <- NoLimit, inForce <- mem,
             copies <- {snapshot[r] : r \in Saving},
             saved <- IF Parses THEN {Stored} ELSE {}

(* What a restart puts in force is a copy that a request made of the whole *)
(* map as it changed it, and that was still to be saved when it was; never *)
(* a mixture of two, nor what a failed or an interrupted save left behind  *)
(* (README.md:241, "persisted across restarts").  A request that saves     *)
(* alone has the only copy, of what is in force; of several that save at   *)
(* one time the last to rename wins, and the file may be lost to a torn    *)
(* one.                                                                    *)
LimitsAreDurable == DL!Spec
============================================================================
