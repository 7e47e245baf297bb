--------------------------- MODULE ProcessProofs ---------------------------
(***************************************************************************)
(* Proofs about ProcessProvider, for any number of names and process ids   *)
(* and any faults but those a theorem excludes.                            *)
(***************************************************************************)
EXTENDS ProcessProvider, TLAPS

Working == {"verify", "check", "term", "await", "awaitKilled"}

LEMMA TypeInit == Init => TypeOK
  BY NamesAssumption DEF Init, TypeOK, Process, Free, NoListing, NoJob, Stage

(* A signal sets one field of one process. *)
LEMMA SignalType ==
  ASSUME TypeOK, NEW p \in Pid, NEW n \in Name, Signal(p, n)
  PROVE  /\ proc' \in [Pid -> Process]
         /\ \A q \in Pid : /\ proc'[q].who = proc[q].who /\ proc'[q].state = proc[q].state
                           /\ proc'[q].for # proc[q].for => q = p /\ proc'[q].for = n
                           /\ q = p /\ Alive(q) => proc'[q].for # NoName
<1> USE NamesAssumption DEF TypeOK
<1>1. CASE Alive(p) /\ proc[p].for = NoName
  BY <1>1 DEF Signal, Process
<1>2. CASE ~(Alive(p) /\ proc[p].for = NoName)
  BY <1>2 DEF Signal
<1> QED BY <1>1, <1>2

LEMMA MatchesType ==
  ASSUME TypeOK, NEW p \in Pid, NEW n \in Name, NEW yes \in BOOLEAN, Matches(p, n, yes)
  PROVE  seen' \subseteq Pid \X Name \X BOOLEAN
<1>1. seen' = seen \cup {<<p, n, yes>>}
  BY DEF Matches
<1>2. <<p, n, yes>> \in Pid \X Name \X BOOLEAN
  OBVIOUS
<1>3. seen \subseteq Pid \X Name \X BOOLEAN
  BY DEF TypeOK
<1> QED BY <1>1, <1>2, <1>3, Zenon

LEMMA FaultType == ASSUME TypeOK, NEW k, Fault(k) PROVE spent' \in Nat
  BY DEF TypeOK, Fault

LEMMA TypeStep == TypeOK /\ [Next]_vars => TypeOK'
<1> SUFFICES ASSUME TypeOK, [Next]_vars PROVE TypeOK'
  OBVIOUS
<1> USE NamesAssumption, PidsAssumption
<1>1. CASE BeginList
  BY <1>1 DEF TypeOK, BeginList, disk, system, Stage
<1>2. ASSUME NEW n \in Name, Look(n) PROVE TypeOK'
  BY <1>2 DEF TypeOK, Look, disk, system, Stage
<1>3. CASE Verify
  <2>1. PICK yes \in BOOLEAN : /\ Matches(pid[cur], cur, yes)
                               /\ listing' = [listing EXCEPT ![cur] = IF yes THEN "running" ELSE "exited"]
    BY <1>3 DEF Verify
  <2>2. cur \in Name /\ pid[cur] \in Pid
    BY <1>3 DEF TypeOK, Verify
  <2>3. seen' \subseteq Pid \X Name \X BOOLEAN
    BY <2>1, <2>2, MatchesType
  <2> QED BY <1>3, <2>1, <2>2, <2>3 DEF TypeOK, Verify, disk, system, Stage
<1>4. CASE Listed
  BY <1>4 DEF TypeOK, Listed, disk, system, Stage
<1>5. ASSUME NEW n \in Name, Destroy(n) PROVE TypeOK'
  BY <1>5 DEF TypeOK, Destroy, disk, system, Stage
<1>6. CASE Check
  <2>1. PICK yes \in BOOLEAN : /\ Matches(pid[cur], cur, yes)
                               /\ stage' = IF yes THEN "term" ELSE "remove"
    BY <1>6 DEF Check
  <2>2. cur \in Name /\ pid[cur] \in Pid
    BY <1>6 DEF TypeOK, Check
  <2>3. seen' \subseteq Pid \X Name \X BOOLEAN
    BY <2>1, <2>2, MatchesType
  <2> QED BY <1>6, <2>1, <2>2, <2>3 DEF TypeOK, Check, disk, system, Stage
<1>7. CASE Terminate \/ Kill
  <2>1. cur \in Name /\ pid[cur] \in Pid /\ Signal(pid[cur], cur)
    BY <1>7 DEF TypeOK, Terminate, Kill
  <2>2. proc' \in [Pid -> Process]
    BY <2>1, SignalType
  <2>3. /\ stage \in {"term", "await"} /\ stage' \in {"await", "awaitKilled"}
        /\ UNCHANGED <<disk, waited, seen, cur, todo, listing, doomed, job, spent>>
    BY <1>7 DEF Terminate, Kill
  <2> QED BY <2>1, <2>2, <2>3 DEF TypeOK, disk, Stage
<1>8. CASE ExitSeen
  BY <1>8 DEF TypeOK, ExitSeen, disk, system, Stage
<1>9. CASE GiveUp
  BY <1>9, FaultType DEF TypeOK, GiveUp, disk, system, Stage
<1>10. CASE Remove
  BY <1>10 DEF TypeOK, Remove, system, Stage
<1>11. CASE RemoveFails
  <2>1. CASE UNCHANGED disk
    BY <1>11, <2>1, FaultType DEF TypeOK, RemoveFails, disk, system, Stage
  <2>2. CASE dir' = [dir EXCEPT ![cur] = "bare"] /\ pid' = [pid EXCEPT ![cur] = NoPid]
    BY <1>11, <2>2, FaultType DEF TypeOK, RemoveFails, system, Stage
  <2> QED BY <1>11, <2>1, <2>2 DEF RemoveFails
<1>12. CASE Launch
  BY <1>12 DEF TypeOK, Launch, Fresh, disk, system, Stage, NoListing, NoJob
<1>13. ASSUME NEW n \in Name, CloneTree(n) PROVE TypeOK'
  BY <1>13 DEF TypeOK, CloneTree, system, loop, NoJob
<1>14. ASSUME NEW n \in Name, CloneTreeFails(n) PROVE TypeOK'
  BY <1>14, FaultType DEF TypeOK, CloneTreeFails, system, loop, NoJob
<1>15. ASSUME NEW n \in Name, PrepareFails(n) PROVE TypeOK'
  BY <1>15, FaultType DEF TypeOK, PrepareFails, NoFault, system, loop, NoJob
<1>16. ASSUME NEW n \in Name, Start(n) PROVE TypeOK'
  <2>1. PICK p \in Pid : /\ proc[p] = Free /\ Reusing(p)
                         /\ proc' = [proc EXCEPT ![p] = [Free EXCEPT !.who = n, !.state = "child"]]
    BY <1>16 DEF Start
  <2>2. spent' \in Nat
    BY <2>1, FaultType DEF TypeOK, Reusing, NoFault
  <2>3. proc' \in [Pid -> Process]
    BY <2>1 DEF TypeOK, Process, Free
  <2> QED BY <1>16, <2>1, <2>2, <2>3 DEF TypeOK, Start, disk, loop, NoJob
<1>17. ASSUME NEW n \in Name, Record(n) PROVE TypeOK'
  BY <1>17 DEF TypeOK, Record, loop, NoJob
<1>18. ASSUME NEW n \in Name, RecordFails(n) PROVE TypeOK'
  <2>1. PICK p \in Pid : proc[p].who = n /\ Signal(p, n)
    BY <1>18 DEF RecordFails
  <2>2. proc' \in [Pid -> Process]
    BY <2>1, SignalType
  <2> QED BY <1>18, <2>2, FaultType DEF TypeOK, RecordFails, loop, NoJob
<1>19. CASE Launched
  BY <1>19 DEF TypeOK, Launched, disk, system, Stage
<1>20. ASSUME NEW p \in Pid, Exit(p) PROVE TypeOK'
  <2>1. proc' \in [Pid -> Process]
    BY <1>20 DEF TypeOK, Exit, Process, Free
  <2> QED BY <1>20, <2>1 DEF TypeOK, Exit, disk, loop
<1>21. ASSUME NEW p \in Pid, Wait(p) PROVE TypeOK'
  <2>1. proc' \in [Pid -> Process]
    BY <1>21 DEF TypeOK, Wait, Process, Free
  <2> QED BY <1>21, <2>1 DEF TypeOK, Wait, disk, loop
<1>22. ASSUME NEW p \in Pid, Recycle(p) PROVE TypeOK'
  <2>1. proc' \in [Pid -> Process]
    BY <1>22 DEF TypeOK, Recycle, Process, Free
  <2>2. spent' \in Nat
    BY <1>22, FaultType DEF TypeOK, Recycle, NoFault
  <2> QED BY <1>22, <2>1, <2>2 DEF TypeOK, Recycle, disk, loop
<1>23. ASSUME NEW p \in Pid, StrangerExits(p) PROVE TypeOK'
  <2>1. proc' \in [Pid -> Process]
    BY <1>23 DEF TypeOK, StrangerExits, Process, Free
  <2> QED BY <1>23, <2>1 DEF TypeOK, StrangerExits, disk, loop
<1>24. CASE Stop
  <2>1. proc' \in [Pid -> Process]
    BY <1>24 DEF TypeOK, Stop, Process, Free
  <2>2. spent' \in Nat
    BY <1>24, FaultType DEF Stop
  <2> QED BY <1>24, <2>1, <2>2 DEF TypeOK, Stop, disk, Stage, NoJob, NoListing
<1>25. CASE Restart
  BY <1>25 DEF TypeOK, Restart, disk, system, Stage
<1>26. CASE UNCHANGED vars
  BY <1>26 DEF TypeOK, vars, disk, system, loop
<1> QED
  BY <1>1, <1>2, <1>3, <1>4, <1>5, <1>6, <1>7, <1>8, <1>9, <1>10, <1>11, <1>12, <1>13,
     <1>14, <1>15, <1>16, <1>17, <1>18, <1>19, <1>20, <1>21, <1>22, <1>23, <1>24, <1>25,
     <1>26 DEF Next, LoopStep, LaunchStep

(* State files, processes and the loop's variables keep their types, and   *)
(* the loop works on recorded instances only (TypeOK).                     *)
THEOREM ProcessesTyped == Spec => []TypeOK
  BY TypeInit, TypeStep, PTL DEF Spec

---------------------------------------------------------------------------
(* Whom Destroy signals *)

(* The process that a state file names is its runner or, once that has     *)
(* exited, nobody or another program; what was verified since the start of *)
(* the daemon is not another program; only verified processes are          *)
(* signalled.                                                              *)
RecordsAreHonest ==
  \A n \in Name : pid[n] # NoPid => proc[pid[n]].who \in {n, NoName, Stranger}

AnswersAreTrue ==
  /\ \A n \in Name : <<pid[n], n, TRUE>> \in seen => proc[pid[n]].who \in {n, NoName}
  /\ stage = "down" => seen = {}

OnlyVerifiedAreSignalled ==
  stage \in {"term", "await", "awaitKilled"} => <<pid[cur], cur, TRUE>> \in seen

SignalInv ==
  /\ SignalsOnlyItsRunner
  /\ RecordsAreHonest
  /\ AnswersAreTrue
  /\ OnlyVerifiedAreSignalled

LEMMA SignalInit == Init => SignalInv
  BY NamesAssumption
  DEF Init, SignalInv, SignalsOnlyItsRunner, RecordsAreHonest, AnswersAreTrue,
      OnlyVerifiedAreSignalled, Free

(* Verifying keeps the answers true, as ps tells another program apart. *)
LEMMA MatchesIsTrue ==
  ASSUME TypeOK, SignalInv, NEW n \in Name, pid[n] \in Pid,
         NEW yes \in BOOLEAN, Matches(pid[n], n, yes), UNCHANGED <<proc, pid>>,
         stage # "down", stage' # "down"
  PROVE  /\ AnswersAreTrue'
         /\ <<pid[n], n, yes>> \in seen'
<1>1. seen' = seen \cup {<<pid[n], n, yes>>}
  BY DEF Matches
<1>2. yes => proc[pid[n]].who \in {n, NoName}
  <2> SUFFICES ASSUME yes = TRUE PROVE proc[pid[n]].who \in {n, NoName}
    OBVIOUS
  <2>1. CASE Ps(pid[n])
    BY <2>1, PidsAssumption DEF Ps, SignalInv, RecordsAreHonest
  <2>2. CASE <<pid[n], n, TRUE>> \in seen
    BY <2>2 DEF SignalInv, AnswersAreTrue
  <2> QED BY <2>1, <2>2 DEF Matches
<1>3. ASSUME NEW m \in Name, <<pid[m], m, TRUE>> \in seen'
      PROVE  proc[pid[m]].who \in {m, NoName}
  <2>1. CASE <<pid[m], m, TRUE>> \in seen
    BY <2>1 DEF SignalInv, AnswersAreTrue
  <2>2. CASE <<pid[m], m, TRUE>> = <<pid[n], n, yes>>
    BY <2>2, <1>2
  <2> QED BY <1>1, <1>3, <2>1, <2>2
<1> QED BY <1>1, <1>3 DEF AnswersAreTrue

(* A step in which every process keeps its owner, or loses it by exiting,  *)
(* and which neither records, remembers nor signals.                       *)
LEMMA NothingNew ==
  ASSUME TypeOK, SignalInv,
         \A p \in Pid : \/ proc'[p].who = proc[p].who /\ proc'[p].for = proc[p].for
                        \/ proc'[p] = Free,
         \A n \in Name : pid'[n] \in {pid[n], NoPid},
         seen' \subseteq seen,
         stage' = "down" => seen' = {},
         stage' \in {"term", "await", "awaitKilled"} => <<pid'[cur'], cur', TRUE>> \in seen'
  PROVE  SignalInv'
<1> USE NamesAssumption, PidsAssumption
<1>1. SignalsOnlyItsRunner'
  BY DEF SignalInv, SignalsOnlyItsRunner, Free
<1>2. RecordsAreHonest'
  BY DEF TypeOK, SignalInv, RecordsAreHonest, Free
<1>3. AnswersAreTrue'
  <2> SUFFICES ASSUME NEW n \in Name, <<pid'[n], n, TRUE>> \in seen'
               PROVE  proc'[pid'[n]].who \in {n, NoName}
    BY DEF AnswersAreTrue
  <2>1. <<pid'[n], n, TRUE>> \in Pid \X Name \X BOOLEAN
    BY DEF TypeOK
  <2>2. pid'[n] = pid[n] /\ pid[n] \in Pid
    BY <2>1
  <2>3. proc[pid[n]].who \in {n, NoName}
    BY <2>2 DEF SignalInv, AnswersAreTrue
  <2>4. proc'[pid[n]].who = proc[pid[n]].who \/ proc'[pid[n]].who = NoName
    BY <2>2 DEF Free
  <2> QED BY <2>2, <2>3, <2>4
<1>4. OnlyVerifiedAreSignalled'
  BY DEF OnlyVerifiedAreSignalled
<1> QED BY <1>1, <1>2, <1>3, <1>4 DEF SignalInv

(* A process that is signalled for an instance is its runner. *)
LEMMA SignalIsMeant ==
  ASSUME TypeOK, SignalInv, NEW n \in Name, NEW p \in Pid, Signal(p, n),
         proc[p].who \in {n, NoName}
  PROVE  SignalsOnlyItsRunner'
  BY DEF TypeOK, Process, SignalInv, SignalsOnlyItsRunner, Signal, Alive

(* A signal leaves the owners of processes as they are. *)
LEMMA OwnersKept ==
  ASSUME TypeOK, SignalInv, SignalsOnlyItsRunner',
         \A q \in Pid : proc'[q].who = proc[q].who,
         UNCHANGED <<pid, seen>>,
         stage' = "down" => seen = {},
         stage' \in {"term", "await", "awaitKilled"} => <<pid[cur'], cur', TRUE>> \in seen
  PROVE  SignalInv'
<1>1. ASSUME NEW n \in Name, <<pid[n], n, TRUE>> \in seen
      PROVE  pid[n] \in Pid
  <2>1. <<pid[n], n, TRUE>> \in Pid \X Name \X BOOLEAN
    BY <1>1 DEF TypeOK
  <2> QED BY <2>1
<1>2. RecordsAreHonest'
  BY DEF TypeOK, SignalInv, RecordsAreHonest
<1>3. AnswersAreTrue'
  BY <1>1 DEF SignalInv, AnswersAreTrue
<1>4. OnlyVerifiedAreSignalled'
  BY DEF OnlyVerifiedAreSignalled
<1> QED BY <1>2, <1>3, <1>4 DEF SignalInv

LEMMA SignalStep ==
  ASSUME "reuse" \notin Faults, TypeOK, SignalInv, [Next]_vars
  PROVE  SignalInv'
<1> USE NamesAssumption, PidsAssumption
<1>2. CASE \/ BeginList \/ Listed \/ ExitSeen \/ GiveUp \/ Launched \/ Restart
           \/ \E n \in Name : Look(n) \/ Destroy(n)
  <2>1. UNCHANGED <<proc, pid, seen>>
    BY <1>2 DEF BeginList, Listed, ExitSeen, GiveUp, Launched, Restart, Look, Destroy, disk, system
  <2>2. stage' \in {"list", "verify", "reap", "check", "remove", "idle"}
    <3>1. CASE BeginList \/ Listed \/ ExitSeen \/ GiveUp \/ Launched \/ Restart
      BY <3>1 DEF BeginList, Listed, ExitSeen, GiveUp, Launched, Restart
    <3>2. ASSUME NEW n \in Name, Look(n) PROVE stage' \in {"list", "verify"}
      BY <3>2 DEF Look
    <3>3. ASSUME NEW n \in Name, Destroy(n) PROVE stage' \in {"check", "remove"}
      BY <3>3 DEF Destroy
    <3> QED BY <1>2, <3>1, <3>2, <3>3
  <2>3. CASE stage' \in {"list", "verify", "reap", "check", "idle"}
    BY <2>1, <2>3, NothingNew
  <2>4. CASE stage' = "remove"
    BY <2>1, <2>4, NothingNew
  <2> QED BY <2>2, <2>3, <2>4
<1>3. CASE Verify \/ Check
  <2>1. /\ cur \in Name /\ pid[cur] \in Pid
        /\ stage # "down" /\ stage' # "down"
        /\ UNCHANGED <<proc, pid>>
    BY <1>3 DEF TypeOK, Verify, Check, disk, system
  <2>2. PICK yes \in BOOLEAN :
          /\ Matches(pid[cur], cur, yes)
          /\ stage' \in {"term", "await", "awaitKilled"} => yes /\ cur' = cur
    BY <1>3 DEF Verify, Check
  <2>3. AnswersAreTrue' /\ <<pid[cur], cur, yes>> \in seen'
    BY <2>1, <2>2, MatchesIsTrue
  <2> QED
    BY <2>1, <2>2, <2>3
    DEF SignalInv, SignalsOnlyItsRunner, RecordsAreHonest, OnlyVerifiedAreSignalled
<1>4. CASE Terminate \/ Kill
  <2>1. /\ cur \in Name /\ pid[cur] \in Pid /\ Signal(pid[cur], cur)
        /\ stage \in {"term", "await"} /\ stage' \in {"await", "awaitKilled"}
        /\ UNCHANGED <<pid, seen, cur>>
    BY <1>4 DEF TypeOK, Terminate, Kill, disk
  <2>2. proc[pid[cur]].who \in {cur, NoName}
    BY <2>1 DEF SignalInv, AnswersAreTrue, OnlyVerifiedAreSignalled
  <2>3. SignalsOnlyItsRunner'
    BY <2>1, <2>2, SignalIsMeant
  <2>4. \A q \in Pid : proc'[q].who = proc[q].who
    BY <2>1, SignalType
  <2>5. SignalInv'
    BY <2>1, <2>3, <2>4, OwnersKept DEF SignalInv, OnlyVerifiedAreSignalled
  <2> QED BY <2>5
<1>5. CASE Remove \/ RemoveFails
  <2>1. /\ \A n \in Name : pid'[n] \in {pid[n], NoPid}
        /\ UNCHANGED <<proc, seen>> /\ stage' = "reap"
    BY <1>5 DEF TypeOK, Remove, RemoveFails, disk, system
  <2> QED BY <2>1, NothingNew
<1>6. CASE Launch
  <2>1. seen' \subseteq seen /\ stage' = "launch" /\ UNCHANGED <<proc, pid>>
    BY <1>6 DEF Launch, disk, system
  <2> QED BY <2>1, NothingNew
<1>7. ASSUME NEW n \in Name, CloneTree(n) \/ CloneTreeFails(n) \/ PrepareFails(n)
      PROVE  SignalInv'
  <2>1. UNCHANGED <<proc, pid, seen, stage, cur>>
    BY <1>7 DEF CloneTree, CloneTreeFails, PrepareFails, system, loop
  <2> QED BY <2>1, NothingNew DEF SignalInv, AnswersAreTrue, OnlyVerifiedAreSignalled
<1>8. ASSUME NEW n \in Name, Start(n) PROVE SignalInv'
  <2>1. PICK p \in Pid : /\ proc[p] = Free /\ Reusing(p)
                         /\ proc' = [proc EXCEPT ![p] = [Free EXCEPT !.who = n, !.state = "child"]]
    BY <1>8 DEF Start
  <2>2. \A m \in Name : pid[m] # p
    BY <2>1 DEF Reusing, Fault, Recorded
  <2>3. UNCHANGED <<pid, seen, stage, cur>>
    BY <1>8 DEF Start, disk, loop
  <2>4. proc'[p].for = NoName /\ \A q \in Pid \ {p} : proc'[q] = proc[q]
    BY <2>1 DEF TypeOK, Free
  <2>5. \A m \in Name : pid[m] # NoPid => proc'[pid[m]] = proc[pid[m]]
    BY <2>2, <2>4 DEF TypeOK
  <2>6. \A m \in Name : <<pid[m], m, TRUE>> \in seen => pid[m] # NoPid
    BY DEF TypeOK
  <2> QED
    BY <2>3, <2>4, <2>5, <2>6
    DEF SignalInv, SignalsOnlyItsRunner, RecordsAreHonest, AnswersAreTrue, OnlyVerifiedAreSignalled
<1>9. ASSUME NEW n \in Name, Record(n) PROVE SignalInv'
  <2>1. PICK p \in Pid : proc[p].who = n /\ pid' = [pid EXCEPT ![n] = p]
    BY <1>9 DEF Record
  <2>2. stage = "launch" /\ UNCHANGED <<proc, seen, stage, cur>>
    BY <1>9 DEF TypeOK, Record, loop, NoJob
  <2> QED
    BY <2>1, <2>2
    DEF TypeOK, SignalInv, SignalsOnlyItsRunner, RecordsAreHonest, AnswersAreTrue, OnlyVerifiedAreSignalled
<1>10. ASSUME NEW n \in Name, RecordFails(n) PROVE SignalInv'
  <2>1. PICK p \in Pid : proc[p].who = n /\ Signal(p, n)
    BY <1>10 DEF RecordFails
  <2>2. UNCHANGED <<pid, seen, stage, cur>>
    BY <1>10 DEF RecordFails, loop
  <2>3. SignalsOnlyItsRunner'
    BY <2>1, SignalIsMeant
  <2>4. \A q \in Pid : proc'[q].who = proc[q].who
    BY <2>1, SignalType
  <2> QED BY <2>2, <2>3, <2>4, OwnersKept DEF SignalInv, AnswersAreTrue, OnlyVerifiedAreSignalled
<1>11. ASSUME NEW p \in Pid, Exit(p) \/ Wait(p) \/ StrangerExits(p) PROVE SignalInv'
  <2>1. \A q \in Pid : \/ proc'[q].who = proc[q].who /\ proc'[q].for = proc[q].for
                       \/ proc'[q] = Free
    BY <1>11 DEF TypeOK, Process, Exit, Wait, StrangerExits
  <2>2. UNCHANGED <<pid, seen, stage, cur>>
    BY <1>11 DEF Exit, Wait, StrangerExits, disk, loop
  <2> QED BY <2>1, <2>2, NothingNew DEF SignalInv, AnswersAreTrue, OnlyVerifiedAreSignalled
<1>12. ASSUME NEW p \in Pid, Recycle(p) PROVE SignalInv'
  <2>1. stage = "down" /\ seen = {}
    BY <1>12 DEF Recycle, Fault, SignalInv, AnswersAreTrue
  <2>2. /\ proc' = [proc EXCEPT ![p] = [Free EXCEPT !.who = Stranger, !.state = "orphan"]]
        /\ UNCHANGED <<pid, seen, stage, cur>>
    BY <1>12 DEF Recycle, disk, loop
  <2>3. proc'[p].for = NoName /\ proc'[p].who = Stranger /\ \A q \in Pid \ {p} : proc'[q] = proc[q]
    BY <2>2 DEF TypeOK, Free
  <2> QED
    BY <2>1, <2>2, <2>3
    DEF TypeOK, SignalInv, SignalsOnlyItsRunner, RecordsAreHonest, AnswersAreTrue, OnlyVerifiedAreSignalled
<1>13. CASE Stop
  <2>1. \A q \in Pid : \/ proc'[q].who = proc[q].who /\ proc'[q].for = proc[q].for
                       \/ proc'[q] = Free
    BY <1>13 DEF TypeOK, Process, Stop
  <2>2. seen' = {} /\ stage' = "down" /\ UNCHANGED pid
    BY <1>13 DEF Stop, disk
  <2> QED BY <2>1, <2>2, NothingNew
<1>14. CASE UNCHANGED vars
  <2>1. UNCHANGED <<proc, pid, seen, stage, cur>>
    BY <1>14 DEF vars, disk, system, loop
  <2> QED BY <2>1, NothingNew DEF SignalInv, AnswersAreTrue, OnlyVerifiedAreSignalled
<1> QED
  BY <1>2, <1>3, <1>4, <1>5, <1>6, <1>7, <1>8, <1>9, <1>10, <1>11, <1>12, <1>13, <1>14
  DEF Next, LoopStep, LaunchStep

(* Destroying an instance never signals anybody but its runner, although   *)
(* ids are given to other programs while the daemon is down, as long as    *)
(* none is while the daemon runs (processMatches, Destroy).                *)
THEOREM OnlyItsRunnerIsSignalled ==
  ASSUME "reuse" \notin Faults
  PROVE  Spec => []SignalsOnlyItsRunner
<1>1. Init => TypeOK /\ SignalInv
  BY TypeInit, SignalInit
<1>2. (TypeOK /\ SignalInv) /\ [Next]_vars => (TypeOK /\ SignalInv)'
  BY TypeStep, SignalStep
<1>3. TypeOK /\ SignalInv => SignalsOnlyItsRunner
  BY DEF SignalInv
<1> QED BY <1>1, <1>2, <1>3, PTL DEF Spec

---------------------------------------------------------------------------
(* What List reports *)

(* The instance has no runner but one that was told to stop. *)
Over(n) == \A p \in Pid : Runs(n, p) => proc[p].for # NoName

(* A runner is named by its state file, about to be recorded, or told to   *)
(* stop.                                                                   *)
RunnersAreKnown ==
  \A n \in Name, p \in Pid :
    Runs(n, p) => pid[n] = p \/ job[n] = "record" \/ proc[p].for # NoName

OneProcessEach ==
  \A n \in Name, p, q \in Pid : proc[p].who = n /\ proc[q].who = n => p = q

(* Nothing is known of an instance that is launched. *)
LaunchedAfresh ==
  \A n \in Name :
    /\ job[n] \in {"clone", "start"} => \A p \in Pid : proc[p].who # n
    /\ job[n] # "none" => \A p \in Pid, b \in BOOLEAN : <<p, n, b>> \notin seen

(* A process that did not match does not come to match. *)
OthersStayOthers ==
  \A n \in Name : <<pid[n], n, FALSE>> \in seen => proc[pid[n]].who # n

AwaitedIsTold ==
  stage \in {"await", "awaitKilled"} /\ Alive(pid[cur]) => proc[pid[cur]].for # NoName

RemovedIsOver == stage = "remove" => Over(cur)

GoneIsOver ==
  /\ \A n \in Name : Gone(n) => Over(n)
  /\ stage \in {"down", "idle", "launch"} => listing = NoListing

GoneInv ==
  /\ RunnersAreKnown /\ OneProcessEach /\ LaunchedAfresh /\ OthersStayOthers
  /\ AwaitedIsTold /\ RemovedIsOver /\ GoneIsOver

LEMMA GoneInit == Init => GoneInv
<1> SUFFICES ASSUME Init PROVE GoneInv
  OBVIOUS
<1> USE NamesAssumption DEF Init, Free, NoJob, NoListing
<1>1. \A n \in Name, p \in Pid : proc[p].who # n
  OBVIOUS
<1>2. \A n \in Name : ~Gone(n)
  BY DEF Gone
<1>3. RunnersAreKnown /\ OneProcessEach /\ LaunchedAfresh /\ OthersStayOthers
  BY <1>1 DEF RunnersAreKnown, Runs, OneProcessEach, LaunchedAfresh, OthersStayOthers
<1>4. AwaitedIsTold /\ RemovedIsOver /\ GoneIsOver
  BY <1>2 DEF AwaitedIsTold, RemovedIsOver, GoneIsOver
<1> QED BY <1>3, <1>4 DEF GoneInv

(* An instance without a state file, or whose recorded process does not    *)
(* exist or is another's, is over.                                         *)
LEMMA UnrecordedIsOver ==
  ASSUME TypeOK, GoneInv, NEW n \in Name, job[n] = "none",
         dir[n] = "stated" /\ Alive(pid[n]) => proc[pid[n]].who # n
  PROVE  Over(n)
<1> SUFFICES ASSUME NEW p \in Pid, Runs(n, p), proc[p].for = NoName PROVE FALSE
  BY DEF Over
<1>1. pid[n] = p
  BY DEF GoneInv, RunnersAreKnown
<1>2. dir[n] = "stated" /\ Alive(pid[n]) /\ proc[pid[n]].who = n
  BY <1>1, NamesAssumption, PidsAssumption DEF TypeOK, Alive, Runs
<1> QED BY <1>2

(* Processes that exit or are told to stop, and memory that is forgotten,  *)
(* disturb nothing.                                                        *)
LEMMA NothingStarts ==
  ASSUME TypeOK, GoneInv,
         \A p \in Pid : \/ proc'[p].who \notin Name
                        \/ /\ proc'[p].who = proc[p].who
                           /\ proc[p].state = "zombie" => proc'[p].state = "zombie"
                           /\ proc[p].for # NoName => proc'[p].for # NoName,
         UNCHANGED pid,
         seen' \subseteq seen,
         \A n \in Name : \/ job'[n] = job[n]
                         \/ job[n] = "clone" /\ job'[n] = "start"
                         \/ job'[n] = "none" /\ (job[n] = "record" => Over(n)')
  PROVE  /\ RunnersAreKnown' /\ OneProcessEach' /\ LaunchedAfresh' /\ OthersStayOthers'
         /\ \A n \in Name : Over(n) => Over(n)'
<1> USE NamesAssumption, PidsAssumption
<1>1. ASSUME NEW n \in Name, NEW p \in Pid, proc'[p].who = n
      PROVE  /\ proc[p].who = n
             /\ proc[p].state = "zombie" => proc'[p].state = "zombie"
             /\ proc[p].for # NoName => proc'[p].for # NoName
  BY <1>1 DEF Free
<1>2. RunnersAreKnown'
  BY <1>1 DEF GoneInv, RunnersAreKnown, Runs, Over
<1>3. OneProcessEach'
  BY <1>1 DEF GoneInv, OneProcessEach
<1>4. LaunchedAfresh'
  BY <1>1 DEF GoneInv, LaunchedAfresh
<1>5. OthersStayOthers'
  <2> SUFFICES ASSUME NEW n \in Name, <<pid[n], n, FALSE>> \in seen, proc'[pid[n]].who = n
               PROVE  FALSE
    BY DEF OthersStayOthers
  <2>1. <<pid[n], n, FALSE>> \in Pid \X Name \X BOOLEAN
    BY DEF TypeOK
  <2>2. pid[n] \in Pid
    BY <2>1
  <2> QED BY <2>2, <1>1 DEF GoneInv, OthersStayOthers
<1>6. \A n \in Name : Over(n) => Over(n)'
  BY <1>1 DEF Over, Runs
<1> QED BY <1>2, <1>3, <1>4, <1>5, <1>6

(* Only what is not the runner of the instance is taken for a mismatch. *)
LEMMA MatchesIsHonest ==
  ASSUME TypeOK, GoneInv, NEW n \in Name, pid[n] \in Pid, job = NoJob,
         NEW yes \in BOOLEAN, Matches(pid[n], n, yes), UNCHANGED <<proc, pid, job>>
  PROVE  /\ ~yes => proc[pid[n]].who # n
         /\ RunnersAreKnown' /\ OneProcessEach' /\ LaunchedAfresh' /\ OthersStayOthers'
<1>1. seen' = seen \cup {<<pid[n], n, yes>>}
  BY DEF Matches
<1>2. ~yes => proc[pid[n]].who # n
  <2> SUFFICES ASSUME yes = FALSE PROVE proc[pid[n]].who # n
    OBVIOUS
  <2>1. CASE <<pid[n], n, FALSE>> \in seen
    BY <2>1 DEF GoneInv, OthersStayOthers
  <2>2. CASE ~Ps(pid[n])
    BY <2>2, NamesAssumption DEF Ps
  <2>3. <<pid[n], n, FALSE>> \in seen \/ ~Ps(pid[n])
    BY DEF Matches
  <2> QED BY <2>1, <2>2, <2>3
<1>3. OthersStayOthers'
  <2> SUFFICES ASSUME NEW m \in Name, <<pid[m], m, FALSE>> \in seen'
               PROVE  proc[pid[m]].who # m
    BY DEF OthersStayOthers
  <2>1. CASE <<pid[m], m, FALSE>> \in seen
    BY <2>1 DEF GoneInv, OthersStayOthers
  <2>2. CASE <<pid[m], m, FALSE>> = <<pid[n], n, yes>>
    BY <2>2, <1>2
  <2> QED BY <1>1, <2>1, <2>2
<1>4. LaunchedAfresh'
  BY DEF LaunchedAfresh, NoJob
<1>5. RunnersAreKnown' /\ OneProcessEach'
  BY DEF GoneInv, RunnersAreKnown, OneProcessEach, Runs
<1> QED BY <1>2, <1>3, <1>4, <1>5

(* While runners are launched, nothing is listed, awaited or removed. *)
LEMMA LaunchingIsApart ==
  ASSUME GoneInv, stage \in {"down", "idle", "launch"}, UNCHANGED <<stage, listing>>
  PROVE  AwaitedIsTold' /\ RemovedIsOver' /\ GoneIsOver'
  BY DEF GoneInv, AwaitedIsTold, RemovedIsOver, GoneIsOver, Gone, NoListing

LEMMA GoneStep ==
  ASSUME "reuse" \notin Faults, "unrecorded" \notin Faults,
         TypeOK, SignalInv, GoneInv, [Next]_vars
  PROVE  GoneInv'
<1> USE NamesAssumption, PidsAssumption
<1>1. ASSUME UNCHANGED <<proc, pid, seen, job>>
      PROVE  /\ RunnersAreKnown' /\ OneProcessEach' /\ LaunchedAfresh' /\ OthersStayOthers'
             /\ \A n \in Name : Over(n) => Over(n)'
  BY <1>1, NothingStarts
<1>2. CASE BeginList \/ Listed \/ Launched \/ Restart
  <2>1. UNCHANGED <<proc, pid, seen, job, listing>>
    BY <1>2 DEF BeginList, Listed, Launched, Restart, disk, system
  <2>2. stage' \in {"list", "reap", "idle"} /\ (stage' = "idle" => stage \in {"launch", "down"})
    BY <1>2 DEF BeginList, Listed, Launched, Restart
  <2>3. AwaitedIsTold' /\ RemovedIsOver'
    BY <2>2 DEF AwaitedIsTold, RemovedIsOver
  <2>4. GoneIsOver'
    BY <2>1, <2>2, <1>1 DEF GoneInv, GoneIsOver, Gone
  <2> QED BY <2>1, <2>3, <2>4, <1>1 DEF GoneInv
<1>3. ASSUME NEW n \in Name, Look(n) PROVE GoneInv'
  <2>1. UNCHANGED <<proc, pid, seen, job>> /\ stage' \in {"list", "verify"} /\ stage = "list"
    BY <1>3 DEF Look, disk, system
  <2>2. AwaitedIsTold' /\ RemovedIsOver'
    BY <2>1 DEF AwaitedIsTold, RemovedIsOver
  <2>3. \/ UNCHANGED listing
        \/ ~(dir[n] = "stated" /\ Alive(pid[n])) /\ \A m \in Name \ {n} : listing'[m] = listing[m]
    BY <1>3 DEF Look, TypeOK
  <2>4. job[n] = "none"
    BY <2>1 DEF TypeOK, NoJob
  <2>5. ~(dir[n] = "stated" /\ Alive(pid[n])) => Over(n)
    BY <2>4, UnrecordedIsOver
  <2>6. GoneIsOver'
    BY <2>1, <2>3, <2>5, <1>1 DEF GoneInv, GoneIsOver, Gone
  <2> QED BY <2>1, <2>2, <2>6, <1>1 DEF GoneInv
<1>4. CASE Verify
  <2>1. /\ cur \in Name /\ pid[cur] \in Pid /\ job = NoJob /\ stage' = "list"
        /\ UNCHANGED <<proc, pid, job>>
    BY <1>4 DEF TypeOK, Verify, disk, system
  <2>2. PICK yes \in BOOLEAN :
          /\ Matches(pid[cur], cur, yes)
          /\ listing' = [listing EXCEPT ![cur] = IF yes THEN "running" ELSE "exited"]
    BY <1>4 DEF Verify
  <2>3. /\ ~yes => proc[pid[cur]].who # cur
        /\ RunnersAreKnown' /\ OneProcessEach' /\ LaunchedAfresh' /\ OthersStayOthers'
    BY <2>1, <2>2, MatchesIsHonest
  <2>4. AwaitedIsTold' /\ RemovedIsOver'
    BY <2>1 DEF AwaitedIsTold, RemovedIsOver
  <2>5. ~yes => Over(cur)
    BY <2>1, <2>3, UnrecordedIsOver DEF NoJob
  <2>6. \A n \in Name : Over(n) => Over(n)'
    BY <2>1 DEF Over, Runs
  <2>7. \A n \in Name : Gone(n)' => Over(n)
    BY <2>1, <2>2, <2>5 DEF TypeOK, GoneInv, GoneIsOver, Gone
  <2>8. GoneIsOver'
    BY <2>1, <2>6, <2>7 DEF GoneIsOver
  <2> QED BY <2>3, <2>4, <2>8 DEF GoneInv
<1>5. ASSUME NEW n \in Name, Destroy(n) PROVE GoneInv'
  <2>1. /\ UNCHANGED <<proc, pid, seen, job, listing>> /\ cur' = n
        /\ stage = "reap" /\ stage' \in {"check", "remove"}
        /\ stage' = "remove" => ~(dir[n] = "stated" /\ Alive(pid[n]))
    BY <1>5 DEF Destroy, disk, system
  <2>2. stage' = "remove" => Over(n)
    BY <2>1, UnrecordedIsOver DEF TypeOK, NoJob
  <2>3. AwaitedIsTold' /\ RemovedIsOver'
    BY <2>1, <2>2, <1>1 DEF AwaitedIsTold, RemovedIsOver
  <2>4. GoneIsOver'
    BY <2>1, <1>1 DEF GoneInv, GoneIsOver, Gone
  <2> QED BY <2>1, <2>3, <2>4, <1>1 DEF GoneInv
<1>6. CASE Check
  <2>1. /\ cur \in Name /\ pid[cur] \in Pid /\ job = NoJob
        /\ stage' \in {"term", "remove"}
        /\ UNCHANGED <<proc, pid, job, cur, listing>>
    BY <1>6 DEF TypeOK, Check, disk, system
  <2>2. PICK yes \in BOOLEAN : Matches(pid[cur], cur, yes) /\ (yes <=> stage' = "term")
    BY <1>6 DEF Check
  <2>3. /\ ~yes => proc[pid[cur]].who # cur
        /\ RunnersAreKnown' /\ OneProcessEach' /\ LaunchedAfresh' /\ OthersStayOthers'
    BY <2>1, <2>2, MatchesIsHonest
  <2>4. ~yes => Over(cur)
    BY <2>1, <2>3, UnrecordedIsOver DEF NoJob
  <2>5. \A n \in Name : Over(n) => Over(n)'
    BY <2>1 DEF Over, Runs
  <2>6. AwaitedIsTold' /\ RemovedIsOver'
    BY <2>1, <2>2, <2>4, <2>5 DEF AwaitedIsTold, RemovedIsOver
  <2>7. GoneIsOver'
    BY <2>1, <2>5 DEF GoneInv, GoneIsOver, Gone
  <2> QED BY <2>3, <2>6, <2>7 DEF GoneInv
<1>7. CASE Terminate \/ Kill
  <2>1. /\ cur \in Name /\ pid[cur] \in Pid /\ Signal(pid[cur], cur)
        /\ stage' \in {"await", "awaitKilled"}
        /\ UNCHANGED <<pid, seen, cur, listing, job>>
    BY <1>7 DEF TypeOK, Terminate, Kill, disk
  <2>2. \A q \in Pid : /\ proc'[q].who = proc[q].who /\ proc'[q].state = proc[q].state
                       /\ proc'[q].for # proc[q].for => q = pid[cur] /\ proc'[q].for = cur
                       /\ q = pid[cur] /\ Alive(q) => proc'[q].for # NoName
    BY <2>1, SignalType
  <2>3. /\ RunnersAreKnown' /\ OneProcessEach' /\ LaunchedAfresh' /\ OthersStayOthers'
        /\ \A n \in Name : Over(n) => Over(n)'
    BY <2>1, <2>2, NothingStarts
  <2>4. AwaitedIsTold' /\ RemovedIsOver'
    BY <2>1, <2>2 DEF AwaitedIsTold, RemovedIsOver, Alive
  <2>5. GoneIsOver'
    BY <2>1, <2>3 DEF GoneInv, GoneIsOver, Gone
  <2> QED BY <2>3, <2>4, <2>5 DEF GoneInv
<1>8. CASE ExitSeen \/ GiveUp
  <2>1. /\ UNCHANGED <<proc, pid, seen, job, listing, cur>> /\ stage' = "remove"
        /\ stage \in {"await", "awaitKilled"} /\ cur \in Name /\ job = NoJob
    BY <1>8 DEF TypeOK, ExitSeen, GiveUp, disk, system
  <2>2. Over(cur)
    <3>1. CASE ~Alive(pid[cur])
      BY <2>1, <3>1, UnrecordedIsOver DEF NoJob
    <3>2. CASE Alive(pid[cur])
      BY <2>1, <3>2 DEF GoneInv, RunnersAreKnown, AwaitedIsTold, Over, NoJob
    <3> QED BY <3>1, <3>2
  <2>3. AwaitedIsTold' /\ RemovedIsOver'
    BY <2>1, <2>2, <1>1 DEF AwaitedIsTold, RemovedIsOver
  <2>4. GoneIsOver'
    BY <2>1, <1>1 DEF GoneInv, GoneIsOver, Gone
  <2> QED BY <2>1, <2>3, <2>4, <1>1 DEF GoneInv
<1>9. CASE Remove \/ RemoveFails
  <2>1. /\ stage = "remove" /\ cur \in Name /\ job = NoJob /\ stage' = "reap"
        /\ UNCHANGED <<proc, seen, job, listing>>
        /\ \A n \in Name : pid'[n] # pid[n] => n = cur /\ pid'[n] = NoPid
    BY <1>9 DEF TypeOK, Remove, RemoveFails, disk, system
  <2>2. Over(cur)
    BY <2>1 DEF GoneInv, RemovedIsOver
  <2>3. RunnersAreKnown'
    BY <2>1, <2>2 DEF GoneInv, RunnersAreKnown, Over, Runs
  <2>4. OneProcessEach' /\ LaunchedAfresh'
    BY <2>1 DEF GoneInv, OneProcessEach, LaunchedAfresh
  <2>5. OthersStayOthers'
    <3> SUFFICES ASSUME NEW n \in Name, <<pid'[n], n, FALSE>> \in seen
                 PROVE  proc[pid'[n]].who # n
      BY <2>1 DEF OthersStayOthers
    <3>1. <<pid'[n], n, FALSE>> \in Pid \X Name \X BOOLEAN
      BY DEF TypeOK
    <3>2. pid'[n] = pid[n]
      BY <3>1, <2>1
    <3> QED BY <3>2 DEF GoneInv, OthersStayOthers
  <2>6. AwaitedIsTold' /\ RemovedIsOver'
    BY <2>1 DEF AwaitedIsTold, RemovedIsOver
  <2>7. GoneIsOver'
    BY <2>1 DEF GoneInv, GoneIsOver, Gone, Over, Runs
  <2> QED BY <2>3, <2>4, <2>5, <2>6, <2>7 DEF GoneInv
<1>10. CASE Launch
  <2>1. PICK new \in SUBSET {n \in Name : Fresh(n)} :
          /\ job' = [n \in Name |-> IF n \in new THEN "clone" ELSE "none"]
          /\ seen' = {x \in seen : x[2] \notin new}
    BY <1>10 DEF Launch
  <2>2. /\ UNCHANGED <<proc, pid>> /\ job = NoJob
        /\ stage' = "launch" /\ listing' = NoListing
    BY <1>10 DEF TypeOK, Launch, disk, system
  <2>3. RunnersAreKnown' /\ OneProcessEach' /\ OthersStayOthers'
    BY <2>1, <2>2 DEF GoneInv, RunnersAreKnown, OneProcessEach, OthersStayOthers, Runs, NoJob
  <2>4. LaunchedAfresh'
    BY <2>1, <2>2 DEF LaunchedAfresh, Fresh
  <2>5. AwaitedIsTold' /\ RemovedIsOver' /\ GoneIsOver'
    BY <2>2 DEF AwaitedIsTold, RemovedIsOver, GoneIsOver, Gone, NoListing
  <2> QED BY <2>3, <2>4, <2>5 DEF GoneInv
<1>11. ASSUME NEW n \in Name, LaunchStep(n)
       PROVE  GoneInv'
  <2>1. stage = "launch" /\ UNCHANGED <<stage, listing, seen>>
    BY <1>11 DEF TypeOK, NoJob, LaunchStep, CloneTree, CloneTreeFails, PrepareFails, Start,
                 Record, RecordFails, loop
  <2>2. AwaitedIsTold' /\ RemovedIsOver' /\ GoneIsOver'
    BY <2>1, LaunchingIsApart
  <2>3. CASE CloneTree(n) \/ CloneTreeFails(n) \/ PrepareFails(n)
    <3>1. UNCHANGED <<proc, pid>>
      BY <2>3 DEF CloneTree, CloneTreeFails, PrepareFails, system
    <3>2. \A m \in Name : \/ job'[m] = job[m]
                          \/ job[m] = "clone" /\ job'[m] = "start"
                          \/ job'[m] = "none" /\ job[m] # "record"
      BY <2>3 DEF TypeOK, CloneTree, CloneTreeFails, PrepareFails
    <3> QED BY <2>1, <2>2, <3>1, <3>2, NothingStarts DEF GoneInv
  <2>4. CASE Start(n)
    <3>1. PICK p \in Pid : /\ proc[p] = Free
                           /\ proc' = [proc EXCEPT ![p] = [Free EXCEPT !.who = n, !.state = "child"]]
                           /\ Reusing(p)
      BY <2>4 DEF Start
    <3>2. /\ \A q \in Pid \ {p} : proc'[q] = proc[q]
          /\ proc[p].who = NoName /\ proc'[p].who = n /\ \A m \in Name : pid[m] # p
      BY <3>1 DEF TypeOK, Free, Reusing, Fault, Recorded
    <3>3. /\ UNCHANGED pid /\ job[n] = "start" /\ job'[n] = "record"
          /\ \A m \in Name \ {n} : job'[m] = job[m]
      BY <2>4 DEF TypeOK, Start, disk
    <3>4. \A q \in Pid : proc[q].who # n
      BY <3>3 DEF GoneInv, LaunchedAfresh
    <3>5. RunnersAreKnown' /\ OneProcessEach'
      BY <3>2, <3>3, <3>4 DEF GoneInv, RunnersAreKnown, OneProcessEach, Runs
    <3>6. LaunchedAfresh'
      BY <2>1, <3>2, <3>3 DEF GoneInv, LaunchedAfresh
    <3>7. OthersStayOthers'
      <4> SUFFICES ASSUME NEW m \in Name, <<pid[m], m, FALSE>> \in seen
                   PROVE  proc'[pid[m]].who # m
        BY <2>1, <3>3 DEF OthersStayOthers
      <4>1. <<pid[m], m, FALSE>> \in Pid \X Name \X BOOLEAN
        BY DEF TypeOK
      <4>2. proc'[pid[m]] = proc[pid[m]]
        BY <4>1, <3>2
      <4> QED BY <4>2 DEF GoneInv, OthersStayOthers
    <3> QED BY <2>2, <3>5, <3>6, <3>7 DEF GoneInv
  <2>5. CASE Record(n)
    <3>1. PICK p \in Pid : proc[p].who = n /\ pid' = [pid EXCEPT ![n] = p]
      BY <2>5 DEF Record
    <3>2. /\ UNCHANGED proc /\ job[n] = "record" /\ job'[n] = "none"
          /\ \A m \in Name \ {n} : job'[m] = job[m]
          /\ pid'[n] = p /\ \A m \in Name \ {n} : pid'[m] = pid[m]
      BY <2>5, <3>1 DEF TypeOK, Record
    <3>3. RunnersAreKnown'
      <4> SUFFICES ASSUME NEW m \in Name, NEW q \in Pid, Runs(m, q)
                   PROVE  pid'[m] = q \/ job'[m] = "record" \/ proc[q].for # NoName
        BY <3>2 DEF RunnersAreKnown, Runs
      <4>1. CASE m = n
        BY <4>1, <3>1, <3>2 DEF GoneInv, OneProcessEach, Runs
      <4>2. CASE m # n
        BY <4>2, <3>2 DEF GoneInv, RunnersAreKnown
      <4> QED BY <4>1, <4>2
    <3>4. OneProcessEach' /\ LaunchedAfresh'
      BY <2>1, <3>2 DEF GoneInv, OneProcessEach, LaunchedAfresh
    <3>5. OthersStayOthers'
      <4> SUFFICES ASSUME NEW m \in Name, <<pid'[m], m, FALSE>> \in seen
                   PROVE  proc[pid'[m]].who # m
        BY <2>1, <3>2 DEF OthersStayOthers
      <4>1. m # n
        BY <3>2 DEF GoneInv, LaunchedAfresh
      <4> QED BY <4>1, <3>2 DEF GoneInv, OthersStayOthers
    <3> QED BY <2>2, <3>3, <3>4, <3>5 DEF GoneInv
  <2>6. CASE RecordFails(n)
    <3>1. PICK p \in Pid : proc[p].who = n /\ Signal(p, n)
      BY <2>6 DEF RecordFails
    <3>2. \A q \in Pid : /\ proc'[q].who = proc[q].who /\ proc'[q].state = proc[q].state
                         /\ proc'[q].for # proc[q].for => q = p /\ proc'[q].for = n
                         /\ q = p /\ Alive(q) => proc'[q].for # NoName
      BY <3>1, SignalType
    <3>3. \A m \in Name : m = n => Over(m)'
      BY <3>1, <3>2 DEF GoneInv, OneProcessEach, Over, Runs, Alive
    <3>4. UNCHANGED pid /\ job' = [job EXCEPT ![n] = "none"]
      BY <2>6 DEF RecordFails
    <3>5. RunnersAreKnown' /\ OneProcessEach' /\ LaunchedAfresh' /\ OthersStayOthers'
      <4>1. \A m \in Name : job'[m] = job[m] \/ (job'[m] = "none" /\ Over(m)')
        BY <3>3, <3>4 DEF TypeOK
      <4> QED BY <2>1, <3>2, <3>4, <4>1, NothingStarts
    <3> QED BY <2>2, <3>5 DEF GoneInv
  <2> QED BY <1>11, <2>3, <2>4, <2>5, <2>6 DEF LaunchStep
<1>12. ASSUME NEW p \in Pid, Exit(p) \/ Wait(p) \/ StrangerExits(p) PROVE GoneInv'
  <2>1. UNCHANGED <<pid, seen, job, stage, cur, listing>>
    BY <1>12 DEF Exit, Wait, StrangerExits, disk, loop
  <2>2. \A q \in Pid : \/ proc'[q] = Free
                       \/ /\ proc'[q].who = proc[q].who /\ proc'[q].for = proc[q].for
                          /\ proc[q].state = "zombie" => proc'[q].state = "zombie"
    BY <1>12 DEF TypeOK, Process, Exit, Wait, StrangerExits
  <2>3. /\ RunnersAreKnown' /\ OneProcessEach' /\ LaunchedAfresh' /\ OthersStayOthers'
        /\ \A n \in Name : Over(n) => Over(n)'
    BY <2>1, <2>2, NothingStarts DEF Free
  <2>4. AwaitedIsTold'
    BY <2>1, <2>2 DEF TypeOK, GoneInv, AwaitedIsTold, Alive, Free
  <2>5. RemovedIsOver' /\ GoneIsOver'
    BY <2>1, <2>3 DEF TypeOK, GoneInv, RemovedIsOver, GoneIsOver, Gone
  <2> QED BY <2>3, <2>4, <2>5 DEF GoneInv
<1>13. ASSUME NEW p \in Pid, Recycle(p) PROVE GoneInv'
  <2>1. stage = "down" /\ UNCHANGED <<pid, seen, job, stage, cur, listing>>
    BY <1>13 DEF Recycle, Fault, disk, loop
  <2>2. \A q \in Pid : proc'[q].who = Stranger \/ proc'[q] = proc[q]
    BY <1>13 DEF TypeOK, Recycle, Free
  <2>3. RunnersAreKnown' /\ OneProcessEach' /\ LaunchedAfresh' /\ OthersStayOthers'
    BY <2>1, <2>2, NothingStarts
  <2>4. AwaitedIsTold' /\ RemovedIsOver' /\ GoneIsOver'
    BY <2>1, LaunchingIsApart
  <2> QED BY <2>3, <2>4 DEF GoneInv
<1>14. CASE Stop
  <2>1. \A q \in Pid : \/ proc'[q] = Free
                       \/ /\ proc'[q].who = proc[q].who /\ proc'[q].for = proc[q].for
                          /\ proc[q].state = "zombie" => proc'[q].state = "zombie"
    BY <1>14 DEF TypeOK, Process, Stop
  <2>2. /\ UNCHANGED pid /\ seen' = {} /\ job' = NoJob
        /\ stage' = "down" /\ listing' = NoListing
    BY <1>14 DEF Stop, disk
  <2>3. \A n \in Name : job[n] # "record"
    BY <1>14 DEF Stop, Fault
  <2>4. RunnersAreKnown' /\ OneProcessEach' /\ LaunchedAfresh' /\ OthersStayOthers'
    BY <2>1, <2>2, <2>3, NothingStarts DEF Free, NoJob
  <2>5. AwaitedIsTold' /\ RemovedIsOver' /\ GoneIsOver'
    BY <2>2 DEF AwaitedIsTold, RemovedIsOver, GoneIsOver, Gone, NoListing
  <2> QED BY <2>4, <2>5 DEF GoneInv
<1>15. CASE UNCHANGED vars
  <2>1. UNCHANGED <<proc, pid, seen, job, stage, cur, listing>>
    BY <1>15 DEF vars, disk, system, loop
  <2>2. AwaitedIsTold' /\ RemovedIsOver' /\ GoneIsOver'
    BY <2>1, <1>1
    DEF GoneInv, AwaitedIsTold, RemovedIsOver, GoneIsOver, Gone, Alive, Over, Runs
  <2> QED BY <2>1, <2>2, <1>1 DEF GoneInv
<1> QED
  BY <1>2, <1>3, <1>4, <1>5, <1>6, <1>7, <1>8, <1>9, <1>10, <1>11, <1>12, <1>13, <1>14, <1>15
  DEF Next, LoopStep

(* What List reports as gone is not running, except while it is being      *)
(* killed, if the daemon neither stops between starting a runner and       *)
(* recording it nor sees ids reused while it runs (List, reap).            *)
THEOREM ReportedGoneIsGoneAlways ==
  ASSUME "reuse" \notin Faults, "unrecorded" \notin Faults
  PROVE  Spec => []ReportedGoneIsGone
<1>1. Init => TypeOK /\ SignalInv /\ GoneInv
  BY TypeInit, SignalInit, GoneInit
<1>2. (TypeOK /\ SignalInv /\ GoneInv) /\ [Next]_vars => (TypeOK /\ SignalInv /\ GoneInv)'
  BY TypeStep, SignalStep, GoneStep
<1>3. TypeOK /\ SignalInv /\ GoneInv => ReportedGoneIsGone
  BY DEF GoneInv, GoneIsOver, ReportedGoneIsGone, Over, Running, ToldToStop
<1> QED BY <1>1, <1>2, <1>3, PTL DEF Spec

---------------------------------------------------------------------------
(* ProcessProvider implements InstanceLife *)

(* There is a directory wherever one is about to be used: for the process  *)
(* being launched, for what is being listed, and for what is destroyed.    *)
MadeInv == \A n \in Name : job[n] \in {"start", "record"} => dir[n] = "bare"

ListedInv ==
  stage \in {"list", "verify"} =>
    \A n \in Name : n \in todo \/ listing[n] # "none" => dir[n] # "none"

DoomedInv ==
  /\ \A n \in doomed : dir[n] # "none" /\ n # cur
  /\ stage = "remove" => dir[cur] # "none"
  /\ stage \in {"down", "idle", "launch", "list", "verify"} => doomed = {}

DirInv == MadeInv /\ ListedInv /\ DoomedInv

LEMMA DirInit == Init => DirInv
  BY NamesAssumption DEF Init, DirInv, MadeInv, ListedInv, DoomedInv, NoJob, NoListing

LEMMA DirStep ==
  ASSUME TypeOK, GoneInv, DirInv, [Next]_vars
  PROVE  DirInv'
<1> USE NamesAssumption
    DEF TypeOK, DirInv, MadeInv, ListedInv, DoomedInv, disk, system, loop
<1>1. CASE BeginList
  <2>1. listing = NoListing
    BY <1>1 DEF BeginList, GoneInv, GoneIsOver
  <2> QED BY <1>1, <2>1 DEF BeginList, NoListing
<1>2. CASE Verify
  BY <1>2 DEF Verify
<1>3. CASE Listed
  BY <1>3 DEF Listed, Gone
<1>4. CASE Check
  BY <1>4 DEF Check
<1>5. CASE Terminate \/ ExitSeen \/ Kill \/ GiveUp
  BY <1>5 DEF Terminate, ExitSeen, Kill, GiveUp
<1>6. CASE Remove
  BY <1>6 DEF Remove, NoJob
<1>7. CASE RemoveFails
  BY <1>7 DEF RemoveFails, NoJob
<1>8. CASE Launch
  BY <1>8 DEF Launch
<1>9. CASE Launched \/ Restart
  BY <1>9 DEF Launched, Restart
<1>10. ASSUME NEW n \in Name, Look(n)
       PROVE  DirInv'
  BY <1>10 DEF Look
<1>11. ASSUME NEW n \in Name, Destroy(n)
       PROVE  DirInv'
  BY <1>11 DEF Destroy
<1>12. ASSUME NEW n \in Name, LaunchStep(n)
       PROVE  DirInv'
  <2>1. job[n] # "none" /\ UNCHANGED loop
    BY <1>12 DEF LaunchStep, CloneTree, CloneTreeFails, PrepareFails, Start, Record, RecordFails
  <2>2. stage = "launch"
    BY <2>1 DEF NoJob
  <2>3. ListedInv' /\ DoomedInv'
    BY <2>1, <2>2
  <2>4. \A m \in Name : m # n => job'[m] = job[m] /\ dir'[m] = dir[m]
    BY <1>12 DEF LaunchStep, CloneTree, CloneTreeFails, PrepareFails, Start, Record, RecordFails
  <2>5. job'[n] \in {"start", "record"} => dir'[n] = "bare"
    BY <1>12 DEF LaunchStep, CloneTree, CloneTreeFails, PrepareFails, Start, Record, RecordFails
  <2> QED BY <2>3, <2>4, <2>5
<1>13. ASSUME NEW p \in Pid, Exit(p) \/ Wait(p) \/ Recycle(p) \/ StrangerExits(p)
       PROVE  DirInv'
  BY <1>13 DEF Exit, Wait, Recycle, StrangerExits
<1>14. CASE Stop
  BY <1>14 DEF Stop, NoJob
<1>15. CASE UNCHANGED vars
  BY <1>15 DEF vars
<1> QED
  BY <1>1, <1>2, <1>3, <1>4, <1>5, <1>6, <1>7, <1>8, <1>9, <1>10, <1>11, <1>12,
     <1>13, <1>14, <1>15
  DEF Next, LoopStep

LEMMA ToldIsRunning == \A n \in Name : ToldToStop(n) => Running(n)
  BY DEF ToldToStop, Running

LEMMA LifeInit == Init => IL!Init
<1> SUFFICES ASSUME Init PROVE IL!Init
  OBVIOUS
<1>1. \A n \in Name : ~Running(n)
  BY NamesAssumption DEF Init, Free, Running, Runs
<1>2. \A n \in Name : Life[n] = "absent"
  BY <1>1, ToldIsRunning DEF Life, Init, NoJob
<1> QED BY <1>2 DEF IL!Init, Life

(* It is enough that every instance makes a move or none. *)
LEMMA LifeMoves ==
  ASSUME \A n \in Name : Life'[n] = Life[n] \/ <<Life[n], Life'[n]>> \in IL!Move
  PROVE  [IL!Next]_Life
<1>1. Life' \in [Name -> IL!Phase]
  BY DEF Life, IL!Phase
<1> QED BY <1>1 DEF IL!Next

(* The process of an instance is left alone, wherever others go. *)
LEMMA SameRunner ==
  ASSUME NEW n \in Name,
         \A p \in Pid : proc'[p] = proc[p] \/ (~Runs(n, p) /\ ~Runs(n, p)')
  PROVE  Running(n)' = Running(n) /\ ToldToStop(n)' = ToldToStop(n)
<1>1. Running(n)' <=> Running(n)
  BY DEF Running, Runs
<1>2. ToldToStop(n)' <=> ToldToStop(n)
  BY DEF ToldToStop, Runs
<1> QED BY <1>1, <1>2 DEF Running, ToldToStop

(* A signal ends no process at once. *)
LEMMA SignalledLeave ==
  ASSUME TypeOK, NEW p \in Pid \cup {NoPid}, NEW m \in Name, Signal(p, m), NEW n \in Name
  PROVE  Running(n)' = Running(n) /\ (ToldToStop(n) => ToldToStop(n)')
<1>1. \A q \in Pid : /\ proc'[q].who = proc[q].who /\ proc'[q].state = proc[q].state
                     /\ proc[q].for # NoName => proc'[q].for # NoName
  BY NamesAssumption DEF Signal, TypeOK, Process
<1>2. \A q \in Pid : Runs(n, q)' = Runs(n, q)
  BY <1>1 DEF Runs
<1>3. Running(n)' <=> Running(n)
  BY <1>2 DEF Running
<1>4. ToldToStop(n) => ToldToStop(n)'
  BY <1>1, <1>2 DEF ToldToStop
<1> QED BY <1>3, <1>4 DEF Running

(* A running instance has a directory, and its launch has started it. *)
LEMMA RunnersHaveDirectories ==
  ASSUME TypeOK, GoneInv, DirInv, NEW n \in Name, Running(n)
  PROVE  /\ job[n] \notin {"clone", "start"}
         /\ dir[n] # "none" \/ ToldToStop(n)
<1>1. PICK p \in Pid : Runs(n, p)
  BY DEF Running
<1>2. job[n] \notin {"clone", "start"}
  BY <1>1 DEF GoneInv, LaunchedAfresh, Runs
<1>3. pid[n] = p \/ job[n] = "record" \/ ToldToStop(n)
  BY <1>1 DEF GoneInv, RunnersAreKnown, ToldToStop
<1> QED BY <1>2, <1>3, PidsAssumption DEF TypeOK, DirInv, MadeInv

(* Nothing happens to an instance whose process, directory and launch stay.*)
LEMMA LifeGoesOn ==
  ASSUME NEW n \in Name, dir'[n] = dir[n], job'[n] = job[n],
         \A p \in Pid : proc'[p] = proc[p] \/ (~Runs(n, p) /\ ~Runs(n, p)')
  PROVE  Life'[n] = Life[n]
  BY SameRunner DEF Life

LEMMA LaunchMoves ==
  ASSUME TypeOK, GoneInv, DirInv, NEW m \in Name, LaunchStep(m), NEW n \in Name
  PROVE  Life'[n] = Life[n] \/ <<Life[n], Life'[n]>> \in IL!Move
<1> USE NamesAssumption DEF TypeOK, disk, system, loop
<1>1. CASE n # m
  <2>1. dir'[n] = dir[n] /\ job'[n] = job[n]
    BY <1>1 DEF LaunchStep, CloneTree, CloneTreeFails, PrepareFails, Start, Record, RecordFails
  <2>2. \A p \in Pid : proc'[p] = proc[p] \/ (~Runs(n, p) /\ ~Runs(n, p)')
    <3>1. CASE CloneTree(m) \/ CloneTreeFails(m) \/ PrepareFails(m) \/ Record(m)
      BY <3>1 DEF CloneTree, CloneTreeFails, PrepareFails, Record
    <3>2. CASE Start(m)
      BY <3>2, <1>1 DEF Start, Free, Runs
    <3>3. CASE RecordFails(m)
      <4>1. PICK q \in Pid : proc[q].who = m /\ Signal(q, m)
        BY <3>3 DEF RecordFails
      <4>2. \A p \in Pid : proc'[p].who = proc[p].who /\ (p # q => proc'[p] = proc[p])
        BY <4>1 DEF Signal, Process
      <4> QED BY <4>1, <4>2, <1>1 DEF Runs
    <3> QED BY <3>1, <3>2, <3>3 DEF LaunchStep
  <2> QED BY <2>1, <2>2, LifeGoesOn
<1>2. CASE n = m
  <2>1. CASE CloneTree(n) \/ CloneTreeFails(n) \/ PrepareFails(n)
    <3>1. job[n] \in {"clone", "start"} /\ UNCHANGED proc
      BY <2>1 DEF CloneTree, CloneTreeFails, PrepareFails
    <3>2. ~Running(n)
      BY <3>1, RunnersHaveDirectories
    <3>3. ~Running(n)' /\ ~ToldToStop(n) /\ ~ToldToStop(n)'
      BY <3>1, <3>2 DEF Running, ToldToStop, Runs
    <3>4. Life[n] = "making"
      BY <3>1, <3>2, <3>3 DEF Life
    <3>5. Life'[n] \in {"making", "done", "absent"}
      BY <3>3 DEF Life
    <3> QED BY <3>4, <3>5 DEF IL!Move
  <2>2. CASE Start(n)
    <3>1. ~Running(n) /\ ~ToldToStop(n)
      BY <2>2, RunnersHaveDirectories, ToldIsRunning DEF Start
    <3>2. Life[n] = "making"
      BY <3>1, <2>2 DEF Life, Start
    <3>3. PICK p \in Pid : proc' = [proc EXCEPT ![p] = [Free EXCEPT !.who = n, !.state = "child"]]
      BY <2>2 DEF Start
    <3>4. Running(n)' /\ ~ToldToStop(n)'
      BY <3>1, <3>3 DEF Running, ToldToStop, Runs, Free
    <3>5. Life'[n] = "running"
      BY <3>4 DEF Life
    <3> QED BY <3>2, <3>5 DEF IL!Move
  <2>3. CASE Record(n)
    <3>1. Running(n)' = Running(n) /\ ToldToStop(n)' = ToldToStop(n)
      BY <2>3, SameRunner DEF Record
    <3>2. dir[n] # "none" /\ dir'[n] # "none" /\ job[n] = "record" /\ job'[n] = "none"
      BY <2>3 DEF Record, DirInv, MadeInv
    <3> QED BY <3>1, <3>2 DEF Life
  <2>4. CASE RecordFails(n)
    <3>1. PICK p \in Pid : proc[p].who = n /\ Signal(p, n)
      BY <2>4 DEF RecordFails
    <3>2. Running(n)' = Running(n)
      BY <3>1, SignalledLeave
    <3>3. Running(n) => ToldToStop(n)'
      <4>1. \A q \in Pid : Runs(n, q) => q = p
        BY <3>1 DEF GoneInv, OneProcessEach, Runs
      <4>2. proc'[p].who = n /\ proc'[p].state = proc[p].state /\ proc'[p].for # NoName
        BY <3>1, PidsAssumption DEF Signal, Alive, Process
      <4> QED BY <4>1, <4>2 DEF Running, ToldToStop, Runs
    <3>4. dir[n] # "none" /\ job[n] = "record" /\ dir'[n] = "none" /\ job'[n] = "none"
      BY <2>4 DEF RecordFails, DirInv, MadeInv
    <3>5. CASE Running(n)
      <4>1. Life[n] \in {"running", "leaving"} /\ Life'[n] = "leaving"
        BY <3>2, <3>3, <3>5 DEF Life
      <4> QED BY <4>1 DEF IL!Move
    <3>6. CASE ~Running(n)
      <4>1. Life[n] = "done"
        BY <3>4, <3>6, ToldIsRunning DEF Life
      <4>2. ~ToldToStop(n)'
        BY <3>2, <3>6 DEF ToldToStop, Running
      <4>3. Life'[n] = "absent"
        BY <3>2, <3>4, <3>6, <4>2 DEF Life
      <4> QED BY <4>1, <4>3 DEF IL!Move
    <3> QED BY <3>5, <3>6
  <2> QED BY <1>2, <2>1, <2>2, <2>3, <2>4 DEF LaunchStep
<1> QED BY <1>1, <1>2

LEMMA SystemMoves ==
  ASSUME TypeOK, GoneInv, DirInv, NEW n \in Name, NEW p \in Pid,
         Exit(p) \/ Wait(p) \/ Recycle(p) \/ StrangerExits(p)
  PROVE  Life'[n] = Life[n] \/ <<Life[n], Life'[n]>> \in IL!Move
<1> USE NamesAssumption DEF TypeOK, disk
<1>1. UNCHANGED <<dir, pid, job>> /\ \A q \in Pid : q # p => proc'[q] = proc[q]
  BY DEF Exit, Wait, Recycle, StrangerExits
<1>2. ~Runs(n, p)'
  <2>1. CASE Exit(p)
    <3>1. proc'[p].state = "zombie" \/ proc'[p] = Free
      BY <2>1 DEF Exit, Process
    <3> QED BY <3>1 DEF Runs, Free
  <2>2. CASE Wait(p) \/ StrangerExits(p)
    BY <2>2 DEF Wait, StrangerExits, Runs, Free
  <2>3. CASE Recycle(p)
    BY <2>3 DEF Recycle, Runs, Free
  <2> QED BY <2>1, <2>2, <2>3
<1>3. CASE ~Runs(n, p)
  BY <1>1, <1>2, <1>3, LifeGoesOn
<1>4. CASE Runs(n, p)
  <2>1. \A q \in Pid : q # p => ~Runs(n, q)
    BY <1>4 DEF GoneInv, OneProcessEach, Runs
  <2>2. Running(n)
    BY <1>4 DEF Running
  <2>3. \A q \in Pid : ~Runs(n, q)'
    BY <1>1, <1>2, <2>1 DEF Runs
  <2>4. ~Running(n)' /\ ~ToldToStop(n)'
    BY <2>3 DEF Running, ToldToStop
  <2>5. job[n] \notin {"clone", "start"} /\ (dir[n] # "none" \/ ToldToStop(n))
    BY <2>2, RunnersHaveDirectories
  <2>6. CASE ToldToStop(n)
    <3>1. Life[n] = "leaving" /\ Life'[n] \in {"done", "absent"}
      BY <1>1, <2>4, <2>5, <2>6 DEF Life
    <3> QED BY <3>1 DEF IL!Move
  <2>7. CASE ~ToldToStop(n)
    <3>1. Life[n] = "running" /\ Life'[n] = "done"
      BY <1>1, <2>2, <2>4, <2>5, <2>7 DEF Life
    <3> QED BY <3>1 DEF IL!Move
  <2> QED BY <2>6, <2>7
<1> QED BY <1>3, <1>4

(* A stop leaves processes to themselves and directories as they are. *)
LEMMA StopMoves ==
  ASSUME "unrecorded" \notin Faults, TypeOK, GoneInv, DirInv, Stop, NEW n \in Name
  PROVE  Life'[n] = Life[n] \/ <<Life[n], Life'[n]>> \in IL!Move
<1> USE NamesAssumption DEF TypeOK, disk
<1>1. job[n] # "record" /\ dir' = dir /\ job'[n] = "none"
  BY DEF Stop, Fault, NoJob
<1>2. \A p \in Pid : /\ Runs(n, p)' <=> Runs(n, p)
                     /\ Runs(n, p) => proc'[p].for = proc[p].for
  BY DEF Stop, Runs, Free, Process
<1>3. (Running(n)' <=> Running(n)) /\ (ToldToStop(n)' <=> ToldToStop(n))
  BY <1>2 DEF Running, ToldToStop
<1>4. CASE job[n] \in {"clone", "start"}
  <2>1. ~Running(n) /\ ~ToldToStop(n)
    BY <1>4, RunnersHaveDirectories, ToldIsRunning
  <2>2. Life[n] = "making" /\ Life'[n] \in {"done", "absent"}
    BY <1>1, <1>3, <1>4, <2>1 DEF Life
  <2> QED BY <2>2 DEF IL!Move
<1>5. CASE job[n] \notin {"clone", "start"}
  BY <1>1, <1>3, <1>5 DEF Life
<1> QED BY <1>4, <1>5

LEMMA LoopMoves ==
  ASSUME TypeOK, GoneInv, DirInv, LoopStep, NEW n \in Name
  PROVE  Life'[n] = Life[n] \/ <<Life[n], Life'[n]>> \in IL!Move
<1> USE NamesAssumption DEF TypeOK, disk, system
<1>1. CASE UNCHANGED <<disk, system, job>>
  BY <1>1, LifeGoesOn
<1>2. CASE Terminate \/ Kill
  <2>1. /\ UNCHANGED <<disk, job>>
        /\ cur \in Name /\ pid[cur] \in Pid \cup {NoPid} /\ Signal(pid[cur], cur)
    BY <1>2 DEF Terminate, Kill
  <2>2. Running(n)' = Running(n) /\ (ToldToStop(n) => ToldToStop(n)')
    BY <2>1, SignalledLeave
  <2>3. CASE ToldToStop(n)' /\ ~ToldToStop(n)
    <3>1. Running(n)'
      BY <2>3 DEF ToldToStop, Running
    <3>2. Life[n] = "running" /\ Life'[n] = "leaving"
      BY <2>2, <2>3, <3>1 DEF Life
    <3> QED BY <3>2 DEF IL!Move
  <2>4. CASE ToldToStop(n)' <=> ToldToStop(n)
    BY <2>1, <2>2, <2>4 DEF Life
  <2> QED BY <2>2, <2>3, <2>4
<1>3. CASE Remove \/ RemoveFails
  <2>1. /\ stage = "remove" /\ cur \in Name /\ job = NoJob
        /\ dir' = [dir EXCEPT ![cur] = dir'[cur]]
        /\ UNCHANGED <<proc, job>>
    BY <1>3 DEF Remove, RemoveFails
  <2>2. CASE n # cur
    BY <2>1, <2>2, LifeGoesOn
  <2>3. CASE n = cur
    <3>1. Running(n) => ToldToStop(n)
      BY <2>1, <2>3 DEF GoneInv, RemovedIsOver, Over, Running, ToldToStop
    <3>2. (Running(n)' <=> Running(n)) /\ (ToldToStop(n)' <=> ToldToStop(n))
      BY <2>1 DEF Running, ToldToStop, Runs
    <3>3. dir[n] # "none" /\ job'[n] = "none" /\ job[n] = "none"
      BY <2>1, <2>3 DEF DirInv, DoomedInv, NoJob
    <3>4. CASE ToldToStop(n)
      BY <3>2, <3>4 DEF Life
    <3>5. CASE ~ToldToStop(n)
      <4>1. Life[n] = "done" /\ Life'[n] \in {"done", "absent"}
        BY <3>1, <3>2, <3>3, <3>5 DEF Life
      <4> QED BY <4>1 DEF IL!Move
    <3> QED BY <3>4, <3>5
  <2> QED BY <2>2, <2>3
<1>4. CASE Launch
  <2>1. job[n] = "none" /\ UNCHANGED <<dir, proc>>
    BY <1>4 DEF Launch, NoJob
  <2>2. job'[n] = "none" \/ (Fresh(n) /\ job'[n] = "clone")
    BY <1>4 DEF Launch
  <2>3. (Running(n)' <=> Running(n)) /\ (ToldToStop(n)' <=> ToldToStop(n))
    BY <2>1 DEF Running, ToldToStop, Runs
  <2>4. CASE job'[n] = "none"
    BY <2>1, <2>3, <2>4 DEF Life
  <2>5. CASE Fresh(n) /\ job'[n] = "clone"
    <3>1. ~Running(n) /\ ~ToldToStop(n) /\ dir[n] = "none"
      BY <2>5 DEF Fresh, Running, ToldToStop, Runs
    <3>2. Life[n] = "absent" /\ Life'[n] = "making"
      BY <2>1, <2>3, <2>5, <3>1 DEF Life
    <3> QED BY <3>2 DEF IL!Move
  <2> QED BY <2>2, <2>4, <2>5
<1> QED
  BY <1>1, <1>2, <1>3, <1>4
  DEF LoopStep, BeginList, Verify, Listed, Check, ExitSeen, GiveUp, Launched, Restart,
      Look, Destroy

LEMMA LifeStep ==
  ASSUME "unrecorded" \notin Faults, TypeOK, GoneInv, DirInv, [Next]_vars
  PROVE  [IL!Next]_Life
<1>1. ASSUME NEW n \in Name
      PROVE  Life'[n] = Life[n] \/ <<Life[n], Life'[n]>> \in IL!Move
  <2>1. CASE LoopStep
    BY <2>1, LoopMoves
  <2>2. ASSUME NEW m \in Name, LaunchStep(m)
        PROVE  Life'[n] = Life[n] \/ <<Life[n], Life'[n]>> \in IL!Move
    BY <2>2, LaunchMoves
  <2>3. ASSUME NEW p \in Pid, Exit(p) \/ Wait(p) \/ Recycle(p) \/ StrangerExits(p)
        PROVE  Life'[n] = Life[n] \/ <<Life[n], Life'[n]>> \in IL!Move
    BY <2>3, SystemMoves
  <2>4. CASE Stop
    BY <2>4, StopMoves
  <2>5. CASE UNCHANGED vars
    BY <2>5, LifeGoesOn DEF vars, disk, system
  <2> QED BY <2>1, <2>2, <2>3, <2>4, <2>5 DEF Next
<1> QED BY <1>1, LifeMoves

(* A runner keeps its directory until it has exited or was told to, and no *)
(* phase of its life is skipped: the provider implements InstanceLife,     *)
(* under the same two assumptions (Create, Destroy, Prune).                *)
THEOREM InstancesStayOrderly ==
  ASSUME "reuse" \notin Faults, "unrecorded" \notin Faults
  PROVE  Spec => InstancesLiveOrderly
<1>1. Init => TypeOK /\ SignalInv /\ GoneInv /\ DirInv
  BY TypeInit, SignalInit, GoneInit, DirInit
<1>2. (TypeOK /\ SignalInv /\ GoneInv /\ DirInv) /\ [Next]_vars
        => (TypeOK /\ SignalInv /\ GoneInv /\ DirInv)'
  BY TypeStep, SignalStep, GoneStep, DirStep
<1>3. (TypeOK /\ SignalInv /\ GoneInv /\ DirInv) /\ [Next]_vars => [IL!Next]_Life
  BY LifeStep
<1> QED BY <1>1, <1>2, <1>3, LifeInit, PTL DEF Spec, InstancesLiveOrderly, IL!Spec
============================================================================
