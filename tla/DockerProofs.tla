---------------------------- MODULE DockerProofs ----------------------------
(***************************************************************************)
(* Theorems about the Docker provider, for any containers, pull policies   *)
(* and faults.                                                             *)
(***************************************************************************)
EXTENDS DockerProvider, TLAPS

LEMMA FaultsCount ==
  /\ \A k \in FaultKind : spent \in 0 .. MaxFaults /\ Fault(k) => spent' \in 0 .. MaxFaults
  /\ spent \in 0 .. MaxFaults /\ NoFault => spent' \in 0 .. MaxFaults
  BY FaultsAssumption DEF Fault, NoFault

LEMMA SpentStep == spent \in 0 .. MaxFaults /\ [Next]_vars => spent' \in 0 .. MaxFaults
<1> SUFFICES ASSUME spent \in 0 .. MaxFaults, [Next]_vars PROVE spent' \in 0 .. MaxFaults
  OBVIOUS
<1>1. \A k \in FaultKind : Fails(k) => spent' \in 0 .. MaxFaults
  BY FaultsCount DEF Fails
<1>2. \A ok \in BOOLEAN : EnsureImage(ok) => spent' \in 0 .. MaxFaults
  BY <1>1, FaultsCount DEF EnsureImage, FetchOrKeep, Succeeds, NoFault, FaultKind
<1> USE <1>1, <1>2, FaultsCount DEF FaultKind, NoFault, Succeeds
<1>3. CASE LoopStep
  BY <1>3 DEF LoopStep, Start, Preflight, List, ListFails, Prune, Pruned, Launch, Launched,
              Leave, Destroy, DestroyFails
<1>4. ASSUME NEW n \in Name, LaunchStep(n) PROVE spent' \in 0 .. MaxFaults
  BY <1>4 DEF LaunchStep, FindImage, CreateContainer, CreateFails, StartContainer,
              StartFails, Undo, UndoFails
<1>5. ASSUME NEW n \in Name, StartsLate(n) \/ Exits(n) \/ Ages(n) \/ Handled(n)
      PROVE  spent' \in 0 .. MaxFaults
  BY <1>5 DEF StartsLate, Exits, Ages, Handled
<1>6. CASE Signal \/ Crash \/ ImageRemoved
  BY <1>6 DEF Signal, Crash, ImageRemoved
<1>7. CASE UNCHANGED vars
  BY <1>7 DEF vars
<1> QED BY <1>3, <1>4, <1>5, <1>6, <1>7 DEF Next

LEMMA FlagsStep == Flags /\ [Next]_vars => Flags'
<1> SUFFICES ASSUME Flags, [Next]_vars PROVE Flags'
  OBVIOUS
<1> USE DEF Flags
<1>1. \A ok \in BOOLEAN : EnsureImage(ok) => image' \in BOOLEAN
  BY DEF EnsureImage, FetchOrKeep
<1>2. CASE LoopStep
  BY <1>1, <1>2 DEF LoopStep, Start, Preflight, List, ListFails, Prune, Pruned, Launch, Launched,
              Leave, Destroy, DestroyFails, Stopped, Vanish, docker
<1>3. ASSUME NEW n \in Name, LaunchStep(n) PROVE Flags'
  BY <1>1, <1>3 DEF LaunchStep, FindImage, CreateContainer, CreateFails, StartContainer,
              StartFails, Undo, UndoFails, Vanish, docker
<1>4. ASSUME NEW n \in Name, StartsLate(n) \/ Exits(n) \/ Ages(n) \/ Handled(n) PROVE Flags'
  BY <1>4 DEF StartsLate, Exits, Ages, Handled, Vanish
<1>5. CASE Signal \/ Crash \/ ImageRemoved
  BY <1>5 DEF Signal, Crash, Stopped, ImageRemoved, docker
<1>6. CASE UNCHANGED vars
  BY <1>6 DEF vars, docker
<1> QED BY <1>2, <1>3, <1>4, <1>5, <1>6 DEF Next

LEMMA BoxStates ==
  ASSUME NEW s \in Box
  PROVE  /\ State[s] \in {"none", "starting", "running", "exited"}
         /\ State[s] = "exited" => s \in {"exited", "dead"}
         /\ State[s] = "none" <=> s = "none"
  BY DEF Box, State

LEMMA ReportedType ==
  ASSUME Shapes
  PROVE  /\ Reported \in [Name -> {"none", "starting", "running", "exited"}]
         /\ \A n \in Name : Reported[n] = "exited" => box[n] \in {"exited", "dead"}
<1>1. \A n \in Name : box[n] \in Box
  BY DEF Shapes
<1> QED BY <1>1, BoxStates DEF Reported

LEMMA ShapesInit == Init => Shapes
  BY DEF Init, Shapes, Box, NoListing, NoJob

LEMMA ImageShapes ==
  ASSUME Shapes, NEW ok \in BOOLEAN, EnsureImage(ok)
  PROVE  pulled' \in {"no", "ok", "failed"}
  BY DEF EnsureImage, FetchOrKeep, Shapes

LEMMA ShapesStep == Shapes /\ [Next]_vars => Shapes'
<1> SUFFICES ASSUME Shapes, [Next]_vars PROVE Shapes'
  OBVIOUS
<1>1. CASE Preflight
  BY <1>1, ImageShapes DEF Preflight, Shapes
<1>2. CASE List
  <2>1. listing' = Reported /\ stage' = "reap" /\ UNCHANGED <<docker, pulls, job, failed>>
    BY <1>2 DEF List
  <2>2. doomed' \subseteq {n \in Name : listing'[n] # "none"}
    <3>1. PICK idle \in SUBSET {n \in Name : Reported[n] = "running"} :
            doomed' = idle \cup {n \in Name : Reported[n] \in {"exited", "unknown"}}
                           \cup {n \in old : Reported[n] = "starting"}
      BY <1>2 DEF List
    <3>2. old \subseteq Name
      BY DEF Shapes
    <3> QED BY <2>1, <3>1, <3>2
  <2>3. \A n \in Name : job[n] = "none"
    BY <1>2 DEF List, Shapes
  <2> QED BY <2>1, <2>2, <2>3, ReportedType DEF docker, pulls, Shapes
<1>3. CASE ListFails
  BY <1>3 DEF ListFails, docker, pulls, Shapes
<1>4. CASE Prune
  BY <1>4, ReportedType DEF Prune, docker, pulls, Shapes
<1>5. ASSUME NEW n \in Name, Destroy(n) PROVE Shapes'
  BY <1>5 DEF Destroy, Vanish, Become, pulls, Shapes, Box
<1>6. ASSUME NEW n \in Name, DestroyFails(n) PROVE Shapes'
  BY <1>6 DEF DestroyFails, Become, pulls, Shapes, Box
<1>7. CASE Pruned \/ Launched
  BY <1>7 DEF Pruned, Launched, NoListing, NoJob, docker, pulls, Shapes
<1>8. CASE Launch
  BY <1>8 DEF Launch, NoListing, docker, pulls, Shapes
<1>9. ASSUME NEW n \in Name, FindImage(n) PROVE Shapes'
  <2>1. pulled' \in {"no", "ok", "failed"}
    BY <1>9, ImageShapes DEF FindImage
  <2>2. job[n] = "image" /\ UNCHANGED <<box, late, old, policy, loop>>
        /\ (Goes(n, "create") \/ Errs(n))
    BY <1>9 DEF FindImage
  <2> QED BY <2>1, <2>2 DEF Goes, Errs, loop, Shapes
<1>10. ASSUME NEW n \in Name, CreateContainer(n) \/ CreateFails(n) PROVE Shapes'
  BY <1>10 DEF CreateContainer, CreateFails, Become, Goes, Errs, pulls, loop, Shapes, Box
<1>11. ASSUME NEW n \in Name, StartContainer(n) \/ StartFails(n) PROVE Shapes'
  BY <1>11 DEF StartContainer, StartFails, Become, Goes, pulls, loop, Shapes, Box
<1>12. ASSUME NEW n \in Name, Undo(n) \/ UndoFails(n) PROVE Shapes'
  BY <1>12 DEF Undo, UndoFails, Vanish, Become, Goes, Errs, docker, pulls, loop, Shapes, Box
<1>13. CASE Start \/ Signal
  BY <1>13 DEF Start, Signal, docker, pulls, loop, Shapes
<1>14. CASE Leave \/ Crash
  BY <1>14 DEF Leave, Crash, Stopped, NoListing, NoJob, docker, pulls, Shapes
<1>15. ASSUME NEW n \in Name, StartsLate(n) \/ Exits(n) \/ Ages(n) PROVE Shapes'
  BY <1>15 DEF StartsLate, Exits, Ages, Become, pulls, loop, Shapes, Box
<1>16. ASSUME NEW n \in Name, Handled(n) PROVE Shapes'
  BY <1>16 DEF Handled, Vanish, Become, pulls, loop, Shapes, Box
<1>17. CASE ImageRemoved \/ UNCHANGED vars
  BY <1>17 DEF ImageRemoved, vars, docker, pulls, loop, Shapes
<1> QED
  BY <1>1, <1>2, <1>3, <1>4, <1>5, <1>6, <1>7, <1>8, <1>9, <1>10, <1>11, <1>12, <1>13, <1>14,
     <1>15, <1>16, <1>17 DEF Next, LoopStep, LaunchStep

(* The provider and the loop that uses it keep their types. *)
THEOREM ContainersTyped == Spec => []TypeOK
<1>1. Init => TypeOK
  <2>1. Init => Flags /\ spent = 0
    BY DEF Init, Flags
  <2> QED BY <2>1, ShapesInit, FaultsAssumption DEF TypeOK
<1>2. TypeOK /\ [Next]_vars => TypeOK'
  BY ShapesStep, FlagsStep, SpentStep DEF TypeOK
<1> QED BY <1>1, <1>2, PTL DEF Spec

-----------------------------------------------------------------------------
(* What a pass remembers of its listing while it reaps or prunes, and a launch *)
(* of its container.                                                             *)

StageInv ==
  /\ stage \notin {"reap", "prune"} => listing = NoListing
  /\ \A n \in Name : job[n] \in {"image", "create"} => box[n] = "none"

\* What was reported gone cannot run again: nothing starts it a second time.
GoneInv ==
  \A n \in Name : listing[n] \in {"exited", "unknown"} => box[n] \in {"none", "exited", "dead"}

\* Nobody is about to start what a failed launch may have left.
FailedInv ==
  \A n \in failed : /\ job[n] = "none" /\ n \notin late
                    /\ box[n] \in {"none", "created", "exited", "dead"}

Inv == StageInv /\ GoneInv /\ FailedInv

LEMMA InvInit == Init => Inv
  BY DEF Init, Inv, StageInv, GoneInv, FailedInv, NoListing, NoJob

LEMMA InvStep == Shapes /\ Inv /\ [Next]_vars => Inv'
<1> SUFFICES ASSUME Shapes, Inv, [Next]_vars PROVE Inv'
  OBVIOUS
<1> USE DEF Inv, StageInv, GoneInv, FailedInv
<1>1. CASE Preflight
  BY <1>1 DEF Preflight, Shapes
<1>2. CASE List
  BY <1>2, ReportedType DEF List, docker, Shapes
<1>3. CASE ListFails
  BY <1>3 DEF ListFails, docker, Shapes
<1>4. CASE Prune
  BY <1>4, ReportedType DEF Prune, docker, Shapes
<1>5. ASSUME NEW n \in Name, Destroy(n) PROVE Inv'
  <2>1. listing[n] # "none" /\ stage \in {"reap", "prune"} /\ job[n] = "none"
    BY <1>5 DEF Destroy, NoListing, Shapes
  <2> QED BY <1>5, <2>1 DEF Destroy, Vanish, Become, Shapes
<1>6. ASSUME NEW n \in Name, DestroyFails(n) PROVE Inv'
  <2>1. listing[n] # "none" /\ stage \in {"reap", "prune"} /\ job[n] = "none"
    BY <1>6 DEF DestroyFails, NoListing, Shapes
  <2> QED BY <1>6, <2>1 DEF DestroyFails, Become, Shapes
<1>7. CASE Pruned \/ Launched
  BY <1>7 DEF Pruned, Launched, NoListing, docker, Shapes
<1>8. CASE Launch
  BY <1>8 DEF Launch, NoListing, docker, Shapes
<1>9. ASSUME NEW n \in Name, FindImage(n) PROVE Inv'
  BY <1>9 DEF FindImage, Goes, Errs, loop, Shapes
<1>10. ASSUME NEW n \in Name, CreateContainer(n) \/ CreateFails(n) PROVE Inv'
  <2>1. box[n] = "none" /\ n \notin late /\ listing = NoListing
    BY <1>10 DEF CreateContainer, CreateFails, Shapes
  <2> QED
    BY <1>10, <2>1 DEF CreateContainer, CreateFails, Become, Goes, Errs, NoListing, loop, Shapes
<1>11. ASSUME NEW n \in Name, StartContainer(n) \/ StartFails(n) PROVE Inv'
  <2>1. n \notin failed /\ listing = NoListing
    BY <1>11 DEF StartContainer, StartFails, Shapes
  <2> QED
    BY <1>11, <2>1 DEF StartContainer, StartFails, Become, Goes, NoListing, loop, Shapes
<1>12. ASSUME NEW n \in Name, Undo(n) \/ UndoFails(n) PROVE Inv'
  BY <1>12 DEF Undo, UndoFails, Vanish, Become, Goes, Errs, docker, loop, Shapes
<1>13. CASE Start \/ Signal
  BY <1>13 DEF Start, Signal, docker, loop, Shapes
<1>14. CASE Leave \/ Crash
  BY <1>14 DEF Leave, Crash, Stopped, NoListing, NoJob, docker, Shapes
<1>15. ASSUME NEW n \in Name, StartsLate(n) \/ Exits(n) \/ Ages(n) PROVE Inv'
  BY <1>15 DEF StartsLate, Exits, Ages, Become, loop, Shapes
<1>16. ASSUME NEW n \in Name, Handled(n) PROVE Inv'
  BY <1>16 DEF Handled, Vanish, Become, loop, Shapes
<1>17. CASE ImageRemoved \/ UNCHANGED vars
  BY <1>17 DEF ImageRemoved, vars, docker, loop, Shapes
<1> QED
  BY <1>1, <1>2, <1>3, <1>4, <1>5, <1>6, <1>7, <1>8, <1>9, <1>10, <1>11, <1>12, <1>13, <1>14,
     <1>15, <1>16, <1>17 DEF Next, LoopStep, LaunchStep

LEMMA InvHolds == Spec => []Inv
<1>1. TypeOK => Shapes
  BY DEF TypeOK
<1> QED BY <1>1, InvInit, InvStep, ContainersTyped, PTL DEF Spec

(* What List reports as finished never runs again, so that removing it by force *)
(* ends no job (dockerState, Destroy, Prune).                                     *)
THEOREM ReportedGoneStaysGone == Spec => []ReportedGoneIsGone
<1>1. Inv => ReportedGoneIsGone
  BY DEF Inv, GoneInv, ReportedGoneIsGone, Alive
<1> QED BY <1>1, InvHolds, PTL

(* A launch that returned an error leaves nothing that runs or will run, although *)
(* answers were lost and requests cancelled, unless its removal failed as well      *)
(* (Create).                                                                          *)
THEOREM FailedLaunchesNeverRun == Spec => []FailedLaunchNeverRuns
<1>1. Inv => FailedLaunchNeverRuns
  BY DEF Inv, FailedInv, FailedLaunchNeverRuns, Alive
<1> QED BY <1>1, InvHolds, PTL
=============================================================================
