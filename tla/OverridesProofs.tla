-------------------------- MODULE OverridesProofs --------------------------
(***************************************************************************)
(* Theorems about the live limits, for all pools, configurations, requests *)
(* and faults.                                                             *)
(***************************************************************************)
EXTENDS Overrides, FiniteSetTheorems, TLAPS

Ask == [pool : Pool, min : Nat \cup {Unset}, max : (Nat \ {0}) \cup {Unset}]

LEMMA EmptyType == NoLimit \in Override /\ Empty \in [Pool -> Override]
  BY DEF NoLimit, Empty, Override

LEMMA NoAskType == NoAsk \in Ask
<1>1. (CHOOSE p \in Pool : TRUE) \in Pool
  BY PoolsAssumption, Zenon
<1> QED BY <1>1 DEF NoAsk, Ask, Unset

LEMMA ContentType ==
  ASSUME NEW m \in [Pool -> Override]
  PROVE  {Whole(m), Blank, Torn} \subseteq
           [state : {"empty", "torn", "whole"}, limits : [Pool -> Override]]
  BY EmptyType DEF Whole, Blank, Torn

(* What is left of a request that is answered. *)
LEMMA AnswerType ==
  ASSUME TypeOK, NEW r \in Request, Answer(r)
  PROVE  /\ stage' \in [Request -> Stage]
         /\ snapshot' \in [Request -> [Pool -> Override]]
         /\ shared' \subseteq Request
  BY EmptyType DEF TypeOK, Answer, Stage

(* A request takes up one file at most, so there is always one left. *)
LEMMA AFileIsFree ==
  ASSUME TypeOK, tmp = NoFile
  PROVE  /\ FreeFile \in File
         /\ FreeFile # file
         /\ \A r \in Request : fd[r] # FreeFile
<1> DEFINE Open == {fd[r] : r \in Request}
           Used == Open \cup {file}
<1>1. IsFiniteSet(Request) /\ Cardinality(Request) \in Nat
  BY RequestsAssumption, FS_CardinalityType
<1>2. fd \in Surjection(Request, Open)
  BY DEF Surjection, TypeOK
<1>3. IsFiniteSet(Open) /\ Cardinality(Open) <= Cardinality(Request)
  BY <1>1, <1>2, FS_Surjection
<1>4. IsFiniteSet(Used) /\ Cardinality(Used) <= Cardinality(Open) + 1
  <2> HIDE DEF Open
  <2>1. Cardinality(Open) \in Nat
    BY <1>3, FS_CardinalityType
  <2>2. /\ IsFiniteSet(Open \cup {file})
        /\ Cardinality(Open \cup {file}) = IF file \in Open THEN Cardinality(Open) ELSE Cardinality(Open) + 1
    BY <1>3, FS_AddElement
  <2> QED BY <2>1, <2>2
<1>5. IsFiniteSet(File) /\ Cardinality(File) = Cardinality(Request) + 2
  BY <1>1, FS_Interval DEF File
<1>6. ~(File \subseteq Used)
  <2> SUFFICES ASSUME File \subseteq Used PROVE FALSE
    OBVIOUS
  <2>1. Cardinality(File) <= Cardinality(Used)
    BY <1>4, FS_Subset
  <2>2. Cardinality(Open) \in Nat /\ Cardinality(Used) \in Nat
    BY <1>3, <1>4, FS_CardinalityType
  <2> QED BY <1>1, <1>3, <1>4, <1>5, <2>1, <2>2
<1>7. \E f \in File : f \notin {tmp, file} /\ \A r \in Request : fd[r] # f
  BY <1>6 DEF File, NoFile
<1> QED BY <1>7 DEF FreeFile

LEMMA TypeInit == Init => TypeOK
<1> SUFFICES ASSUME Init PROVE TypeOK
  OBVIOUS
<1>1. Blank \in [state : {"empty", "torn", "whole"}, limits : [Pool -> Override]]
  BY EmptyType DEF Blank
<1> QED
  BY <1>1, EmptyType, NoAskType DEF Init, TypeOK, Stage, Ask

(* A request that is acceptable asks for limits that can be stored. *)
LEMMA AcceptableType ==
  ASSUME NEW a \in Asks, Acceptable(a)
  PROVE  a \in Ask
<1>1. a \in [pool : Pool, min : Int, max : Int]
  BY AsksAssumption
<1>2. a.min # Unset => a.min >= 0
  BY DEF Acceptable, Merge
<1>3. a.max # Unset => a.max >= 1
  BY DEF Acceptable, Merge
<1> QED BY <1>1, <1>2, <1>3 DEF Ask

LEMMA MergeType ==
  ASSUME NEW a \in Override, NEW b \in Ask
  PROVE  Merge(a, b) \in Override
  BY DEF Override, Ask, Merge

LEMMA TypeStep == TypeOK /\ [Next]_vars => TypeOK'
<1> SUFFICES ASSUME TypeOK, [Next]_vars PROVE TypeOK'
  OBVIOUS
<1> USE EmptyType, NoAskType DEF TypeOK, Ask, disk, Stage
<1>1. ASSUME NEW r \in Request, Validate(r)
      PROVE  TypeOK'
  <2>1. PICK a \in Asks : Acceptable(a) /\ ask' = [ask EXCEPT ![r] = a]
    BY <1>1 DEF Validate
  <2>2. a \in Ask
    BY <2>1, AcceptableType
  <2> QED BY <1>1, <2>1, <2>2 DEF Validate, history
<1>2. ASSUME NEW r \in Request, NEW p \in Pool, NEW o \in Override, Put(r, p, o)
      PROVE  /\ mem' \in [Pool -> Override]
             /\ snapshot' \in [Request -> [Pool -> Override]]
             /\ stage' \in [Request -> Stage]
             /\ shared' \subseteq Request
  BY <1>2 DEF Put, BeginSaving, Saving
<1>3. ASSUME NEW r \in Request, Set(r)
      PROVE  TypeOK'
  <2>1. ask[r].pool \in Pool /\ Merge(mem[ask[r].pool], ask[r]) \in Override
    BY MergeType
  <2> QED BY <1>2, <1>3, <2>1 DEF Set
<1>4. ASSUME NEW r \in Request, Clear(r)
      PROVE  TypeOK'
  <2>1. PICK p \in Pool : Put(r, p, NoLimit)
    BY <1>4 DEF Clear
  <2> QED BY <1>2, <1>4, <2>1 DEF Clear
<1>5. ASSUME NEW r \in Request, OpenTmp(r)
      PROVE  TypeOK'
  <2> DEFINE f == IF tmp = NoFile THEN FreeFile ELSE tmp
  <2>1. f \in File
    BY AFileIsFree
  <2>2. Blank \in [state : {"empty", "torn", "whole"}, limits : [Pool -> Override]]
    BY DEF Blank
  <2>3. /\ fd' = [fd EXCEPT ![r] = f] /\ data' = [data EXCEPT ![f] = Blank] /\ tmp' = f
        /\ stage' = [stage EXCEPT ![r] = "write"]
        /\ UNCHANGED <<conf, mem, ask, snapshot, file, up, shared, mixed, spent>>
    BY <1>5 DEF OpenTmp, history
  <2> QED BY <2>1, <2>2, <2>3
<1>6. ASSUME NEW r \in Request, WriteTmp(r)
      PROVE  TypeOK'
  <2>1. PICK c \in {Whole(snapshot[r]), Torn} : data' = [data EXCEPT ![fd[r]] = c]
    BY <1>6 DEF WriteTmp, Overwrite
  <2>2. c \in [state : {"empty", "torn", "whole"}, limits : [Pool -> Override]]
    BY ContentType
  <2> QED BY <1>6, <2>1, <2>2 DEF WriteTmp, history
<1>7. ASSUME NEW r \in Request, WriteTmpFails(r)
      PROVE  TypeOK'
  <2>1. Torn \in [state : {"empty", "torn", "whole"}, limits : [Pool -> Override]]
    BY ContentType
  <2>2. data' = [data EXCEPT ![fd[r]] = Torn] /\ fd' = [fd EXCEPT ![r] = NoFile]
    BY <1>7 DEF WriteTmpFails
  <2>3. UNCHANGED <<conf, mem, ask, tmp, file, up, mixed>> /\ spent' = spent + 1 /\ Answer(r)
    BY <1>7 DEF WriteTmpFails, Fault
  <2>4. /\ data' \in [File -> [state : {"empty", "torn", "whole"}, limits : [Pool -> Override]]]
        /\ fd' \in [Request -> File \cup {NoFile}]
    BY <2>1, <2>2
  <2>5. /\ stage' \in [Request -> Stage] /\ snapshot' \in [Request -> [Pool -> Override]]
        /\ shared' \subseteq Request
    BY <2>3, AnswerType
  <2> QED BY <2>3, <2>4, <2>5
<1>8. ASSUME NEW r \in Request, Rename(r)
      PROVE  TypeOK'
  <2>1. tmp' \in File \cup {NoFile} /\ file' \in File \cup {NoFile}
    BY <1>8 DEF Rename
  <2>2. mixed' \in BOOLEAN
    <3>1. CASE tmp = NoFile
      BY <1>8, <3>1 DEF Rename
    <3>2. CASE tmp # NoFile
      <4>1. mixed' = (r \in shared)
        BY <1>8, <3>2 DEF Rename
      <4>2. mixed' = TRUE \/ mixed' = FALSE
        BY <4>1
      <4> QED BY <4>2
    <3> QED BY <3>1, <3>2
  <2>3. /\ stage' \in [Request -> Stage] /\ snapshot' \in [Request -> [Pool -> Override]]
        /\ shared' \subseteq Request
    BY <1>8, AnswerType DEF Rename
  <2> QED BY <1>8, <2>1, <2>2, <2>3 DEF Rename
<1>9. CASE Restart
  BY <1>9 DEF Restart, Fault, Stored, Parses, NoFile
<1>10. CASE UNCHANGED vars
  BY <1>10 DEF vars, history
<1> QED BY <1>1, <1>3, <1>4, <1>5, <1>6, <1>7, <1>8, <1>9, <1>10 DEF Next

(* The live limits keep their type, however requests interleave, fail and  *)
(* are cut off by a restart.                                               *)
THEOREM LimitsTyped == Spec => []TypeOK
  BY TypeInit, TypeStep, PTL DEF Spec

(* The limits in force are never crossed nor below one runner, although    *)
(* requests are validated against values that others change meanwhile, and *)
(* kept overrides meet an edited configuration (limitsFor).                *)
THEOREM LimitsAlwaysMakeSense == Spec => []LimitsMakeSense
<1>1. TypeOK => LimitsMakeSense
  <2> SUFFICES ASSUME TypeOK, NEW p \in Pool
               PROVE  LET lim == EffectiveLimits(conf[p], mem[p])
                      IN  0 <= lim.min /\ lim.min <= lim.max /\ 1 <= lim.max
    BY DEF LimitsMakeSense
  <2>1. conf[p] \in Limit /\ mem[p] \in Override
    BY ConfsAssumption DEF TypeOK
  <2> QED BY <2>1 DEF Limit, Override, EffectiveLimits, Unset
<1> QED BY <1>1, LimitsTyped, PTL

---------------------------------------------------------------------------
(* The file, for a save that is alone *)

(* A request that has always saved alone has the temporary file to itself: *)
(* it is empty until it is written, whole when it is renamed, and nobody   *)
(* else has it open.  The file that such a request left stays as it is:    *)
(* nobody has that one open either.                                        *)
SaveInv ==
  /\ shared \subseteq Saving
  /\ \A r \in Saving \ shared : \A s \in Saving : s = r
  /\ \A r \in Request : stage[r] = "write" /\ r \notin shared =>
       fd[r] = tmp /\ tmp # NoFile /\ data[tmp] = Blank
  /\ \A r \in Request : stage[r] = "rename" /\ r \notin shared =>
       tmp # NoFile /\ data[tmp].state = "whole"
  /\ \A r \in Request : fd[r] # NoFile => stage[r] = "write"
  /\ tmp # NoFile => tmp # file
  /\ ~mixed => Parses /\ (file # NoFile => \A r \in Request : fd[r] # file)

LEMMA SaveInit == Init => SaveInv
  BY DEF Init, SaveInv, Saving, Parses

(* A request that ends makes way for those that still save. *)
LEMMA AnswerSaves ==
  ASSUME TypeOK, SaveInv, NEW r \in Saving, Answer(r)
  PROVE  /\ Saving' = Saving \ {r}
         /\ shared' \subseteq Saving'
         /\ \A q \in Saving' \ shared' : FALSE
<1>1. stage' = [stage EXCEPT ![r] = "idle"] /\ shared' = shared \ {r}
  BY DEF Answer
<1>2. Saving' = Saving \ {r}
  BY <1>1 DEF Saving, TypeOK
<1> QED BY <1>1, <1>2 DEF SaveInv

LEMMA SaveStep == TypeOK /\ SaveInv /\ [Next]_vars => SaveInv'
<1> SUFFICES ASSUME TypeOK, SaveInv, [Next]_vars PROVE SaveInv'
  OBVIOUS
<1> USE DEF TypeOK, SaveInv, Parses, disk, history, Stage
<1>1. ASSUME NEW r \in Request, Validate(r)
      PROVE  SaveInv'
  <2>1. Saving' = Saving
    BY <1>1 DEF Validate, Saving
  <2> QED BY <1>1, <2>1 DEF Validate
<1>2. ASSUME NEW r \in Request, Set(r) \/ Clear(r)
      PROVE  SaveInv'
  <2>1. /\ stage' = [stage EXCEPT ![r] = "open"]
        /\ shared' = IF Saving = {} THEN {} ELSE Saving \cup {r}
        /\ UNCHANGED <<fd, data, tmp, file, mixed>>
    BY <1>2 DEF Set, Clear, Put, BeginSaving
  <2>2. Saving' = Saving \cup {r} /\ r \notin Saving
    BY <1>2, <2>1 DEF Saving, Set, Clear
  <2>3. \A s \in Request : stage'[s] = stage[s] \/ (s = r /\ stage'[s] = "open" /\ stage[s] # "write")
    BY <1>2, <2>1 DEF Set, Clear
  <2>4. \A s \in Request : stage'[s] \in {"write", "rename"} => s \in Saving
    BY <2>3 DEF Saving
  <2> QED BY <2>1, <2>2, <2>3, <2>4
<1>3. ASSUME NEW r \in Request, OpenTmp(r)
      PROVE  SaveInv'
  <2> DEFINE f == IF tmp = NoFile THEN FreeFile ELSE tmp
  <2>1. f \in File /\ f # file /\ f # NoFile
    BY AFileIsFree DEF File, NoFile
  <2>2. /\ fd' = [fd EXCEPT ![r] = f] /\ data' = [data EXCEPT ![f] = Blank] /\ tmp' = f
        /\ stage[r] = "open" /\ stage' = [stage EXCEPT ![r] = "write"]
        /\ UNCHANGED <<file, shared, mixed>>
    BY <1>3 DEF OpenTmp
  <2>3. Saving' = Saving /\ r \in Saving
    BY <2>2 DEF Saving
  <2>4. \A s \in Request : s # r /\ s \notin shared => stage[s] \notin {"write", "rename"}
    BY <2>3 DEF Saving
  <2>5. data'[f] = Blank /\ \A g \in File : g # f => data'[g] = data[g]
    BY <2>1, <2>2
  <2> HIDE DEF f
  <2> QED BY <2>1, <2>2, <2>3, <2>4, <2>5
<1>4. ASSUME NEW r \in Request, WriteTmp(r)
      PROVE  SaveInv'
  <2>1. PICK c \in Overwrite(data[fd[r]], snapshot[r]) : data' = [data EXCEPT ![fd[r]] = c]
    BY <1>4 DEF WriteTmp
  <2>2. /\ fd' = [fd EXCEPT ![r] = NoFile]
        /\ stage[r] = "write" /\ stage' = [stage EXCEPT ![r] = "rename"]
        /\ UNCHANGED <<tmp, file, shared, mixed>>
    BY <1>4 DEF WriteTmp
  <2>3. Saving' = Saving /\ r \in Saving
    BY <2>2 DEF Saving
  <2>4. \A s \in Request : s # r /\ s \notin shared => stage[s] \notin {"write", "rename"}
    BY <2>3 DEF Saving
  <2>5. r \notin shared => tmp # NoFile /\ data'[tmp].state = "whole"
    <3> SUFFICES ASSUME r \notin shared
                 PROVE  tmp # NoFile /\ data'[tmp].state = "whole"
      OBVIOUS
    <3>1. fd[r] = tmp /\ tmp # NoFile /\ tmp \in File /\ data[tmp] = Blank
      BY <2>2
    <3>2. data' = [data EXCEPT ![tmp] = Whole(snapshot[r])]
      BY <2>1, <3>1 DEF Overwrite
    <3>3. data'[tmp] = Whole(snapshot[r])
      BY <3>1, <3>2
    <3> QED BY <3>1, <3>3 DEF Whole
  <2>6. ~mixed => data'[file] = data[file] \/ file = NoFile
    BY <2>1, <2>2
  <2> QED BY <2>2, <2>3, <2>4, <2>5, <2>6
<1>5. ASSUME NEW r \in Request, WriteTmpFails(r)
      PROVE  SaveInv'
  <2>1. /\ data' = [data EXCEPT ![fd[r]] = Torn] /\ fd' = [fd EXCEPT ![r] = NoFile]
        /\ stage[r] = "write" /\ stage' = [stage EXCEPT ![r] = "idle"]
        /\ Answer(r)
        /\ UNCHANGED <<tmp, file, mixed>>
    BY <1>5 DEF WriteTmpFails, Answer
  <2>2. /\ Saving' = Saving \ {r} /\ shared' \subseteq Saving'
        /\ \A q \in Saving' \ shared' : FALSE
    BY <2>1, AnswerSaves DEF Saving
  <2>3. \A s \in Request : stage'[s] \in {"write", "rename"} => s \in shared'
    BY <2>2 DEF Saving
  <2>4. ~mixed => data'[file] = data[file] \/ file = NoFile
    BY <2>1
  <2> QED BY <2>1, <2>2, <2>3, <2>4
<1>6. ASSUME NEW r \in Request, Rename(r)
      PROVE  SaveInv'
  <2>1. /\ stage[r] = "rename" /\ stage' = [stage EXCEPT ![r] = "idle"]
        /\ Answer(r)
        /\ UNCHANGED <<fd, data>>
    BY <1>6 DEF Rename, Answer
  <2>2. /\ Saving' = Saving \ {r} /\ shared' \subseteq Saving'
        /\ \A q \in Saving' \ shared' : FALSE
    BY <2>1, AnswerSaves DEF Saving
  <2>3. \A s \in Request : stage'[s] \in {"write", "rename"} => s \in shared'
    BY <2>2 DEF Saving
  <2>4. \A s \in Request : fd[s] # NoFile => stage[s] = "write" /\ s # r /\ stage'[s] = "write"
    BY <2>1
  <2>5. CASE tmp = NoFile
    <3>1. UNCHANGED <<tmp, file, mixed>>
      BY <1>6, <2>5 DEF Rename
    <3> QED BY <2>1, <2>2, <2>3, <2>4, <3>1
  <2>6. CASE tmp # NoFile
    <3>1. file' = tmp /\ tmp' = NoFile /\ mixed' = (r \in shared)
      BY <1>6, <2>6 DEF Rename
    <3>2. r \notin shared => data[tmp].state = "whole" /\ \A s \in Request : fd[s] = NoFile
      BY <2>1, <2>4 DEF Saving
    <3>3. ~mixed' => Parses' /\ \A s \in Request : fd'[s] # file'
      BY <2>1, <2>6, <3>1, <3>2
    <3> QED BY <2>1, <2>2, <2>3, <2>4, <3>1, <3>3
  <2> QED BY <2>5, <2>6
<1>7. CASE Restart
  <2>1. /\ stage' = [r \in Request |-> "idle"] /\ fd' = [r \in Request |-> NoFile]
        /\ shared' = {} /\ UNCHANGED <<data, tmp, file, mixed>>
    BY <1>7 DEF Restart
  <2>2. Saving' = {}
    BY <2>1 DEF Saving
  <2> QED BY <2>1, <2>2
<1>8. CASE UNCHANGED vars
  <2>1. Saving' = Saving
    BY <1>8 DEF vars, Saving
  <2> QED BY <1>8, <2>1 DEF vars
<1> QED BY <1>1, <1>2, <1>3, <1>4, <1>5, <1>6, <1>7, <1>8 DEF Next

(* A save that has had the temporary file to itself leaves a file the next *)
(* start can read, wherever the daemon stops, whichever write fails and    *)
(* whoever still has an older file open (persist, overrides.go:107).       *)
THEOREM LoneSavesAlwaysParse == Spec => []LoneSavesParse
<1>1. SaveInv => LoneSavesParse
  BY DEF SaveInv, LoneSavesParse
<1> QED BY <1>1, SaveInit, SaveStep, LimitsTyped, PTL DEF Spec

---------------------------------------------------------------------------
(* Overrides implements DurableLimits *)

Copies == {snapshot[r] : r \in Saving}
OnDisk == IF Parses THEN {Stored} ELSE {}

(* While anybody has opened the temporary file since the last start, what  *)
(* is there as a whole is the copy of a request that is yet to rename it.  *)
TmpInv ==
  (/\ tmp # NoFile /\ data[tmp].state = "whole"
   /\ \E s \in Request : stage[s] \in {"write", "rename"})
  => \E s \in Request : stage[s] = "rename" /\ snapshot[s] = data[tmp].limits

LEMMA TmpStep == TypeOK /\ TmpInv /\ [Next]_vars => TmpInv'
<1> SUFFICES ASSUME TypeOK, TmpInv, [Next]_vars PROVE TmpInv'
  OBVIOUS
<1> USE DEF TypeOK, TmpInv, disk, Stage
<1>1. ASSUME NEW r \in Request, Validate(r)
      PROVE  TmpInv'
  BY <1>1 DEF Validate
<1>2. ASSUME NEW r \in Request, Set(r) \/ Clear(r)
      PROVE  TmpInv'
  <2>1. /\ stage[r] \in {"idle", "valid"} /\ stage' = [stage EXCEPT ![r] = "open"]
        /\ snapshot' = [snapshot EXCEPT ![r] = mem'] /\ UNCHANGED <<data, tmp>>
    BY <1>2 DEF Set, Clear, Put, BeginSaving
  <2> QED BY <2>1
<1>3. ASSUME NEW r \in Request, OpenTmp(r)
      PROVE  TmpInv'
  <2> DEFINE f == IF tmp = NoFile THEN FreeFile ELSE tmp
  <2>1. f \in File
    BY AFileIsFree
  <2>2. data' = [data EXCEPT ![f] = Blank] /\ tmp' = f
    BY <1>3 DEF OpenTmp
  <2>3. data'[tmp'].state = "empty"
    BY <2>1, <2>2 DEF Blank
  <2> QED BY <2>3
<1>4. ASSUME NEW r \in Request, WriteTmp(r)
      PROVE  TmpInv'
  <2>1. PICK c \in {Whole(snapshot[r]), Torn} : data' = [data EXCEPT ![fd[r]] = c]
    BY <1>4 DEF WriteTmp, Overwrite
  <2>2. /\ stage[r] = "write" /\ stage' = [stage EXCEPT ![r] = "rename"]
        /\ UNCHANGED <<snapshot, tmp>>
    BY <1>4 DEF WriteTmp
  <2>3. CASE tmp # NoFile /\ fd[r] = tmp
    <3>1. data'[tmp] = c
      BY <2>1, <2>3
    <3>2. data'[tmp].state = "whole" => snapshot[r] = data'[tmp].limits
      BY <3>1 DEF Whole, Torn
    <3> QED BY <2>2, <3>2
  <2>4. CASE tmp # NoFile /\ fd[r] # tmp
    BY <2>1, <2>2, <2>4
  <2> QED BY <2>2, <2>3, <2>4
<1>5. ASSUME NEW r \in Request, WriteTmpFails(r)
      PROVE  TmpInv'
  <2>1. /\ data' = [data EXCEPT ![fd[r]] = Torn]
        /\ stage[r] = "write" /\ stage' = [stage EXCEPT ![r] = "idle"]
        /\ snapshot' = [snapshot EXCEPT ![r] = Empty] /\ tmp' = tmp
    BY <1>5 DEF WriteTmpFails, Answer
  <2>2. CASE tmp # NoFile /\ fd[r] = tmp
    <3>1. data'[tmp].state = "torn"
      BY <2>1, <2>2 DEF Torn
    <3> QED BY <2>1, <3>1
  <2>3. CASE tmp # NoFile /\ fd[r] # tmp
    BY <2>1, <2>3
  <2> QED BY <2>1, <2>2, <2>3
<1>6. ASSUME NEW r \in Request, Rename(r)
      PROVE  TmpInv'
  <2>1. tmp' = NoFile
    BY <1>6 DEF Rename
  <2> QED BY <2>1
<1>7. CASE Restart
  BY <1>7 DEF Restart
<1>8. CASE UNCHANGED vars
  BY <1>8 DEF vars
<1> QED BY <1>1, <1>2, <1>3, <1>4, <1>5, <1>6, <1>7, <1>8 DEF Next

LEMMA DurableInit == Init => DL!Init
  BY DEF Init, DL!Init, DL!AtFirst, Saving, Parses, Stored, Empty, NoFile

(* A request that is answered takes its copy with it, and no other. *)
LEMMA AnswerCopies ==
  ASSUME TypeOK, NEW r \in Saving, Answer(r)
  PROVE  snapshot[r] \in Copies /\ Copies' \subseteq Copies
<1>1. /\ stage' = [stage EXCEPT ![r] = "idle"]
      /\ snapshot' = [snapshot EXCEPT ![r] = Empty]
  BY DEF Answer
<1>2. Saving' = Saving \ {r}
  BY <1>1 DEF Saving, TypeOK
<1>3. \A q \in Saving' : q \in Saving /\ snapshot'[q] = snapshot[q]
  BY <1>1, <1>2 DEF Saving, TypeOK
<1> QED BY <1>3 DEF Copies

(* Writing to the file that is open changes what a restart reads only if   *)
(* that is the one.                                                        *)
LEMMA WriteOnDisk ==
  ASSUME TypeOK, NEW f, NEW c, data' = [data EXCEPT ![f] = c], file' = file
  PROVE  \/ OnDisk' = OnDisk
         \/ OnDisk' = IF c.state = "whole" THEN {c.limits} ELSE {}
<1>1. CASE file = NoFile
  BY <1>1 DEF OnDisk, Parses, Stored
<1>2. CASE file # NoFile /\ f # file
  <2>1. data'[file] = data[file]
    BY <1>2 DEF TypeOK
  <2> QED BY <1>2, <2>1 DEF OnDisk, Parses, Stored
<1>3. CASE file # NoFile /\ f = file
  <2>1. data'[file] = c
    BY <1>3 DEF TypeOK
  <2> QED BY <1>3, <2>1 DEF OnDisk, Parses, Stored
<1> QED BY <1>1, <1>2, <1>3

(* Each step is a change, a save, a restart, or none of these. *)
LEMMA DurableStep ==
  ASSUME TypeOK, SaveInv, TmpInv, [Next]_vars
  PROVE  [DL!Next]_<<mem, Copies, OnDisk>>
<1> USE DEF TypeOK, disk, history, Stage
<1>1. ASSUME NEW r \in Request, Validate(r)
      PROVE  UNCHANGED <<mem, Copies, OnDisk>>
  <2>1. Saving' = Saving
    BY <1>1 DEF Validate, Saving
  <2>2. UNCHANGED <<mem, snapshot, data, file>>
    BY <1>1 DEF Validate
  <2> QED BY <2>1, <2>2 DEF Copies, OnDisk, Parses, Stored
<1>2. ASSUME NEW r \in Request, Set(r) \/ Clear(r)
      PROVE  DL!Change
  <2>1. PICK p \in Pool : mem' = [mem EXCEPT ![p] = mem'[p]]
    BY <1>2 DEF Set, Clear, Put
  <2>2. /\ stage' = [stage EXCEPT ![r] = "open"] /\ stage[r] \in {"idle", "valid"}
        /\ snapshot' = [snapshot EXCEPT ![r] = mem'] /\ UNCHANGED <<data, file>>
    BY <1>2 DEF Set, Clear, Put, BeginSaving
  <2>3. Saving' = Saving \cup {r} /\ r \notin Saving
    BY <2>2 DEF Saving
  <2>4. \A q \in Saving : q \in Request /\ snapshot'[q] = snapshot[q]
    BY <2>2, <2>3 DEF Saving
  <2>5. snapshot'[r] = mem'
    BY <2>2
  <2>6. Copies' = Copies \cup {mem'}
    BY <2>3, <2>4, <2>5 DEF Copies
  <2>7. OnDisk' = OnDisk
    BY <2>2 DEF OnDisk, Parses, Stored
  <2>8. /\ \A q \in Pool \ {p} : mem'[q] = mem[q]
        /\ DOMAIN mem' = Pool
    BY <2>1
  <2> QED BY <2>6, <2>7, <2>8 DEF DL!Change, Copies, OnDisk
<1>3. ASSUME NEW r \in Request, OpenTmp(r)
      PROVE  UNCHANGED <<mem, Copies, OnDisk>>
  <2>1. PICK g : /\ data' = [data EXCEPT ![g] = Blank]
                 /\ g = IF tmp = NoFile THEN FreeFile ELSE tmp
    BY <1>3 DEF OpenTmp
  <2>2. /\ stage[r] = "open" /\ stage' = [stage EXCEPT ![r] = "write"]
        /\ UNCHANGED <<mem, snapshot, file>>
    BY <1>3 DEF OpenTmp
  <2>3. Saving' = Saving
    BY <2>2 DEF Saving
  <2>4. file = NoFile \/ data'[file] = data[file]
    BY <2>1, <2>2, AFileIsFree DEF SaveInv
  <2>5. Copies' = Copies
    BY <2>2, <2>3 DEF Copies
  <2>6. Parses' = Parses /\ Stored' = Stored
    BY <2>2, <2>4, Zenon DEF Parses, Stored
  <2> QED BY <2>2, <2>5, <2>6 DEF OnDisk
<1>4. ASSUME NEW r \in Request, WriteTmp(r)
      PROVE  DL!Save
  <2>1. PICK c \in {Whole(snapshot[r]), Torn} : data' = [data EXCEPT ![fd[r]] = c]
    BY <1>4 DEF WriteTmp, Overwrite
  <2>2. /\ stage[r] = "write" /\ stage' = [stage EXCEPT ![r] = "rename"]
        /\ UNCHANGED <<mem, snapshot, file>>
    BY <1>4 DEF WriteTmp
  <2>3. Saving' = Saving /\ r \in Saving
    BY <2>2 DEF Saving
  <2>4. Copies' = Copies /\ snapshot[r] \in Copies
    BY <2>2, <2>3 DEF Copies
  <2>5. OnDisk' = OnDisk \/ OnDisk' \in {{snapshot[r]}, {}}
    <3>1. OnDisk' = OnDisk \/ OnDisk' = IF c.state = "whole" THEN {c.limits} ELSE {}
      BY <2>1, <2>2, WriteOnDisk
    <3>2. c.state = "whole" => c.limits = snapshot[r]
      BY DEF Whole, Torn
    <3> QED BY <3>1, <3>2
  <2> QED BY <2>2, <2>4, <2>5 DEF DL!Save, Copies, OnDisk
<1>5. ASSUME NEW r \in Request, WriteTmpFails(r)
      PROVE  DL!Save
  <2>1. /\ data' = [data EXCEPT ![fd[r]] = Torn] /\ stage[r] = "write" /\ Answer(r)
        /\ UNCHANGED <<mem, file>>
    BY <1>5 DEF WriteTmpFails
  <2>2. snapshot[r] \in Copies /\ Copies' \subseteq Copies
    BY <2>1, AnswerCopies DEF Saving
  <2>3. OnDisk' = OnDisk \/ OnDisk' = {}
    <3>1. OnDisk' = OnDisk \/ OnDisk' = IF Torn.state = "whole" THEN {Torn.limits} ELSE {}
      BY <2>1, WriteOnDisk
    <3> QED BY <3>1 DEF Torn
  <2> QED BY <2>1, <2>2, <2>3 DEF DL!Save, Copies, OnDisk
<1>6. ASSUME NEW r \in Request, Rename(r)
      PROVE  DL!Save
  <2>1. stage[r] = "rename" /\ Answer(r) /\ UNCHANGED <<mem, data>>
    BY <1>6 DEF Rename
  <2>2. snapshot[r] \in Copies /\ Copies' \subseteq Copies
    BY <2>1, AnswerCopies DEF Saving
  <2>3. CASE tmp = NoFile
    <3>1. OnDisk' = OnDisk
      BY <1>6, <2>1, <2>3 DEF Rename, OnDisk, Parses, Stored
    <3> QED BY <2>1, <2>2, <3>1 DEF DL!Save, Copies, OnDisk
  <2>4. CASE tmp # NoFile
    <3>1. file' = tmp
      BY <1>6, <2>4 DEF Rename
    <3>2. OnDisk' = IF data[tmp].state = "whole" THEN {data[tmp].limits} ELSE {}
      BY <2>1, <2>4, <3>1 DEF OnDisk, Parses, Stored
    <3>3. data[tmp].state = "whole" => data[tmp].limits \in Copies
      BY <2>1, <2>4 DEF TmpInv, Copies, Saving
    <3>4. \E c \in Copies : OnDisk' \in {{c}, {}}
      BY <2>2, <3>2, <3>3
    <3> QED BY <2>1, <2>2, <3>4 DEF DL!Save, Copies, OnDisk
  <2> QED BY <2>3, <2>4
<1>7. CASE Restart
  <2>1. /\ mem' = IF Parses THEN Stored ELSE Empty
        /\ stage' = [r \in Request |-> "idle"] /\ UNCHANGED <<data, file>>
    BY <1>7 DEF Restart
  <2>2. Saving' = {}
    BY <2>1 DEF Saving
  <2>3. Copies' = {} /\ OnDisk' = OnDisk
    BY <2>1, <2>2 DEF Copies, OnDisk, Parses, Stored
  <2>4. mem' \in IF OnDisk = {} THEN {DL!AtFirst} ELSE OnDisk
    <3>1. CASE Parses
      BY <2>1, <3>1 DEF OnDisk
    <3>2. CASE ~Parses
      BY <2>1, <3>2 DEF OnDisk, DL!AtFirst, Empty
    <3> QED BY <3>1, <3>2
  <2> HIDE DEF TypeOK
  <2> QED BY <2>3, <2>4 DEF DL!Restart, DL!Next, Copies, OnDisk
<1>8. CASE UNCHANGED vars
  <2>1. UNCHANGED <<mem, Copies, OnDisk>>
    BY <1>8 DEF vars, Copies, Saving, OnDisk, Parses, Stored
  <2> QED BY <2>1
<1> QED BY <1>1, <1>2, <1>3, <1>4, <1>5, <1>6, <1>7, <1>8 DEF Next, DL!Next

(* What a restart puts in force is a copy of the whole map that a request  *)
(* made as it changed it, whatever fails and however saves overlap: the    *)
(* map with its file implements limits whose copies are saved in one step  *)
(* each (persist, LoadOverrides).                                          *)
THEOREM LimitsStayDurable == Spec => LimitsAreDurable
<1>1. Init => TmpInv
  BY DEF Init, TmpInv
<1>2. TypeOK /\ SaveInv /\ TmpInv /\ [Next]_vars =>
       [DL!Next]_<<mem, {snapshot[r] : r \in Saving}, IF Parses THEN {Stored} ELSE {}>>
  BY DurableStep DEF Copies, OnDisk
<1> QED
  BY <1>1, <1>2, TmpStep, SaveInit, SaveStep, DurableInit, LimitsTyped, PTL
     DEF Spec, LimitsAreDurable, DL!Spec
============================================================================
