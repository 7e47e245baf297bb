--------------------------- MODULE RunLoopProofs ---------------------------
(***************************************************************************)
(* Theorems about the loop in time, for every interval, staleness,         *)
(* tolerance, length of a pass and reset of the rate limit.                *)
(***************************************************************************)
EXTENDS RunLoop, TLAPS

LEMMA BoundType == TrustBound \in Nat
<1>1. \A a, b \in Nat : a * b \in Nat
  OBVIOUS
<1>2. 2 * MaxPass + Interval \in Nat /\ Tolerated \in Nat /\ MaxPass \in Nat /\ Stale \in Nat
  BY TimesAssumption
<1>3. Tolerated * (2 * MaxPass + Interval) \in Nat
  BY <1>1, <1>2
<1> QED BY <1>2, <1>3 DEF TrustBound

LEMMA Numbers ==
  /\ Interval \in Nat /\ Interval # 0 /\ Stale \in Nat /\ MaxPass \in Nat /\ MaxPass # 0
  /\ ResetIn \in Nat /\ ResetIn # 0 /\ Tolerated \in Nat
  /\ TrustBound \in Nat
  BY TimesAssumption, BoundType

LEMMA TypeInit == Init => TypeOK
<1>1. Init => Flags
  BY DEF Init, Flags
<1>2. Init => Counts
  BY Numbers DEF Init, Counts, InPass
<1> QED BY <1>1, <1>2 DEF TypeOK

LEMMA FlagsStep == Flags /\ [Next]_vars => Flags'
<1> SUFFICES ASSUME Flags, [Next]_vars PROVE Flags'
  OBVIOUS
<1> USE DEF Flags
<1>1. CASE Time
  BY <1>1 DEF Time
<1>2. CASE Restart
  BY <1>2 DEF Restart
<1>3. CASE OnTick \/ OnPoke
  BY <1>3 DEF OnTick, OnPoke, BeginPass, budget
<1>4. CASE CompletePass \/ FailPass
  BY <1>4 DEF CompletePass, FailPass, Answered, channels, budget
<1>5. CASE BeginHousekeeping \/ EndHousekeeping
  BY <1>5 DEF BeginHousekeeping, EndHousekeeping, channels, budget
<1>6. CASE QueueJob \/ StartTunnel \/ TunnelExits
  BY <1>6 DEF QueueJob, StartTunnel, TunnelExits, channels, budget
<1>7. CASE Deliver
  BY <1>7 DEF Deliver, Poke, budget
<1>8. CASE UNCHANGED vars
  BY <1>8 DEF vars, channels, budget
<1> QED BY <1>1, <1>2, <1>3, <1>4, <1>5, <1>6, <1>7, <1>8 DEF Next, Loop

LEMMA CountsTime == Counts /\ Time => Counts'
<1> SUFFICES ASSUME Counts, Time PROVE Counts'
  OBVIOUS
<1>1. /\ stage = "idle" \/ busy < MaxPass
      /\ busy' = IF stage = "idle" THEN 0 ELSE busy + 1
  BY DEF Time
<1>2. tickIn' = tickIn \/ tickIn' = IF tickIn = 1 THEN Interval ELSE tickIn - 1
  BY DEF Time
<1>3. /\ age' = Older(age, Stale) /\ trust' = Older(trust, TrustBound)
      /\ resetIn' = IF resetIn = 0 THEN 0 ELSE resetIn - 1
      /\ stage' = stage /\ failures' = failures /\ hook' = hook /\ job' = job
  BY DEF Time
<1>4. (stage = "idle" => busy' = 0) /\ busy' \in 0 .. MaxPass
  BY Numbers, <1>1 DEF Counts
<1>5. tickIn' \in 1 .. Interval
  BY Numbers, <1>2 DEF Counts
<1>6. age' \in Nat /\ trust' \in Nat
  BY Numbers, <1>3 DEF Counts, Older
<1>7. resetIn' \in 0 .. ResetIn
  BY Numbers, <1>3 DEF Counts
<1> QED BY <1>3, <1>4, <1>5, <1>6, <1>7 DEF Counts, InPass

LEMMA CountsStep == Counts /\ [Next]_vars => Counts'
<1> SUFFICES ASSUME Counts, [Next]_vars PROVE Counts'
  OBVIOUS
<1> USE Numbers DEF Counts, InPass
<1>1. CASE Time
  BY <1>1, CountsTime
<1>2. CASE Restart
  BY <1>2 DEF Restart
<1>3. CASE OnTick \/ OnPoke
  BY <1>3 DEF OnTick, OnPoke, BeginPass, SitOut, Poll, RecordFailure, budget
<1>4. CASE CompletePass
  BY <1>4 DEF CompletePass, Idle, Answered, channels
<1>5. CASE FailPass
  BY <1>5 DEF FailPass, Idle, Answered, RecordFailure, channels, budget
<1>6. CASE BeginHousekeeping \/ EndHousekeeping
  BY <1>6 DEF BeginHousekeeping, EndHousekeeping, Idle, channels, health, budget
<1>7. CASE QueueJob \/ StartTunnel \/ TunnelExits
  BY <1>7 DEF QueueJob, StartTunnel, TunnelExits, channels, health, budget
<1>8. CASE Deliver
  BY <1>8 DEF Deliver, health, budget
<1>9. CASE UNCHANGED vars
  BY <1>9 DEF vars, channels, health, budget
<1> QED BY <1>1, <1>2, <1>3, <1>4, <1>5, <1>6, <1>7, <1>8, <1>9 DEF Next, Loop

LEMMA TypeStep == TypeOK /\ [Next]_vars => TypeOK'
  BY FlagsStep, CountsStep DEF TypeOK

(* The loop keeps its types (Run, Healthy, recordFailure, Poke). *)
THEOREM LoopTyped == Spec => []TypeOK
<1> QED BY TypeInit, TypeStep, PTL DEF Spec

-----------------------------------------------------------------------------
(* An accepted delivery is in the doorbell's channel until a pass takes it out. *)

RungInv == rung => poke

LEMMA RungStep == TypeOK /\ RungInv /\ [Next]_vars => RungInv'
<1> SUFFICES ASSUME TypeOK, RungInv, [Next]_vars PROVE RungInv'
  OBVIOUS
<1> USE DEF RungInv
<1>1. CASE Time \/ Restart
  BY <1>1 DEF Time, Restart
<1>2. CASE OnTick \/ OnPoke
  BY <1>2 DEF OnTick, OnPoke, BeginPass
<1>3. CASE CompletePass \/ FailPass \/ EndHousekeeping
  BY <1>3 DEF CompletePass, FailPass, EndHousekeeping, channels
<1>4. CASE BeginHousekeeping \/ QueueJob \/ StartTunnel \/ TunnelExits
  BY <1>4 DEF BeginHousekeeping, QueueJob, StartTunnel, TunnelExits, channels
<1>5. CASE Deliver
  BY <1>5 DEF Deliver, Poke
<1>6. CASE UNCHANGED vars
  BY <1>6 DEF vars, channels
<1> QED BY <1>1, <1>2, <1>3, <1>4, <1>5, <1>6 DEF Next, Loop

(* The loop never waits with an accepted delivery that no pass has followed,  *)
(* whatever else it does at the time (Poke, Run).                               *)
THEOREM DoorbellIsAlwaysAnswered == Spec => []DoorbellIsAnswered
<1>1. Init => RungInv
  BY DEF Init, RungInv
<1>2. RungInv => DoorbellIsAnswered
  BY DEF RungInv, DoorbellIsAnswered, Due
<1> QED BY <1>1, <1>2, RungStep, LoopTyped, PTL DEF Spec

-----------------------------------------------------------------------------
(* Health.  Remaining is the longest until the next pass is recorded, from     *)
(* where the loop is; between two records lie at most Gap units of time.          *)

Gap == 2 * MaxPass + Interval

Remaining ==
  IF InPass THEN MaxPass - busy
  ELSE IF ~tick THEN tickIn + 2 * MaxPass
  ELSE IF stage = "keeping" THEN 2 * MaxPass - busy
  ELSE IF keep THEN 2 * MaxPass ELSE MaxPass

\* Where good passes lie back if so many have failed since.
Back(n) == MaxPass + n * Gap

TrustByRecords == failures <= Tolerated => trust + Remaining <= Back(failures) + Gap
TrustByAge == failures <= Tolerated /\ age <= Stale => trust <= Back(failures) + age
TrustInv ==
  /\ stage = "keeping" => ~keep
  /\ TrustByRecords /\ TrustByAge

LEMMA GapType == Gap \in Nat
  BY TimesAssumption DEF Gap

LEMMA BackGrows ==
  ASSUME NEW n \in Nat
  PROVE  /\ Back(n) \in Nat /\ MaxPass <= Back(n)
         /\ Back(n + 1) = Back(n) + Gap
         /\ n <= Tolerated => Back(n) + Stale <= TrustBound
<1>1. \A g, m, t \in Nat :
        n * g \in Nat /\ (n + 1) * g = n * g + g /\ (n <= t => n * g <= t * g)
  OBVIOUS
<1>2. n * Gap \in Nat /\ (n + 1) * Gap = n * Gap + Gap
      /\ (n <= Tolerated => n * Gap <= Tolerated * Gap)
  BY <1>1, GapType, Numbers
<1>3. TrustBound = MaxPass + Tolerated * Gap + Stale
  BY DEF TrustBound, Gap
<1>4. Tolerated * Gap \in Nat
  BY GapType, Numbers
<1> HIDE DEF Gap
<1> QED BY <1>2, <1>3, <1>4, GapType, Numbers DEF Back

RemainingBounds ==
  /\ Remaining \in Nat
  /\ stage = "idle" => Remaining <= Gap /\ Remaining >= MaxPass
  /\ InPass => Remaining = MaxPass - busy

LEMMA RemainingIsBounded == TypeOK => RemainingBounds
<1> SUFFICES ASSUME TypeOK PROVE RemainingBounds
  OBVIOUS
<1>1. tick \in BOOLEAN /\ keep \in BOOLEAN
  BY DEF TypeOK, Flags
<1> QED BY <1>1, Numbers DEF RemainingBounds, TypeOK, Counts, Remaining, InPass, Gap

(* Each unit of time brings the next record a unit nearer. *)
LEMMA RemainingTime ==
  ASSUME TypeOK, TrustInv, Time
  PROVE  Remaining' + 1 <= Remaining
<1>1. tick \in BOOLEAN /\ keep \in BOOLEAN /\ (stage = "keeping" => ~keep)
  BY DEF TypeOK, Flags, TrustInv
<1>2. stage' = stage /\ busy' = IF stage = "idle" THEN 0 ELSE busy + 1
  BY DEF Time
<1>3. CASE InPass
  BY <1>2, <1>3, Numbers DEF InPass, Remaining, TypeOK, Counts
<1>4. CASE ~InPass /\ tick
  <2>1. stage = "keeping"
    BY <1>4 DEF Time, Due, InPass, TypeOK, Counts
  <2>2. tick'
    BY <1>4, <2>1 DEF Time
  <2> QED BY <1>2, <1>4, <2>1, <2>2, Numbers DEF InPass, Remaining, TypeOK, Counts
<1>5. CASE ~InPass /\ ~tick
  <2>1. tickIn' = IF tickIn = 1 THEN Interval ELSE tickIn - 1
    BY <1>5 DEF Time, InPass
  <2>2. tick' <=> tickIn = 1
    BY <1>5 DEF Time, InPass
  <2>3. stage = "idle" \/ busy < MaxPass
    BY DEF Time
  <2> QED BY <1>2, <1>5, <2>1, <2>2, <2>3, Numbers DEF InPass, Remaining, TypeOK, Counts
<1> QED BY <1>3, <1>4, <1>5

LEMMA RemainingTyped == TypeOK' => RemainingBounds'
  BY RemainingIsBounded, PTL

LEMMA BackType ==
  ASSUME TypeOK
  PROVE  /\ failures \in Nat /\ trust \in Nat /\ age \in Nat /\ busy \in 0 .. MaxPass
         /\ Gap \in Nat /\ Tolerated \in Nat /\ MaxPass \in Nat
         /\ Back(failures) \in Nat /\ Back(failures + 1) = Back(failures) + Gap
  BY GapType, Numbers, BackGrows DEF TypeOK, Counts

LEMMA TrustKept ==
  ASSUME TypeOK, TypeOK', TrustInv, health' = health, Remaining' <= Remaining
  PROVE  TrustByRecords' /\ TrustByAge'
<1>1. failures' = failures /\ trust' = trust /\ age' = age
  BY DEF health
<1>2. Remaining \in Nat /\ Remaining' \in Nat
  BY RemainingIsBounded, RemainingTyped DEF RemainingBounds
<1> QED BY <1>1, <1>2, BackType DEF TrustInv, TrustByRecords, TrustByAge

(* A failure counts, and the next record comes within Gap. *)
LEMMA TrustFailed ==
  ASSUME TypeOK, TypeOK', TrustInv, RecordFailure, trust' = trust, stage' = "idle"
  PROVE  TrustByRecords' /\ TrustByAge'
<1>1. Remaining \in Nat /\ Remaining' \in Nat /\ Remaining' <= Gap
  BY RemainingIsBounded, RemainingTyped DEF RemainingBounds
<1>2. age' = 0 /\ failures' = IF failures > Tolerated THEN failures ELSE failures + 1
  BY DEF RecordFailure
<1>3. CASE failures > Tolerated
  BY <1>2, <1>3, BackType DEF TrustByRecords, TrustByAge
<1>4. CASE failures <= Tolerated
  <2>1. failures' = failures + 1 /\ Back(failures') = Back(failures) + Gap
    BY <1>2, <1>4, BackType
  <2>2. trust <= Back(failures) + Gap
    BY <1>1, <1>4, BackType DEF TrustInv, TrustByRecords
  <2> QED BY <1>1, <1>2, <2>1, <2>2, BackType DEF TrustByRecords, TrustByAge
<1> QED BY <1>3, <1>4, BackType

(* A good pass goes back to where it began, at most MaxPass ago. *)
LEMMA TrustCompleted ==
  ASSUME TypeOK, TypeOK', CompletePass
  PROVE  TrustByRecords' /\ TrustByAge'
<1>1. Remaining' \in Nat /\ Remaining' <= Gap
  BY RemainingTyped DEF RemainingBounds, CompletePass, Idle
<1>2. failures' = 0 /\ trust' = busy /\ age' = busy
  BY DEF CompletePass
<1>3. Back(0) \in Nat /\ MaxPass <= Back(0)
  BY BackGrows
<1> QED BY <1>1, <1>2, <1>3, BackType DEF TrustByRecords, TrustByAge

LEMMA TrustTime ==
  ASSUME TypeOK, TypeOK', TrustInv, Time
  PROVE  TrustByRecords' /\ TrustByAge'
<1>1. Remaining \in Nat /\ Remaining' \in Nat /\ Remaining' + 1 <= Remaining
  BY RemainingIsBounded, RemainingTyped, RemainingTime DEF RemainingBounds
<1>2. failures' = failures /\ age' = Older(age, Stale) /\ trust' = Older(trust, TrustBound)
  BY DEF Time
<1>3. trust \in Nat /\ trust' \in Nat /\ age \in Nat /\ age' \in Nat
  BY DEF TypeOK, Counts
<1>4. trust' <= trust + 1
  BY <1>2, <1>3, Numbers DEF Older
<1>5. age' <= Stale => age <= Stale /\ age' = age + 1
  BY <1>2, <1>3, Numbers DEF Older
<1>6. TrustByRecords'
  <2>1. \A t, u, r, q, b \in Nat : u <= t + 1 /\ q + 1 <= r /\ t + r <= b => u + q <= b
    OBVIOUS
  <2>2. \A b \in Nat : trust + Remaining <= b => trust' + Remaining' <= b
    BY <1>1, <1>3, <1>4, <2>1
  <2> QED BY <1>2, <2>2, BackType DEF TrustInv, TrustByRecords
<1>7. TrustByAge'
  BY <1>2, <1>3, <1>4, <1>5, BackType DEF TrustInv, TrustByAge
<1> QED BY <1>6, <1>7

LEMMA TrustRestart ==
  ASSUME TypeOK', Restart
  PROVE  TrustByRecords' /\ TrustByAge'
<1>1. Remaining' = MaxPass
  BY Numbers DEF Restart, Remaining, InPass
<1>2. failures' = 0 /\ trust' = 0 /\ age' = Stale + 1
  BY DEF Restart
<1>3. Back(0) \in Nat /\ MaxPass <= Back(0)
  BY BackGrows
<1> QED BY <1>1, <1>2, <1>3, GapType, Numbers DEF TrustByRecords, TrustByAge

(* A pass begins, or housekeeping does: what it takes was counted already. *)
LEMMA RemainingSteps ==
  ASSUME TypeOK, TrustInv,
         \/ (OnTick \/ OnPoke) /\ Poll
         \/ BeginHousekeeping \/ EndHousekeeping
         \/ QueueJob \/ StartTunnel \/ TunnelExits \/ Deliver \/ UNCHANGED vars
  PROVE  Remaining' <= Remaining
<1>1. tick \in BOOLEAN /\ keep \in BOOLEAN /\ (stage = "keeping" => ~keep)
  BY DEF TypeOK, Flags, TrustInv
<1>2. CASE (OnTick \/ OnPoke) /\ Poll
  <2>1. stage = "idle" /\ stage' = "pass" /\ busy' = 0
    BY <1>2 DEF OnTick, OnPoke, BeginPass, Poll
  <2> QED BY <2>1, RemainingIsBounded, Numbers DEF RemainingBounds, Remaining, InPass
<1>3. CASE BeginHousekeeping
  <2>1. /\ stage = "idle" /\ keep /\ stage' = "keeping" /\ busy' = 0
        /\ tick' = tick /\ tickIn' = tickIn
    BY <1>3 DEF BeginHousekeeping
  <2> QED BY <2>1, Numbers DEF Remaining, InPass, TypeOK, Counts
<1>4. CASE EndHousekeeping
  <2>1. /\ stage = "keeping" /\ ~keep /\ stage' = "idle"
        /\ tick' = tick /\ keep' = keep /\ tickIn' = tickIn
    BY <1>1, <1>4 DEF EndHousekeeping, Idle, channels
  <2> QED BY <2>1, Numbers DEF Remaining, InPass, TypeOK, Counts
<1>5. CASE QueueJob \/ StartTunnel \/ TunnelExits \/ Deliver \/ UNCHANGED vars
  <2>1. stage' = stage /\ busy' = busy /\ tick' = tick /\ keep' = keep /\ tickIn' = tickIn
    BY <1>5 DEF QueueJob, StartTunnel, TunnelExits, Deliver, vars, channels
  <2>2. Remaining' = Remaining
    BY <2>1 DEF Remaining, InPass
  <2> QED BY <2>2, RemainingIsBounded DEF RemainingBounds
<1> QED BY <1>2, <1>3, <1>4, <1>5

LEMMA TrustStep == TypeOK /\ TypeOK' /\ TrustInv /\ [Next]_vars => TrustInv'
<1> SUFFICES ASSUME TypeOK, TypeOK', TrustInv, [Next]_vars PROVE TrustInv'
  OBVIOUS
<1>1. stage' = "keeping" => ~keep'
  BY DEF TrustInv, Next, Loop, Time, Restart, OnTick, OnPoke, BeginPass, SitOut, Poll,
         CompletePass, FailPass, Idle, BeginHousekeeping, EndHousekeeping, QueueJob,
         StartTunnel, TunnelExits, Deliver, vars, channels
<1>2. CASE Time
  BY <1>1, <1>2, TrustTime DEF TrustInv
<1>3. CASE Restart
  BY <1>1, <1>3, TrustRestart DEF TrustInv
<1>4. CASE CompletePass
  BY <1>1, <1>4, TrustCompleted DEF TrustInv
<1>5. CASE FailPass \/ ((OnTick \/ OnPoke) /\ SitOut)
  <2>1. RecordFailure /\ trust' = trust /\ stage' = "idle"
    BY <1>5 DEF FailPass, OnTick, OnPoke, BeginPass, SitOut, Idle
  <2> QED BY <1>1, <2>1, TrustFailed DEF TrustInv
<1>6. CASE \/ (OnTick \/ OnPoke) /\ Poll
           \/ BeginHousekeeping \/ EndHousekeeping
           \/ QueueJob \/ StartTunnel \/ TunnelExits \/ Deliver \/ UNCHANGED vars
  <2>1. health' = health
    BY <1>6 DEF OnTick, OnPoke, BeginPass, Poll, BeginHousekeeping, EndHousekeeping,
                QueueJob, StartTunnel, TunnelExits, Deliver, vars, health
  <2>2. Remaining' <= Remaining
    BY <1>6, RemainingSteps
  <2> QED BY <1>1, <2>1, <2>2, TrustKept DEF TrustInv
<1> QED
  BY <1>2, <1>3, <1>4, <1>5, <1>6 DEF Next, Loop, OnTick, OnPoke, BeginPass

(* A daemon that says it is healthy has had a good pass, or has started, not  *)
(* longer ago than the tolerated failures and a stale snapshot allow for,       *)
(* whatever the intervals and the length of passes (Healthy, recordFailure).     *)
THEOREM HealthyMeansRecentAlways == Spec => []HealthyMeansRecent
<1>1. Init => TrustInv
  <2> SUFFICES ASSUME Init PROVE TrustInv
    OBVIOUS
  <2>1. Remaining = MaxPass
    BY Numbers DEF Init, Remaining, InPass
  <2>2. Back(0) \in Nat /\ MaxPass <= Back(0)
    BY BackGrows
  <2>3. stage = "first" /\ failures = 0 /\ trust = 0 /\ age = Stale + 1
    BY DEF Init
  <2> QED BY <2>1, <2>2, <2>3, GapType, Numbers DEF TrustInv, TrustByRecords, TrustByAge
<1>2. TypeOK /\ TrustInv => HealthyMeansRecent
  <2> SUFFICES ASSUME TypeOK, TrustInv, Healthy PROVE trust <= TrustBound
    BY DEF HealthyMeansRecent
  <2>1. Back(failures) + Stale <= TrustBound
    BY BackType, BackGrows DEF Healthy
  <2> QED BY <2>1, BackType, Numbers DEF TrustInv, TrustByAge, Healthy
<1> QED BY <1>1, <1>2, TrustStep, LoopTyped, PTL DEF Spec
=============================================================================
