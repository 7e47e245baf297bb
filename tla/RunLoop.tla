------------------------------- MODULE RunLoop -------------------------------
(* When the loop of the orchestrator runs, and what it says of its health:     *)
(* Run's select over the poll ticker, the doorbell and housekeeping, the rate   *)
(* limit's circuit breaker, failed passes and Healthy; with the webhook pipeline *)
(* that rings the doorbell.  What a pass does is in Reconcile and JobPoll.        *)
EXTENDS Integers

CONSTANTS
  Interval,   \* units of time between polls
  Stale,      \* age at which the last pass is stale: five polls, a minute at least
  Tolerated,  \* failures in a row that are not taken for bad health
  MaxPass,    \* the longest a pass or housekeeping takes
  ResetIn     \* the longest until the rate limit is reset

ASSUME TimesAssumption ==
  /\ {Interval, Stale, MaxPass, ResetIn} \subseteq Nat \ {0}
  /\ Tolerated \in Nat

VARIABLES
  stage,     \* the loop: in its first pass, idle, in a pass, in housekeeping
  busy,      \* how long it has been there
  tick, keep, poke,   \* what its channels hold
  tickIn,    \* when the ticker fires next
  failures,  \* snapshot.ConsecutiveFailures
  age,       \* the age of snapshot.UpdatedAt; more than Stale if there is none
  low,       \* the budget that GitHub last reported was nearly gone
  resetIn,   \* when it is reset
  hook,      \* the webhooks: no tunnel, a tunnel, deliveries through the tunnel
  job,       \* a queued job: none, not seen yet, or polled by the current pass
  rung,      \* history: a delivery was accepted that no pass has followed
  trust      \* time since the last good pass, or the daemon, began

channels == <<tick, keep, poke, tickIn>>
health == <<failures, age, trust>>
budget == <<low, resetIn>>
vars == <<stage, busy, channels, health, budget, hook, job, rung>>

\* A good pass, housekeeping, waiting and failing as often as is tolerated, and
\* the time until the last failure is stale.
TrustBound == MaxPass + Tolerated * (2 * MaxPass + Interval) + Stale

Older(t, bound) == IF t > bound THEN t ELSE t + 1

-----------------------------------------------------------------------------
(* The daemon starts: no snapshot, no rate limit known, a new webhook secret;  *)
(* the first pass begins before the tickers run.                                 *)

Init ==
  /\ stage = "first" /\ busy = 0
  /\ tick = FALSE /\ keep = FALSE /\ poke = FALSE
  /\ tickIn = Interval /\ failures = 0 /\ age = Stale + 1 /\ trust = 0
  /\ low = FALSE /\ resetIn = 0 /\ hook = "down"
  /\ job \in {"none", "polled"} /\ rung = FALSE

Restart ==
  /\ stage' = "first" /\ busy' = 0
  /\ tick' = FALSE /\ keep' = FALSE /\ poke' = FALSE
  /\ tickIn' = Interval /\ failures' = 0 /\ age' = Stale + 1 /\ trust' = 0
  /\ low' = FALSE /\ resetIn' = 0 /\ hook' = "down" /\ rung' = FALSE
  /\ job' = IF job = "none" THEN "none" ELSE "polled"

-----------------------------------------------------------------------------
(* Time.  A ticker drops what its channel cannot hold.  An idle loop does not   *)
(* wait with something in a channel, and no pass takes longer than MaxPass.      *)
(* Housekeeping, every ten minutes, comes due at any time but while it runs.     *)

InPass == stage \in {"first", "pass"}
Due == tick \/ keep \/ poke

Time ==
  /\ IF stage = "idle" THEN ~Due ELSE busy < MaxPass
  /\ busy' = IF stage = "idle" THEN 0 ELSE busy + 1
  /\ IF stage = "first"
     THEN UNCHANGED <<tickIn, tick, keep>>
     ELSE /\ tickIn' = IF tickIn = 1 THEN Interval ELSE tickIn - 1
          /\ tick' = (tick \/ tickIn = 1)
          /\ keep' \in IF stage = "keeping" THEN {keep} ELSE {keep, TRUE}
  /\ age' = Older(age, Stale) /\ trust' = Older(trust, TrustBound)
  /\ resetIn' = IF resetIn = 0 THEN 0 ELSE resetIn - 1
  /\ UNCHANGED <<stage, poke, failures, low, hook, job, rung>>

-----------------------------------------------------------------------------
(* Passes *)

\* Every answer says how much of the rate limit is left and when it is reset.
Answered == \/ low' = FALSE /\ resetIn' = 0
            \/ low' = TRUE /\ resetIn' \in 1 .. ResetIn

MRecordFailureUncounted == failures' = failures /\ age' = 0
RecordFailure ==
  /\ failures' = IF failures > Tolerated THEN failures ELSE failures + 1
  /\ age' = 0

MPausedForGood == low
Paused == low /\ resetIn > 0

\* The circuit breaker: a pass that asks nothing and fails.
SitOut == Paused /\ RecordFailure /\ UNCHANGED <<stage, busy, job>>

Poll ==
  /\ ~Paused /\ stage' = "pass" /\ busy' = 0
  /\ job' = IF job = "none" THEN "none" ELSE "polled"
  /\ UNCHANGED <<failures, age>>

\* The select receives from the ticker or the doorbell; housekeeping may go first.
BeginPass ==
  /\ stage = "idle" /\ (SitOut \/ Poll)
  /\ rung' = FALSE
  /\ UNCHANGED <<keep, tickIn, trust, budget, hook>>

OnTick == tick /\ tick' = FALSE /\ UNCHANGED poke /\ BeginPass
OnPoke == poke /\ poke' = FALSE /\ UNCHANGED tick /\ BeginPass

\* After the first pass the tickers start.
MIdleStillBusy == stage' = "idle" /\ busy' = busy
Idle == stage' = "idle" /\ busy' = 0

\* The snapshot is as old as the beginning of its pass.
CompletePass ==
  /\ InPass /\ Idle /\ Answered
  /\ failures' = 0 /\ age' = busy /\ trust' = busy
  /\ job' = IF job = "polled" THEN "none" ELSE job
  /\ UNCHANGED <<channels, hook, rung>>

\* Repositories, runners or jobs cannot be listed.
FailPass ==
  /\ InPass /\ Idle /\ (Answered \/ UNCHANGED budget)
  /\ RecordFailure /\ trust' = trust
  /\ job' = IF job = "polled" THEN "new" ELSE job
  /\ UNCHANGED <<channels, hook, rung>>

BeginHousekeeping ==
  /\ stage = "idle" /\ keep /\ keep' = FALSE
  /\ stage' = "keeping" /\ busy' = 0
  /\ UNCHANGED <<tick, poke, tickIn, health, budget, hook, job, rung>>

EndHousekeeping ==
  /\ stage = "keeping" /\ Idle
  /\ UNCHANGED <<channels, health, budget, hook, job, rung>>

-----------------------------------------------------------------------------
(* Webhooks *)

QueueJob ==
  /\ job = "none" /\ job' = "new"
  /\ UNCHANGED <<stage, busy, channels, health, budget, hook, rung>>

\* The tunnel comes up under a new URL and the hooks are registered there, once,
\* with requests too few to matter to the budget.
StartTunnel ==
  /\ hook = "down" /\ hook' \in {"up", "delivers"}
  /\ UNCHANGED <<stage, busy, channels, health, budget, job, rung>>

TunnelExits ==
  /\ hook # "down" /\ hook' = "down"
  /\ UNCHANGED <<stage, busy, channels, health, budget, job, rung>>

MPokeUnbuffered == poke' = (stage = "idle")
Poke == poke' = TRUE

\* Signed deliveries arrive through the tunnel where its hook is registered.  A
\* job queued or completed rings the doorbell; other events do nothing.
Deliver ==
  /\ hook = "delivers" /\ Poke
  /\ rung' = TRUE
  /\ UNCHANGED <<stage, busy, tick, keep, tickIn, health, budget, hook, job>>

Loop == OnTick \/ OnPoke \/ CompletePass \/ FailPass \/ BeginHousekeeping \/ EndHousekeeping

Next ==
  \/ Time \/ Restart \/ Loop
  \/ QueueJob \/ StartTunnel \/ TunnelExits \/ Deliver

Spec == Init /\ [][Next]_vars

-----------------------------------------------------------------------------

Flags == /\ tick \in BOOLEAN /\ keep \in BOOLEAN /\ poke \in BOOLEAN
         /\ low \in BOOLEAN /\ rung \in BOOLEAN

Counts ==
  /\ stage \in {"first", "idle", "pass", "keeping"} /\ busy \in 0 .. MaxPass
  /\ tickIn \in 1 .. Interval
  /\ failures \in 0 .. Tolerated + 1 /\ age \in Nat /\ trust \in Nat
  /\ resetIn \in 0 .. ResetIn
  /\ hook \in {"down", "up", "delivers"} /\ job \in {"none", "new", "polled"}
  /\ (job = "polled" => InPass) /\ (stage = "idle" => busy = 0)

TypeOK == Flags /\ Counts

Healthy == failures <= Tolerated /\ age <= Stale

(* A daemon that says it is healthy has had a good pass not long ago (or has     *)
(* only just started): neither failing passes, which refresh the time of the       *)
(* snapshot, nor passes sat out nor the ones it is busy with hide that nothing     *)
(* was done (Healthy, recordFailure, the breaker).                                  *)
HealthyMeansRecent == Healthy => trust <= TrustBound

(* The loop never waits for the next poll with an accepted event that no pass has *)
(* followed, however events, ticks, passes and housekeeping coincide (Poke, Run).    *)
DoorbellIsAnswered == rung /\ stage = "idle" => Due

(* A queued job is seen although webhooks fail, tunnels exit and passes are sat   *)
(* out: polling alone suffices, if GitHub answers a pass now and then.              *)
JobsAreNoticed == job # "none" ~> job = "none"

\* Time passes however much happens, Go schedules the loop and chooses at random
\* among the channels that are ready, and passes do not fail for ever.
FairSpec == Spec /\ SF_vars(Time) /\ WF_vars(Loop)
                 /\ SF_vars(OnTick) /\ SF_vars(BeginHousekeeping) /\ SF_vars(CompletePass)
=============================================================================
