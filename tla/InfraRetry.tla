----------------------------- MODULE InfraRetry -----------------------------
(***************************************************************************)
(* One iteration, retried through outages (engine/loop.py): an attempt     *)
(* that failed for the infrastructure is refunded and taken again after a  *)
(* backoff, until the episode's outage budget or the attempt cap is spent; *)
(* a rate limit is waited out, up to a ceiling; a refusal ends the run.    *)
(* Every wait extends the job's deadline by what was waited.               *)
(*                                                                         *)
(* The caller asks (at = "asked") and takes the result once at is "left".  *)
(* Time is counted in ticks; an attempt works one, or fails at once.       *)
(***************************************************************************)
EXTENDS Integers, Sequences, FiniteSetsExt, Faults

CONSTANTS
    Endings,        \* what a child may leave behind
    Schedule,       \* the backoff schedule; its last entry repeats
    BackoffMax,     \* infra_retry_backoff_max_s
    OutageBudget,   \* infra_outage_budget_s
    ReflectBudget,  \* REFLECT_OUTAGE_BUDGET_S
    RetryMax,       \* infra_retry_max, 0 for none
    RateWaits,      \* the waits a reported reset may ask for
    RateWaitMax,    \* rate_limit_max_wait_s
    JobTime,        \* job_timeout_s
    MaxInstant,     \* MAX_CONSECUTIVE_INSTANT_FAILURES
    BellMax         \* bound: manual retries, steering bells, deadlines set

ASSUME RetryAssumption ==
    /\ \A e \in Endings : ChildLeaves(e)
    /\ Schedule # <<>> /\ \A i \in DOMAIN Schedule : Schedule[i] \in Nat \ {0}
    /\ BackoffMax \in Nat \ {0} /\ OutageBudget \in Nat /\ ReflectBudget \in Nat
    /\ RetryMax \in Nat /\ RateWaits \subseteq Nat /\ RateWaitMax \in Nat
    /\ JobTime \in Nat /\ MaxInstant \in Nat \ {0} /\ BellMax \in Nat

VARIABLES
    at,         \* "idle", "asked", "attempt", "backoff", "limited", "delay" or "left"
    result,     \* how the last attempt ended, until it is taken
    outage,     \* the last attempt failed for the infrastructure (_last_fault_class)
    episode,    \* the outage: attempts, waited; the streak of same instant failures
    wait,       \* the wait under way: planned, elapsed
    rateWaited, \* what rate limits have taken of their ceiling
    warned,     \* the last report warns of a nearly spent window
    clock,      \* left to the deadline, worked, ran (this attempt), allowance
    charged,    \* iterations charged
    abort,      \* why the run is giving up; "none" while it is not
    window,     \* the reflection's: open, and the reason it parks
    bells       \* bells rung so far

retryVars ==
    <<at, result, outage, episode, wait, rateWaited, warned, clock, charged, abort, window, bells>>

NoEpisode == [attempts |-> 0, waited |-> 0, streak |-> 0, same |-> <<>>]
NoWait == [planned |-> 0, elapsed |-> 0]
FreshClock == [left |-> JobTime, worked |-> 0, ran |-> FALSE, allowance |-> JobTime]
NoWindow == [open |-> FALSE, parked |-> "none"]

RetryInit ==
    /\ at = "idle" /\ result = AbortedEnding /\ outage = FALSE
    /\ episode = NoEpisode /\ wait = NoWait
    /\ rateWaited = 0 /\ warned = FALSE
    /\ clock = FreshClock /\ charged = 0
    /\ abort = "none" /\ window = NoWindow /\ bells = 0

\* The reflection may not hold a finished run for hours.
BudgetNow == IF window.open THEN Min({OutageBudget, ReflectBudget}) ELSE OutageBudget

Backoff(attempts) ==
    Min({Schedule[Min({attempts, Len(Schedule)})], BackoffMax, BudgetNow - episode.waited})

\* Mutant (a plausible bug): only a backoff is given back.
ExtendedByOutage == [clock EXCEPT !.left = IF at = "backoff" THEN @ + wait.elapsed ELSE @]

\* The wait is over: what was waited is given back to the job.
Extended == [clock EXCEPT !.left = @ + wait.elapsed]

StartWait(planned) == wait' = [planned |-> planned, elapsed |-> 0]

\* A limit is waited out, unless that would pass the ceiling: then the run ends.
WaitOutRateLimit ==
    \E planned \in RateWaits :
        \/ /\ rateWaited + planned > RateWaitMax
           /\ at' = "left" /\ abort' = "ceiling" /\ UNCHANGED wait
        \/ /\ rateWaited + planned <= RateWaitMax
           /\ at' = "limited" /\ StartWait(planned) /\ UNCHANGED abort

(***************************************************************************)
(* An attempt.                                                             *)
(***************************************************************************)
\* A window reported as nearly spent is waited out before the attempt.
Preempt ==
    /\ at = "asked" /\ warned
    /\ warned' = FALSE
    /\ WaitOutRateLimit
    /\ result' = AbortedEnding
    /\ UNCHANGED <<outage, episode, rateWaited, clock, charged, window, bells>>

\* The iteration is charged as it starts.
Begin ==
    /\ at = "asked" /\ ~warned
    /\ at' = "attempt" /\ charged' = charged + 1
    /\ clock' = [clock EXCEPT !.ran = FALSE]
    /\ UNCHANGED <<outage, result, episode, wait, rateWaited, warned, abort, window, bells>>

\* No deadline is looked at while an attempt runs or is taken again.
Work ==
    /\ at = "attempt" /\ ~clock.ran
    /\ clock' = [clock EXCEPT !.left = @ - 1, !.worked = @ + 1, !.ran = TRUE]
    /\ UNCHANGED <<outage, at, result, episode, wait, rateWaited, warned, charged, abort, window, bells>>

\* Past the cap and the schedule's end one attempt is as good as another.
AttemptsTold == Max({RetryMax, Len(Schedule)})

\* The instant-failure streak, scored once for each result.
Scored(e, fault) ==
    IF fault = "infra" /\ e.error = "infra" THEN episode
    ELSE IF ~InstantFailure(e) THEN [episode EXCEPT !.streak = 0, !.same = <<>>]
    ELSE [episode EXCEPT !.same = SignatureOf(e),
                         !.streak = IF @ > 0 /\ episode.same = SignatureOf(e) THEN @ + 1 ELSE 1]

Ends(e) ==
    /\ at = "attempt" /\ e.short = ~clock.ran
    /\ result' = e /\ warned' = e.warns
    /\ outage' = (FaultClass(e, abort # "none") = "infra")

\* Refunded: waiting for a window is no work.
EndLimited(e) ==
    /\ Ends(e) /\ FaultClass(e, abort # "none") = "rate_limit"
    /\ charged' = charged - 1
    /\ WaitOutRateLimit
    /\ UNCHANGED <<episode, rateWaited, clock, window, bells>>

\* Not retried: the run ends and a resume takes the same work again.
EndRefused(e) ==
    /\ Ends(e) /\ FaultClass(e, abort # "none") = "refused"
    /\ charged' = charged - 1
    /\ at' = "left" /\ abort' = "refused"
    /\ UNCHANGED <<episode, wait, rateWaited, clock, window, bells>>

\* Whatever says that the provider answered ends the outage.
EndAnswered(e) ==
    /\ Ends(e) /\ FaultClass(e, abort # "none") \notin {"rate_limit", "refused", "infra"}
    /\ at' = "left" /\ episode' = NoEpisode
    /\ UNCHANGED <<wait, rateWaited, clock, charged, abort, window, bells>>

\* An outage that ended at once, yet not as an instant failure does, is the
\* caller's: neither scored nor refunded here.
AtOnce(e) ==
    FaultClass(e, FALSE) = "infra" /\ e.short /\ ~e.noTraffic /\ ~InstantFailure(e)

EndAtOnce(e) ==
    /\ Ends(e) /\ FaultClass(e, abort # "none") = "infra" /\ AtOnce(e)
    /\ at' = "left"
    /\ UNCHANGED <<episode, wait, rateWaited, clock, charged, abort, window, bells>>

\* Refunded and, while the breaker, the cap and the budget allow it, retried.
EndOutage(e) ==
    /\ Ends(e) /\ FaultClass(e, abort # "none") = "infra"
    /\ ~AtOnce(e)
    /\ charged' = charged - 1
    /\ LET scored == Scored(e, "infra")
           attempts == Min({episode.attempts + 1, AttemptsTold})
           broken == scored.streak >= MaxInstant
           capped == RetryMax > 0 /\ attempts >= RetryMax
           spent == episode.waited >= BudgetNow
       IN  /\ episode' = [scored EXCEPT !.attempts = attempts]
           /\ \/ /\ broken \/ capped \/ spent
                 /\ at' = "left" /\ abort' = (IF broken THEN "broken" ELSE "outage")
                 /\ UNCHANGED wait
              \/ /\ ~broken /\ ~capped /\ ~spent
                 /\ at' = "backoff" /\ StartWait(Backoff(attempts))
                 /\ UNCHANGED abort
    /\ UNCHANGED <<rateWaited, clock, window, bells>>

(***************************************************************************)
(* A wait passes, is over, or is cut short.                                *)
(***************************************************************************)
Waiting == at \in {"backoff", "limited", "delay"}

Tick ==
    /\ Waiting /\ wait.elapsed < wait.planned
    /\ wait' = [wait EXCEPT !.elapsed = @ + 1]
    /\ clock' = [clock EXCEPT !.left = @ - 1]
    /\ UNCHANGED <<outage, at, result, episode, rateWaited, warned, charged, abort, window, bells>>

\* Mutant (a plausible bug): a backoff's time is not counted against the episode.
AccountedUncounted(back) ==
    /\ clock' = Extended /\ wait' = NoWait
    /\ rateWaited' = IF at = "limited" THEN rateWaited + wait.elapsed ELSE rateWaited
    /\ UNCHANGED episode

\* What was waited is the episode's, or the ceiling's; told that the endpoint is
\* back, the episode starts anew.
Accounted(back) ==
    /\ clock' = Extended /\ wait' = NoWait
    /\ rateWaited' = IF at = "limited" THEN rateWaited + wait.elapsed ELSE rateWaited
    /\ episode' = [episode EXCEPT !.waited = IF at = "limited" THEN @ ELSE IF back THEN 0
                                             ELSE @ + wait.elapsed]

\* A backoff that ran its course is retried, an abort in its last instant or not.
WaitOver ==
    /\ Waiting /\ wait.elapsed = wait.planned
    /\ Accounted(FALSE) /\ at' = "asked"
    /\ UNCHANGED <<outage, result, warned, charged, abort, window, bells>>

\* The operator asks for a retry now.
RetryNow ==
    /\ Waiting /\ bells < BellMax /\ bells' = bells + 1
    /\ Accounted(TRUE) /\ at' = "asked"
    /\ UNCHANGED <<outage, result, warned, charged, abort, window>>

\* Cut short, a backoff leaves with no further attempt; the delay before the
\* reflection only ends.
CutTo == IF at = "delay" THEN "asked" ELSE "left"

\* A message cuts an outage's wait; a rate limit is waited on.
Steered ==
    /\ at \in {"backoff", "delay"} /\ wait.elapsed < wait.planned
    /\ bells < BellMax /\ bells' = bells + 1
    /\ Accounted(FALSE) /\ at' = CutTo
    /\ UNCHANGED <<outage, result, warned, charged, abort, window>>

Wakeable == at = "limited" \/ (Waiting /\ wait.elapsed < wait.planned)

Abort ==
    /\ abort = "none" /\ abort' = "operator"
    /\ \/ Wakeable /\ Accounted(FALSE) /\ at' = CutTo
       \/ ~Wakeable /\ UNCHANGED <<at, clock, wait, episode, rateWaited>>
    /\ UNCHANGED <<outage, result, warned, charged, window, bells>>

\* The operator moves the deadline by a tick.
SetDeadline ==
    /\ at # "idle" /\ bells < BellMax /\ bells' = bells + 1
    /\ clock' = [clock EXCEPT !.left = @ + 1, !.allowance = @ + 1]
    /\ UNCHANGED <<outage, at, result, episode, wait, rateWaited, warned, charged, abort, window>>

AttemptEnds ==
    \E e \in Endings :
        EndLimited(e) \/ EndRefused(e) \/ EndAnswered(e) \/ EndAtOnce(e) \/ EndOutage(e)

\* What the engine does by itself.
Proceed == Preempt \/ Begin \/ Work \/ AttemptEnds \/ Tick \/ WaitOver
Bell == RetryNow \/ Steered \/ Abort \/ SetDeadline

RetryNext == Proceed \/ Bell

BudgetLeft(iterations) == charged < iterations /\ clock.left > 0 /\ abort = "none"

=============================================================================
