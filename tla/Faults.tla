------------------------------- MODULE Faults -------------------------------
(***************************************************************************)
(* How a failed iteration is classified (engine/faults.py), from what the  *)
(* harness child left behind (engine/runner.py).                           *)
(*                                                                         *)
(* An ending is a record:                                                  *)
(*   error        what the error text is: "none", "aborted" (that word and *)
(*                nothing else), "infra" (a known outage signature),       *)
(*                "refused" (a refusal that needs its status), "no start"  *)
(*                (the harness would not start), "other"                   *)
(*   status       the HTTP status told: "none", "client" (a 4xx that is    *)
(*                not transient), "limit" (429)                            *)
(*   limit        "none", "rejected" (a fresh report says so), "typed" (a  *)
(*                rate-limit error type), "named" (a report, or the text,  *)
(*                names the limit)                                         *)
(*   failed       the child exited with a code other than 0                *)
(*   interrupted, timedOut, noTraffic, truncated, traffic, text            *)
(*   short        it took less than the instant-failure bound              *)
(*   warns        its last report warns of a nearly spent window           *)
(***************************************************************************)

\* A signal, a timeout or the watchdog left no clean exit; the watchdog fires
\* only before any traffic and then nothing else does; an exit code of the
\* signal marks the iteration interrupted, after the fact.
ChildLeaves(e) ==
    /\ e.noTraffic => ~e.traffic /\ ~e.timedOut /\ ~e.text
    /\ e.timedOut \/ e.noTraffic => ~e.short
    /\ e.interrupted => e.failed
    /\ e.text => e.traffic

NotAFailure(e) ==
    ~e.noTraffic /\ ~e.timedOut /\ ~e.interrupted /\ e.error = "none" /\ ~e.failed /\ ~e.truncated

\* A limit in structured form, or a bare 429 that something names a limit.
RateLimited(e) ==
    \/ e.limit \in {"rejected", "typed"}
    \/ e.status = "limit" /\ e.limit = "named"

\* Most refusals count only with their status beside the text.
Refused(e) == e.error = "no start" \/ (e.error = "refused" /\ e.status = "client")

FaultClass(e, aborting) ==
    IF NotAFailure(e) THEN "none"
    ELSE IF aborting THEN "work"
    ELSE IF RateLimited(e) THEN "rate_limit"
    ELSE IF Refused(e) THEN "refused"
    ELSE IF e.truncated /\ e.error = "none" THEN "truncated"
    ELSE IF e.noTraffic \/ e.error = "infra" THEN "infra"
    ELSE IF ~e.traffic THEN "infra"
    ELSE IF e.interrupted THEN "signal"
    ELSE IF e.error = "aborted" /\ ~e.failed THEN "infra"
    ELSE "work"

\* The agent process ended at once without a sign of work.
InstantFailure(e) ==
    /\ ~e.interrupted /\ ~e.timedOut /\ ~e.noTraffic
    /\ ~e.text /\ ~e.traffic /\ e.short
    /\ e.failed \/ e.error # "none"

\* Two instant failures are the same when their exit and their error are.
SignatureOf(e) == <<e.failed, e.error>>

\* An ending that says nothing of the plan: ask again.
CutShort(e) == e.interrupted \/ e.timedOut \/ e.noTraffic \/ e.failed

\* What the engine makes up when an abort took the wait before an iteration.
AbortedEnding ==
    [error |-> "aborted", status |-> "none", limit |-> "none", failed |-> FALSE,
     interrupted |-> TRUE, timedOut |-> FALSE, noTraffic |-> FALSE, truncated |-> FALSE,
     traffic |-> FALSE, text |-> FALSE, short |-> FALSE, warns |-> FALSE]

=============================================================================
