------------------------------ MODULE Steering ------------------------------
(***************************************************************************)
(* The life of a steering message: from the file an operator's request     *)
(* writes (engine/state.py, RunDir.add_steering) through the iteration     *)
(* that is handed it, the marker that says it was consumed, the steer      *)
(* hat's claim to have settled it and, after an honest `settled: false`,   *)
(* its redelivery (engine/loop.py).  Supervisor counts messages; here each *)
(* one is followed, and a kill may fall between any two writes.            *)
(***************************************************************************)
EXTENDS Integers, FiniteSets

CONSTANTS
    Messages,       \* steering/NNN-*.md files that may arrive
    RedeliveryMax,  \* steer_redelivery_max
    Mishaps         \* which of SteeringMishaps happen

\* late: a message arrives while a steer iteration runs or waits, and the
\* iteration is attempted again;
\* faulted: a steer iteration ends with an error, yet with a payload;
\* broken: the steer hat's payload never meets its contract; killed: the engine
\* is killed after the iteration's end, before its consequences are all written.
SteeringMishaps == {"late", "faulted", "broken", "killed"}

ASSUME SteeringAssumption ==
    /\ RedeliveryMax \in Nat
    /\ Mishaps \subseteq SteeringMishaps

Hats == {"steer", "planning", "worker", "judge"}

\* STEERING_ACTIONABLE_PHASES: the hats whose prompt carries the messages.
Actionable == {"steer", "planning", "worker"}

VARIABLES
    files,       \* the messages on disk
    consumed,    \* steering/.consumed.json
    claim,       \* steering/.ledger.json: the steer hat's last `settled`
    exhausted,   \* steering/.ledger.json: settledByExhaustion
    redelivered, \* status.json steerRedeliveries
    deferred,    \* status.json steerDeferredRedelivery
    at,          \* where the engine stands
    hat,         \* the hat of the iteration
    captured,    \* _step_generic_hat's delivered_steering
    handed,      \* _run_iteration_once's pending
    fault,       \* the attempt's fault_class is not None
    heard,       \* history: acted on by a hat that answers for nothing more
    apart,       \* history: an iteration of another hat ran since the deferral
    tries        \* history: clean steer iterations that answered for a message

disk == <<files, consumed, claim, exhausted, redelivered, deferred>>
memory == <<at, hat, captured, handed, fault>>
history == <<heard, apart, tries>>
vars == <<disk, memory, history>>

\* "idle" is between two iterations (or no process at all), "again" before one
\* is asked for anew inside the steer step, "dispatch" at an attempt's start,
\* "run" while the harness runs, "wait" between two attempts.  "answering" reads
\* the steer hat's payload; the last four stand between two durable writes.
Places == {"idle", "again", "dispatch", "run", "wait", "answering",
           "ended", "flushed", "unsettled", "counting"}

TypeOK ==
    /\ files \in SUBSET Messages /\ consumed \in SUBSET Messages
    /\ claim \in [Messages -> {"none", "settled", "unsettled"}]
    /\ exhausted \in SUBSET Messages
    /\ redelivered \in [Messages -> 0 .. RedeliveryMax]
    /\ deferred \in SUBSET Messages
    /\ at \in Places /\ hat \in Hats
    /\ captured \in SUBSET Messages /\ handed \in SUBSET Messages
    /\ fault \in BOOLEAN
    /\ heard \in SUBSET Messages /\ apart \in SUBSET Messages
    /\ tries \in [Messages -> Nat]

Init ==
    /\ files = {} /\ consumed = {} /\ exhausted = {} /\ deferred = {}
    /\ claim = [m \in Messages |-> "none"]
    /\ redelivered = [m \in Messages |-> 0]
    /\ at = "idle" /\ hat = "planning" /\ captured = {} /\ handed = {}
    /\ fault = FALSE /\ heard = {} /\ apart = {} /\ tries = [m \in Messages |-> 0]

-----------------------------------------------------------------------------
(* Arrival, dispatch and the attempts of one iteration *)

\* pending_steering
Pending == files \ consumed

\* _unsettled_steering_names: what refuses a verified verdict.
Unsettled == Pending \cup deferred

\* POST /steer, wherever the engine awaits.
Arrive(m) ==
    /\ m \notin files
    /\ at \in {"idle", "again", "run", "wait", "answering"}
    /\ files' = files \cup {m}
    /\ UNCHANGED <<consumed, claim, exhausted, redelivered, deferred, memory,
                   history>>

\* A step begins an iteration.  In the worker's step steering comes first; the
\* steer hat is asked only about something, and the names are noted up front.
Dispatch(h) ==
    /\ at = "idle"
    /\ h = "steer" => Pending # {}
    /\ h = "worker" => Pending = {}
    /\ hat' = h /\ at' = "dispatch"
    /\ captured' = IF h = "steer" THEN Pending ELSE {}
    /\ handed' = {} /\ fault' = FALSE
    /\ UNCHANGED <<disk, history>>

\* The steer step asks again: `continue` goes back to where the names are noted.
DispatchAgain ==
    /\ at = "again"
    /\ at' = "dispatch" /\ captured' = Pending
    /\ UNCHANGED <<disk, hat, handed, fault, history>>

\* ... or there is no budget to, and the run is over.
GivesUp ==
    /\ at = "again"
    /\ at' = "idle" /\ captured' = {} /\ handed' = {}
    /\ UNCHANGED <<disk, hat, fault, history>>

\* _run_iteration_once: every attempt is handed what is pending as it starts.
Attempt ==
    /\ at = "dispatch"
    /\ at' = "run"
    /\ handed' = IF hat \in Actionable THEN Pending ELSE {}
    /\ UNCHANGED <<disk, hat, captured, fault, history>>

\* A rate limit nearly spent puts the attempt off before it starts.
PutOff ==
    /\ at = "dispatch"
    /\ at' = "wait"
    /\ UNCHANGED <<disk, hat, captured, handed, fault, history>>

\* The wait (rate limit, refused provider, outage backoff) is over: the same
\* iteration is attempted again.
Waited ==
    /\ at = "wait"
    /\ hat = "steer" /\ Pending # captured => "late" \in Mishaps
    /\ at' = "dispatch"
    /\ UNCHANGED <<disk, hat, captured, handed, fault, history>>

\* A message or an abort ends an outage's backoff: the failed attempt is what
\* the step gets.
WokenEarly ==
    /\ at = "wait" /\ fault
    /\ at' = IF hat = "steer" THEN "again" ELSE "idle"
    /\ UNCHANGED <<disk, hat, captured, handed, fault, history>>

\* Mutant: delivery is consumption, whatever becomes of the iteration.
FailsConsumed(next) ==
    /\ at = "run"
    /\ hat = "steer" /\ next = "answering" => "faulted" \in Mishaps
    /\ consumed' = consumed \cup handed
    /\ at' = IF hat = "steer" THEN next ELSE "ended"
    /\ fault' = TRUE
    /\ UNCHANGED <<files, claim, exhausted, redelivered, deferred, hat, captured,
                   handed, history>>

\* The attempt fails, and consumes nothing.  The steer hat's is made again after
\* a wait ("wait"), or was cut short and is asked for anew ("again"), or ended
\* with an error though its process exited normally: its payload is read.
Fails(next) ==
    /\ at = "run"
    /\ hat = "steer" /\ next = "answering" => "faulted" \in Mishaps
    /\ at' = IF hat = "steer" THEN next ELSE "ended"
    /\ fault' = TRUE
    /\ UNCHANGED <<disk, hat, captured, handed, history>>

\* A clean end: consume_steering.
EndsClean ==
    /\ at = "run"
    /\ consumed' = consumed \cup handed
    /\ at' = IF hat = "steer" THEN "answering" ELSE "ended"
    /\ fault' = FALSE
    /\ heard' = IF hat = "steer" THEN heard ELSE heard \cup handed
    /\ tries' = IF hat = "steer"
                THEN [m \in Messages |-> IF m \in captured THEN tries[m] + 1
                                         ELSE tries[m]]
                ELSE tries
    /\ UNCHANGED <<files, claim, exhausted, redelivered, deferred, hat, captured,
                   handed, apart>>

-----------------------------------------------------------------------------
(* After another hat's iteration: what was deferred is pending again *)

\* Back to the step, or, after a failure, to another attempt.
Leaves(next) == next = "wait" => fault

\* _flush_deferred_steering_redelivery: the marker first ...
Flush(next) ==
    /\ at = "ended" /\ Leaves(next)
    /\ consumed' = consumed \ deferred
    /\ at' = IF deferred = {} THEN next ELSE "flushed"
    /\ apart' = apart \cup deferred
    /\ UNCHANGED <<files, claim, exhausted, redelivered, deferred, hat, captured,
                   handed, fault, heard, tries>>

\* Mutant: the queue is never cleared.
FlushedKeepsQueue(next) ==
    /\ at = "flushed" /\ Leaves(next)
    /\ at' = next
    /\ UNCHANGED <<disk, hat, captured, handed, fault, history>>

\* ... and the queue second.
Flushed(next) ==
    /\ at = "flushed" /\ Leaves(next)
    /\ deferred' = {} /\ at' = next
    /\ UNCHANGED <<files, consumed, claim, exhausted, redelivered, hat, captured,
                   handed, fault, history>>

-----------------------------------------------------------------------------
(* What the steer hat answers for the messages it was noted to have *)

\* record_steering_settlement
Answers(settled) ==
    /\ at = "answering"
    /\ claim' = [m \in Messages |->
                    IF m \notin captured THEN claim[m]
                    ELSE IF settled THEN "settled" ELSE "unsettled"]
    /\ heard' = IF settled THEN heard \cup handed ELSE heard
    /\ at' = IF settled \/ captured = {} THEN "idle" ELSE "unsettled"
    /\ UNCHANGED <<files, consumed, exhausted, redelivered, deferred, hat,
                   captured, handed, fault, apart, tries>>

\* The contract ladder is exhausted.
Breaks ==
    /\ at = "answering" /\ (captured # {} => "broken" \in Mishaps)
    /\ at' = "again"
    /\ UNCHANGED <<disk, hat, captured, handed, fault, history>>

\* Mutant: one redelivery more than allowed.
SpentOffByOne(m) == redelivered[m] > RedeliveryMax

\* The message was redelivered as often as it may be.
Spent(m) == redelivered[m] >= RedeliveryMax

\* _handle_unsettled_steering: the ledger closes those that are spent ...
Exhausts ==
    /\ at = "unsettled"
    /\ exhausted' = exhausted \cup {m \in captured : Spent(m)}
    /\ heard' = heard \cup {m \in captured : Spent(m)}
    /\ at' = "counting"
    /\ UNCHANGED <<files, consumed, claim, redelivered, deferred, hat, captured,
                   handed, fault, apart, tries>>

\* Mutant: pending again at once, with no iteration in between.
DefersAtOnce ==
    LET again == {m \in captured : ~Spent(m)}
    IN  /\ at = "counting"
        /\ redelivered' = [m \in Messages |-> IF m \in again
                                              THEN redelivered[m] + 1
                                              ELSE redelivered[m]]
        /\ consumed' = consumed \ again
        /\ apart' = apart \ again
        /\ at' = "idle"
        /\ UNCHANGED <<files, claim, exhausted, deferred, hat, captured, handed,
                       fault, heard, tries>>

\* ... and one write counts and defers the others.
Defers ==
    LET again == {m \in captured : ~Spent(m)}
    IN  /\ at = "counting"
        /\ redelivered' = [m \in Messages |-> IF m \in again
                                              THEN redelivered[m] + 1
                                              ELSE redelivered[m]]
        /\ deferred' = deferred \cup again
        /\ apart' = apart \ again
        /\ at' = "idle"
        /\ UNCHANGED <<files, consumed, claim, exhausted, hat, captured, handed,
                       fault, heard, tries>>

-----------------------------------------------------------------------------

\* The process is killed; the next one starts between two iterations.
Kill ==
    /\ \/ at \in {"again", "dispatch", "run", "wait", "ended"}
       \/ at # "idle" /\ "killed" \in Mishaps
    /\ at' = "idle" /\ captured' = {} /\ handed' = {}
    /\ UNCHANGED <<disk, hat, fault, history>>

Next ==
    \/ \E m \in Messages : Arrive(m)
    \/ \E h \in Hats : Dispatch(h)
    \/ DispatchAgain \/ GivesUp \/ Attempt \/ PutOff \/ Waited \/ WokenEarly
    \/ EndsClean
    \/ \E next \in {"wait", "again", "answering"} : Fails(next)
    \/ \E next \in {"idle", "wait"} : Flush(next) \/ Flushed(next)
    \/ \E settled \in BOOLEAN : Answers(settled)
    \/ Breaks \/ Exhausts \/ Defers
    \/ Kill

Spec == Init /\ [][Next]_vars

-----------------------------------------------------------------------------
(* Properties *)

\* Where the run may end, nothing is left that _terminal_success_blockers does
\* not see: every message that arrived was acted on by a clean planning or worker
\* iteration, was in front of a steer hat that claimed to have settled it, or
\* was given up at the redelivery cap.
HeardBeforeSuccess == at = "idle" /\ Unsettled = {} => files \subseteq heard

\* A message that was consumed and then settled or given up is never handed to
\* anybody again.
ClosedStaysClosed ==
    [][\A m \in Messages :
          m \in consumed /\ (claim[m] = "settled" \/ m \in exhausted)
              => m \in consumed']_vars

\* A message the steer hat could not settle comes back to it only once an
\* iteration of another hat has run (so the loop cannot spin on the operator's
\* message).
RedeliveredApart ==
    [][captured' # captured =>
          \A m \in captured' : claim[m] = "unsettled" => m \in apart]_vars

\* The steer hat answers for one message at most 1 + steer_redelivery_max times.
TriesBounded == \A m \in Messages : tries[m] <= RedeliveryMax + 1

-----------------------------------------------------------------------------
(* The inductive invariants behind them *)

\* Nothing is handed out or consumed that never arrived.
OnDisk == consumed \cup handed \subseteq files

\* Which hat stands where: only the steer hat's iteration is answered for.
HatInPlace ==
    /\ at \in {"ended", "flushed"} => hat # "steer"
    /\ at \in {"again", "answering", "unsettled", "counting"} => hat = "steer"

\* The steer hat is noted to have what is pending, and handed at least that;
\* once it is asked to answer for it, it has been consumed.
NotedMessages ==
    /\ hat = "steer" /\ at \in {"dispatch", "run", "wait"} => captured \subseteq Pending
    /\ hat = "steer" /\ at \in {"run", "answering"} => captured \subseteq handed
    /\ at \in {"answering", "unsettled", "counting"} =>
          captured \subseteq consumed \ deferred
    /\ at \in {"unsettled", "counting"} =>
          \A m \in captured : claim[m] = "unsettled"

\* What waits for its redelivery is open, and stays off the market until then.
DeferredOpen ==
    /\ \A m \in deferred : claim[m] = "unsettled" /\ m \notin exhausted
    /\ IF at = "flushed" THEN deferred \cap consumed = {}
       ELSE deferred \subseteq consumed

\* A message is only given up at the cap, which never moves away again.
GivenUpSpent == \A m \in exhausted : Spent(m)

\* Every redelivery allows for one more try, which starts with a message that
\* is pending again and ends with one that is consumed.
TriesCounted ==
    \A m \in Messages :
        /\ tries[m] <= redelivered[m] + 1
        /\ m \notin consumed \/ m \in deferred => tries[m] <= redelivered[m]

\* An unsettled message that is pending again was kept apart.
PendingApart ==
    \A m \in Messages \ consumed : claim[m] = "unsettled" => m \in apart

\* Holds as long as no iteration is answered for after a fault and no kill
\* falls between two writes that belong together.
BookkeepingInv ==
    /\ TypeOK /\ OnDisk /\ HatInPlace /\ NotedMessages /\ DeferredOpen
    /\ GivenUpSpent /\ TriesCounted /\ PendingApart

\* The steer hat is handed nothing but what it is noted to have.
HandedNoted ==
    /\ hat = "steer" /\ at = "dispatch" => Pending \subseteq captured
    /\ hat = "steer" /\ at = "run" => handed \subseteq captured

\* A consumed message was heard, waits for its redelivery, or is being answered
\* for; one at the cap is not deferred any more, and counts as heard.
Accounted ==
    /\ \A m \in files : \/ m \in heard \cup deferred \/ m \notin consumed
                        \/ /\ at \in {"answering", "unsettled", "counting"}
                           /\ m \in captured
    /\ at = "counting" => \A m \in captured : Spent(m) => m \in heard

IInv == BookkeepingInv /\ HandedNoted /\ Accounted

=============================================================================
