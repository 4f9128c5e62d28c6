----------------------------- MODULE Transitions -----------------------------
(***************************************************************************)
(* The engine's declared state table (engine/transitions.py).  An edge is  *)
(* kept as its target: is_legal, and so TransitionExecutor.advance, never  *)
(* looks at the guard's name.                                              *)
(***************************************************************************)

StepStates ==
    {"planning", "worker", "verify", "review", "replan", "reflect", "steer",
     "plan_review", "verdict_gate", "cure", "paused"}

RunTerminalStates == {"succeeded", "failed", "aborted"}

ExhaustedState == "exhausted"

EntryState == "planning"

Table ==
    [planning  |-> {"planning", "replan", "worker"},
     worker    |-> {"steer", "worker", "review", "replan", "finishing"},
     review    |-> {"worker", "finishing", "replan", "cure", "review", "paused"},
     replan    |-> {"finishing", "planning"},
     finishing |-> {"reflect"} \cup RunTerminalStates,
     reflect   |-> RunTerminalStates,
     steer     |-> {"worker"},
     cure      |-> {"worker"},
     paused    |-> {"review", "worker", "cure", "replan"},
     exhausted |-> {"worker", "replan"}]

VigilantDelta == [worker |-> Table.worker \cup {"verify"}, verify |-> {"worker"}]

PeerPlanReviewDelta ==
    [planning    |-> Table.planning \cup {"plan_review"},
     plan_review |-> {"planning", "worker"}]

PeerVerdictGateDelta ==
    [review       |-> Table.review \cup {"verdict_gate"},
     verdict_gate |-> {"finishing", "cure", "paused", "replan"},
     paused       |-> Table.paused \cup {"verdict_gate"}]

\* dict.update: the later table's row replaces the earlier one's.
Updated(table, delta) ==
    [s \in DOMAIN table \cup DOMAIN delta |->
        IF s \in DOMAIN delta THEN delta[s] ELSE table[s]]

TableFor(vigilant, planReview, verdictGate) ==
    LET t1 == IF vigilant THEN Updated(Table, VigilantDelta) ELSE Table
        t2 == IF planReview THEN Updated(t1, PeerPlanReviewDelta) ELSE t1
    IN  IF verdictGate THEN Updated(t2, PeerVerdictGateDelta) ELSE t2

\* A state with no row (the terminal states, `verify` outside vigilant mode)
\* has no successor.
Successors(s, vigilant, planReview, verdictGate) ==
    LET table == TableFor(vigilant, planReview, verdictGate)
    IN  IF s \in DOMAIN table THEN table[s] ELSE {}

=============================================================================
