---------------------------- MODULE RunLifecycle ----------------------------
(***************************************************************************)
(* What status.json promises whoever watches a run: the moves of its state,*)
(* the outcome it settles on and the iterations it charges, whatever steps *)
(* the engine takes inside.  Supervisor implements this specification.     *)
(***************************************************************************)
EXTENDS Naturals

VARIABLES
    state,     \* status.json `state`
    verdict,   \* status.json `verdict`
    pending,   \* status.json `pendingTerminalState`
    spent,     \* status.json `exhaustedBudget`
    approach,  \* status.json `approach`
    charged,   \* the iterations charged
    budget     \* status.json `iterationsBudget`

vars == <<state, verdict, pending, spent, approach, charged, budget>>

Terminal == {"succeeded", "failed", "aborted"}
Working == {"running", "paused", "awaiting_input"}
Budgets == {"approaches", "iterations", "time"}

\* An outcome and the verdict it is recorded with.
Outcomes == [state : {"succeeded"}, verdict : {"verified"}]
            \cup [state : {"aborted"}, verdict : {"unverified"}]
            \cup [state : {"failed"},
                  verdict : {"none", "rejected", "unreviewed", "unverified"}]

Init ==
    /\ state = "starting" /\ verdict = "none"
    /\ pending = "none" /\ spent = "none"
    /\ approach = 1 /\ charged = 0 /\ budget \in Nat \ {0}

\* An engine step charges at most one iteration, never past the budget, and
\* moves at most one approach on.
Progress ==
    /\ charged' \in {charged, charged + 1} /\ (charged' = charged \/ charged' <= budget)
    /\ approach' \in {approach, approach + 1}
    /\ UNCHANGED budget

\* A start of the engine: a settled outcome being recorded is not reopened, and
\* a run that holds is reopened only by a larger budget of the kind it spent
\* (the wall clock and the approaches are not on record here).
Start ==
    /\ state # "finishing"
    /\ state' = "running" /\ verdict' = "none" /\ spent' = "none"
    /\ budget' >= budget
    /\ (state = "exhausted" /\ spent = "iterations") => budget' > budget
    /\ UNCHANGED <<pending, approach, charged>>

\* The run works on, is paused, parks on a question, or is released.
Work ==
    /\ state \in Working /\ state' \in Working
    /\ Progress
    /\ UNCHANGED <<verdict, pending, spent>>

\* It settles, with or without a reflection still to come.
Settle ==
    /\ state \in Working
    /\ Progress
    /\ \E o \in Outcomes :
          /\ verdict' = o.verdict
          /\ \/ state' = "finishing" /\ pending' = o.state
             \/ state' = o.state /\ UNCHANGED pending
    /\ UNCHANGED spent

\* The reflection is over: the outcome and verdict are what was recorded.
Promote ==
    /\ state = "finishing"
    /\ state' = pending /\ pending' = "none"
    /\ UNCHANGED <<verdict, spent, approach, charged, budget>>

\* It holds, naming a budget that is spent.
Hold ==
    /\ state \in Working
    /\ Progress
    /\ state' = "exhausted" /\ verdict' = "none" /\ pending' = "none"
    /\ spent' \in Budgets
    /\ spent' = "iterations" => charged' >= budget

Next == Start \/ Work \/ Settle \/ Promote \/ Hold

Spec == Init /\ [][Next]_vars

=============================================================================
