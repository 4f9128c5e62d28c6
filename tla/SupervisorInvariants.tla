------------------------ MODULE SupervisorInvariants ------------------------
(***************************************************************************)
(* What holds between any two steps of the run supervisor, and makes its   *)
(* properties inductive.  Each conjunct is about one matter; some lean on  *)
(* those before them.                                                      *)
(***************************************************************************)
EXTENDS SupervisorProperties

\* Where in its step the loop may stand, and that the peer gate is asked and
\* spoken of only where there is one.
Stands ==
    /\ at = "wait" => step = "paused"
    /\ at = "backoff" =>
          /\ step \in Judges
          /\ proc.guard = "review_judge_fault_retry" => step = "review"
    /\ at \in {"gate", "woken"} => step \in {"planning", "worker", "steer", "review"}
    /\ at = "run" => step \in {"planning", "worker", "steer"} \cup Judges
    /\ at = "cure_count" => step \in Judges \cup {"paused"}
    /\ at = "archived" => step \in Judges \cup {"paused", "worker"}
    /\ "verdict_gate" \in {step, status.question.judge, status.answer.judge,
                           proc.parked.judge} => PeerGate

\* The gate, the state on file and the question agree; a start that found a
\* parked question parks again before anything else.
GateKept ==
    /\ at \notin {"down", "reflect"} =>
          status.state \in {"running", "paused", "awaiting_input"}
    /\ at \notin {"down", "reflect", "opening"} =>
          (proc.gateOpen <=> status.state = "running")
    /\ at = "opening" =>
          status.state = "running" /\ ~proc.gateOpen /\ proc.parked.kind # "none"
    /\ status.state = "awaiting_input" => status.question.kind # "none"
    /\ status.question.kind # "none" =>
          status.state \notin {"starting", "running", "paused"}

\* An iteration in flight, or one past the look at the budget, is paid for; the
\* steer hat's is refunded.
Paid ==
    /\ ChargedWithinBudget
    /\ at \in {"run", "gate", "woken", "backoff"} /\ step # "steer" =>
          dir.charged < status.budget + (IF status.budget \in Patches THEN 1 ELSE 0)

\* The approach on file is the process's, but for the planning that is about to
\* write it; without a plan there has only been the first.
OnFile ==
    /\ dir.planOf = 0 =>
          /\ status.approach = 1 /\ proc.approach = 1
          /\ step \in {"planning", "replan"}
          /\ step = "replan" => proc.guard = "empty_plan"
          /\ ~proc.skip
    /\ at # "down" =>
          IF step = "planning" /\ at = "entry"
          THEN proc.approach \in {status.approach, status.approach + 1}
          ELSE proc.approach = status.approach

\* Nothing asked, answered or half done is about an approach yet to come.
NotAhead ==
    /\ status.question.approach <= status.approach
    /\ status.answer.approach <= status.approach
    /\ proc.parked.approach <= status.approach
    /\ at \in {"cure_count", "archived"} => proc.target <= proc.approach

\* An approach is behind the run only once it is archived.
LeftArchived ==
    /\ at # "down" /\ step = "replan" =>
          ReplansForFree \/ proc.approach \in dir.archived
    /\ at # "down" /\ proc.approach # status.approach =>
          status.approach \in dir.archived
    /\ at = "archived" => proc.target = proc.approach /\ proc.target \in dir.archived
    /\ status.state = "exhausted" /\ status.exhausted = "approaches" =>
          status.approach \in dir.archived

\* A question is about the approach in hand, and the gate never asks one over
\* outstanding cures.
Apt(q) ==
    /\ q.kind = "findings" => q.judge \in Judges /\ q.approach = status.approach
    /\ q.judge = "verdict_gate" => dir.work # "cure"

\* A question of findings is waited on in the paused step; a recorded answer is
\* an answer to it and is taken before anything else is done with the run.
Asked ==
    /\ status.state = "awaiting_input" =>
          /\ Apt(status.question)
          /\ dir.planOf # 0
          /\ at # "down" /\ status.question.kind = "findings" =>
                step = "paused" /\ at \in {"entry", "wait"}
    /\ at \in {"opening", "wait"} => Apt(proc.parked) /\ step = "paused"
    /\ at = "wait" /\ status.state = "awaiting_input" => proc.parked = status.question
    /\ step = "paused" /\ at = "entry" => status.state = "awaiting_input"
    /\ step = "verdict_gate" /\ at # "cure_count" => dir.work # "cure"
    /\ status.answer # NoAnswer =>
          /\ at = "wait" /\ status.state # "awaiting_input"
          /\ proc.parked.kind = "findings"
          /\ status.answer.judge = proc.parked.judge
          /\ status.answer.approach = proc.approach

\* A cure round that is decided on and not yet counted.
Owed(a) ==
    \/ at = "cure_count" /\ proc.target = a
    \/ status.answer.outcome = "cure" /\ status.answer.approach = a

RoundsCovered ==
    \A a \in Approaches :
        status.cures[a] + (IF Owed(a) THEN 1 ELSE 0) <= CureCeiling + status.topUps[a]

\* No review has a word on record but the one it ends with.
Unspoken == dir.early = NoCheckpoint

\* Nothing a judge has not passed is near a success: what an operator may waive
\* in a judge's place is a finding.
NamesFindings(q) == q.kind = "findings" => q.findings # {}

JudgedOnly ==
    /\ SuccessIsJudged
    /\ status.state = "awaiting_input" => NamesFindings(status.question)
    /\ at \in {"opening", "wait"} => NamesFindings(proc.parked)

\* The engine's first life: planning is never skipped.
FirstLife ==
    /\ boots = 0 => at = "down" /\ dir.planOf = 0 /\ dir.archived = {}
                    /\ status.state = "starting"
    /\ boots <= 1 /\ at # "down" =>
          /\ ~proc.skip
          /\ \A a \in dir.archived : a <= proc.approach
          /\ step = "planning" => proc.approach \notin dir.archived
          /\ step = "replan" => (ReplansForFree <=> proc.approach \notin dir.archived)
          /\ step \notin {"planning", "replan"} /\ at \notin {"archived", "reflect"} =>
                dir.planOf = proc.approach /\ proc.approach \notin dir.archived

-----------------------------------------------------------------------------
(* The invariants together: what needs no assumption, and what holds where no *)
(* process dies between an answer and the end of its park                     *)

CoreInv == IInv /\ Stands /\ GateKept /\ Paid /\ OnFile /\ NotAhead

HeldInv == CoreInv /\ Asked /\ LeftArchived

=============================================================================
