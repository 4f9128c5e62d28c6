------------------------------- MODULE Ladder -------------------------------
(***************************************************************************)
(* The pure half of what happens to a judge's verdict: the rejection       *)
(* ladder (engine/ladder.py), the operator's answer to a parked question   *)
(* (engine/answer.py) and the input timeout (state.input_on_timeout).      *)
(*                                                                         *)
(* A finding is an element of Findings.  ClauseOf gives the clause it      *)
(* cites, already reduced by ladder.clause_key (white space and case       *)
(* folded), and Curable the findings whose `curable` flag is true.         *)
(* NoClause is the key of a finding that cites no clause.                  *)
(***************************************************************************)
EXTENDS Integers, FiniteSets

CONSTANTS
    Findings,   \* the blocking findings a judge may report
    Curable,    \* those carrying curable: true
    Clauses,    \* the clause keys of the PRD
    NoClause,   \* the key of an empty clause
    ClauseOf    \* [Findings -> Clauses \cup {NoClause}]

ASSUME LadderAssumption ==
    /\ Curable \subseteq Findings
    /\ NoClause \notin Clauses
    /\ ClauseOf \in [Findings -> Clauses \cup {NoClause}]

Judges == {"review", "verdict_gate"}
Triggers == {"reviewer_escalation", "incurable", "cure_rounds_spent"}

-----------------------------------------------------------------------------
(* engine/ladder.py *)

\* waived_clause_keys drops empty keys, so a finding that cites no clause is
\* never covered by a stored waiver.
Covered(f, waivers) == ClauseOf[f] # NoClause /\ ClauseOf[f] \in waivers

\* A rejection with no blocking finding is never "all waived".
EveryBlockingFindingWaived(blocking, waivers) ==
    /\ blocking # {}
    /\ \A f \in blocking : Covered(f, waivers)

\* What the caller passes as `incurable`: nothing structured to cure, or a
\* blocking finding that is not curable.
IsIncurable(blocking) == blocking = {} \/ ~(blocking \subseteq Curable)

ParkTrigger(incurable, escalation, spent) ==
    CASE escalation                           -> "reviewer_escalation"
      [] ~escalation /\ incurable             -> "incurable"
      [] ~escalation /\ ~incurable /\ spent   -> "cure_rounds_spent"
      [] OTHER                                -> "none"

\* The step of the ladder and, for a park, its trigger; the first match wins.
Decide(budgetLeft, verified, blocking, waivers, escalation, spent) ==
    LET trigger == ParkTrigger(IsIncurable(blocking), escalation, spent)
    IN  CASE ~budgetLeft -> [step |-> "exhausted", trigger |-> "none"]
          [] budgetLeft /\ verified -> [step |-> "verified", trigger |-> "none"]
          [] /\ budgetLeft /\ ~verified
             /\ EveryBlockingFindingWaived(blocking, waivers)
                -> [step |-> "waived", trigger |-> "none"]
          [] OTHER -> [step |-> IF trigger = "none" THEN "cure" ELSE "park",
                       trigger |-> trigger]

-----------------------------------------------------------------------------
(* engine/answer.py: plan_answer.  `rounds` and `granted` are the request's *)
(* numbers; Unset is a field the operator left out.                         *)

Unset == -1

Rounds(rounds, granted) ==
    IF rounds # Unset THEN rounds ELSE IF granted > 0 THEN 0 ELSE 1

\* The findings an answer waives: those it names and those an earlier waiver
\* already covers.
WaivedBy(asked, waivers, waive) ==
    {f \in asked : f \in waive \/ Covered(f, waivers)}

AcceptedBy(asked, waivers, waive) == asked \ WaivedBy(asked, waivers, waive)

Refused == [outcome |-> "refused", rounds |-> 0, granted |-> 0]

\* asked: the question's findings; waivers: the stored clauses; waive and
\* accept: the ids of the request; approach and max: where the run stands.
PlanAnswer(asked, waivers, waive, accept, rounds, granted, approach, max) ==
    LET accepted == AcceptedBy(asked, waivers, waive)
        k == Rounds(rounds, granted)
    IN  IF ~(waive \cup accept \subseteq asked) \/ waive \cap accept # {}
        THEN Refused
        ELSE IF accepted = {}
             THEN [outcome |-> "verified", rounds |-> 0, granted |-> 0]
        ELSE IF granted > 0 /\ k > 0 THEN Refused
        ELSE IF k > 0
             THEN IF accepted \subseteq Curable
                  THEN [outcome |-> "cure", rounds |-> k, granted |-> 0]
                  ELSE Refused
        ELSE IF approach >= max /\ granted = 0 THEN Refused
        ELSE [outcome |-> "next_approach", rounds |-> 0, granted |-> granted]

\* The clauses the answer adds to the waiver store: one entry per finding it
\* names itself.  A finding with no clause is stored under a placeholder that
\* covers nothing.
NewWaivers(waive) == {ClauseOf[f] : f \in waive} \ {NoClause}

-----------------------------------------------------------------------------
(* state.input_on_timeout: the answer nobody gave. *)

\* all(...) over no findings is true.
InputOnTimeout(trigger, asked, roundsLeft, approach, max) ==
    IF /\ trigger = "reviewer_escalation" /\ roundsLeft > 0
       /\ asked \subseteq Curable
    THEN "cure_now"
    ELSE IF approach < max THEN "next_approach" ELSE "exhausted"

=============================================================================
