------------------------------ MODULE MCReview ------------------------------
(***************************************************************************)
(* The review for TLC: two obligations, and a clause that matches neither. *)
(***************************************************************************)
EXTENDS ReviewProperties, TLC

MCClauses == Obligations \cup {"clause"}
MCAbout == [c \in MCClauses |-> IF c = "clause" THEN {} ELSE {c}]

\* One finding a cure pass may take, on each clause; one that is linked to an
\* earlier finding; one that no cure reaches.
MCReportable ==
    {EngineFinding(c) : c \in MCClauses}
    \cup {[EngineFinding("clause") EXCEPT !.linked = TRUE],
          [EngineFinding("clause") EXCEPT !.curable = FALSE]}

\* One on each clause.
MCReportableFew == {EngineFinding(c) : c \in MCClauses}
MCSymmetry == Permutations(Obligations)

=============================================================================
