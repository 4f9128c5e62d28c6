---------------------------- MODULE MCSupervisor ----------------------------
(***************************************************************************)
(* Supervisor's constants for TLC.  Three findings: one curable with a     *)
(* clause of its own, one incurable with another, and one that is curable  *)
(* and cites no clause, which no stored waiver can cover.                  *)
(***************************************************************************)
EXTENDS SupervisorInvariants

CONSTANTS curable, incurable, clauseless, c1, c2, noClause

MCFindings == {curable, incurable, clauseless}
MCCurable == {curable, clauseless}
MCClauses == {c1, c2}
MCClauseOf == [f \in MCFindings |->
    CASE f = curable -> c1 [] f = incurable -> c2 [] OTHER -> noClause]

\* The rejections a judge may record: the whole ladder; a curable and an
\* incurable one; a curable one and one that names no finding.
EveryRung == {{curable}, {incurable}, {curable, clauseless}}
TwoRungs == {{curable}, {incurable}}
WithBare == {{}, {curable}}

=============================================================================
