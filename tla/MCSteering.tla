----------------------------- MODULE MCSteering -----------------------------
(* Steering's constants for TLC: interchangeable messages. *)
EXTENDS Steering, TLC

CONSTANTS m1, m2, m3

MCMessages == {m1, m2, m3}
MCSymmetry == Permutations(MCMessages)

=============================================================================
