----------------------------- MODULE MCGrading -----------------------------
(* Grading for TLC: an assignment of two points that takes 60 % a day for    *)
(* two days, or all of them after one day, or allows no lateness and gives   *)
(* one point.  A day has one hour, so that two late days fit.                *)
EXTENDS Grading, TLC

CONSTANT MaxAstray   \* bound on the files whose INSERT went unanswered or that were left behind

MCTerms ==
    {[max |-> 2, due |-> 0, policy |-> [percent |-> 60, maxLate |-> 2]],
     [max |-> 2, due |-> 0, policy |-> [percent |-> 60, maxLate |-> 1]],
     [max |-> 1, due |-> 0, policy |-> [percent |-> 0, maxLate |-> 0]]}

Bounded == Cardinality(unsure) + Cardinality(orphans) <= MaxAstray

GradingSpec == Init /\ [][Next /\ Bounded']_vars

Symmetry == Permutations(Calls)
=============================================================================
