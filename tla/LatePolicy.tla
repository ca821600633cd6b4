----------------------------- MODULE LatePolicy -----------------------------
(***************************************************************************)
(* The late penalty of the assignment-grading-service                      *)
(* (internal/service/late_policy_calculator.go, internal/models/           *)
(* assignment.go).  Times are hours.  A policy is a record                 *)
(* [percent, maxLate]: PenaltyPercentPerDay and MaxLateDays.  Scores are   *)
(* whole points and adjusted scores hundredths of a point, which is what   *)
(* the DECIMAL(10,2) column keeps.                                         *)
(***************************************************************************)
EXTENDS Integers

CONSTANT HoursPerDay   \* 24 in the code

ASSUME HoursAssumption == HoursPerDay \in Nat \ {0}

\* LatePolicy.Validate
ValidPolicy(policy) == policy.percent \in 0..100 /\ policy.maxLate \in Nat

AllowsLate(policy) == policy.maxLate > 0

\* CalculatePenalty: whole days, and one more for any part of a day.
DaysLate(hours) ==
    LET days == hours \div HoursPerDay
    IN  IF hours > days * HoursPerDay THEN days + 1 ELSE days

CalculatePenalty(submittedAt, due, policy) ==
    IF submittedAt <= due
    THEN [isLate |-> FALSE, daysLate |-> 0]
    ELSE [isLate |-> TRUE,
          daysLate |-> IF AllowsLate(policy) THEN DaysLate(submittedAt - due) ELSE 0]

\* Slip: the penalty is not capped at the whole score.
ApplyPenalty_slip(score, daysLate, policy) ==
    IF daysLate = 0 THEN 100 * score
    ELSE IF ~AllowsLate(policy) \/ daysLate > policy.maxLate THEN 0
    ELSE score * (100 - daysLate * policy.percent)

\* ApplyPenalty, in hundredths of a point.
ApplyPenalty(score, daysLate, policy) ==
    IF daysLate = 0 THEN 100 * score
    ELSE IF ~AllowsLate(policy) \/ daysLate > policy.maxLate THEN 0
    ELSE LET total == daysLate * policy.percent
         IN  score * (100 - (IF total > 100 THEN 100 ELSE total))
=============================================================================
