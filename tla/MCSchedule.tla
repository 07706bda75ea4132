----------------------------- MODULE MCSchedule -----------------------------
EXTENDS Schedule, TLC

CONSTANTS Jazz, Rock, List

Rule(days, start, end, source) ==
  [enabled |-> TRUE, days |-> days, start |-> start, end |-> end, source |-> source]

(* A day of four quarters, a week of two days.  One rule within a day, one *)
(* over midnight, one around the clock, and one that is off.               *)
SomeRules == {
  Rule({0, 1}, 1, 3, Jazz),
  Rule({1}, 3, 2, Rock),
  Rule({0}, 2, 2, List),
  [Rule({0, 1}, 0, 2, Jazz) EXCEPT !.enabled = FALSE]}

SomeExceptions == {
  [kind |-> "silent", start |-> 0, end |-> 0, source |-> Jazz],
  [kind |-> "hours", start |-> 2, end |-> 1, source |-> List],
  [kind |-> "source", start |-> 0, end |-> 0, source |-> Rock]}

(* The hour 2 of day 5 is skipped or shown twice; the midnight of day 5 is *)
(* skipped in an eastern zone; the last hour of day 4 is shown twice.      *)
(* In the last zone it is day 5 already, and the only hour of the week in  *)
(* which the first two rules meet, the hour 1 of day 6, is skipped.        *)
SomeZones == {
  [before |-> -1, after |-> 0, change |-> 5 * 4 + 2 + 1],
  [before |-> 1, after |-> 0, change |-> 5 * 4 + 3 - 1],
  [before |-> 1, after |-> 2, change |-> 5 * 4 - 1],
  [before |-> 2, after |-> 1, change |-> 5 * 4 - 2],
  [before |-> 2, after |-> 3, change |-> 6 * 4 + 1 - 2]}

(* In each of them every day begins once, at its midnight.                 *)
ASSUME DaysBeginOnce ==
  \A z \in SomeZones, d \in 3..8, t \in (3 * 4 - 3)..(9 * 4 + 3) : BeginsAt(z, d, t)

MCSymmetry == Permutations(Requests)

(* The midnight of day 5 is skipped in a western zone, as in the Azores.   *)
WesternMidnight == {[before |-> -1, after |-> 0, change |-> 5 * 4 + 1]}
=============================================================================
