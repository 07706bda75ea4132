SPECIFICATION Spec
CONSTANTS
  DayLength = 4
  WeekDays = 2
  Probe = 5
  NoRule = NoRule
  NoException = NoException
  Jazz = Jazz
  Rock = Rock
  List = List
  Requests = {q1, q2}
  RuleIds = {1, 2, 3}
  Dates = {5}
  Lists = {List}
  Rules <- SomeRules
  Exceptions <- SomeExceptions
  Zones <- SomeZones
  Starts = {18}
  MaxChanges = 2
  MaxTicks = 1
SYMMETRY MCSymmetry
INVARIANTS PlaysAsMeant RulesApart
CHECK_DEADLOCK FALSE
