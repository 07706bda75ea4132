SPECIFICATION Spec
CONSTANTS
  DayLength = 4
  Grace = 2
  Anns = {1, 2}
  FirstTable <- MCTable
  Rows <- MCRows
  FileCount <- MCFileCount
  Horizon = 4
  MaxFaults = 1
  MaxTests = 1
  MaxEdits = 2
  MaxKills = 1
  MaxEvents = 2
INVARIANTS HandOff NoSlotSteppedOver TimesAgree
PROPERTIES KeepsPromise CycleMovesOn
CHECK_DEADLOCK FALSE
