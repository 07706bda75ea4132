SPECIFICATION Spec
CONSTANTS
  Files = {"gong", "closing"}
  Music <- TwoTracks
  PlayNow = "chosen"
  MaxPeople = 1
  MaxRestarts = 1
  MaxFaults = 1
  MaxEvents = 1
INVARIANT NoneLeftBehind
PROPERTIES MusicComesBack NoneStartsInRestore BreakEnds
CHECK_DEADLOCK FALSE
