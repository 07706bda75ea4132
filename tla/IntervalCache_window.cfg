SPECIFICATION CacheSpec
CONSTANTS
    Inputs <- MCInputs
    Sourced = {1, 2}
    NoIntervals = NoIntervals
    Readers = {r1, r2}
    Writers = {w1}
    Hour = 1
    MaxLag = 1
    MaxTime = 2
    MaxWrites = 2
    MaxFaults = 1
    MaxJumps = 1
SYMMETRY MCSymmetry
INVARIANTS KeepsLastGood AtMostAnHourOld ToldIsSeen
