SPECIFICATION FairSpec
CONSTANTS
    Persons = {p1, p2}
    Fades = {f1, f2, f3, f4}
    Loop = Loop
    a = a  b = b  c = c  src1 = src1  src2 = src2
    NoWindow = NoWindow  NoFade = NoFade  NoOverride = NoOverride  NoProgram = NoProgram
    Selection = Selection  Empty = Empty
    FadeIn = TRUE  FadeOut = TRUE  ProgramVolume = TRUE
    Sched <- MCEvening  SourceOf <- MCSource  Requests <- MCPeople
    MaxRequests = 2
    MaxFaults = 0
INVARIANTS LoopIsHeld FadesAreReal
PROPERTIES OverrideHolds SuspendReturns
