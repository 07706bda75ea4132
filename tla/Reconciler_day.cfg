SPECIFICATION FairSpec
CONSTANTS
    Persons = {p1}
    Fades = {f1, f2, f3}
    Loop = Loop
    a = a  b = b  c = c  src1 = src1  src2 = src2
    NoWindow = NoWindow  NoFade = NoFade  NoOverride = NoOverride  NoProgram = NoProgram
    Selection = Selection  Empty = Empty
    FadeIn = TRUE  FadeOut = TRUE  ProgramVolume = FALSE
    Sched <- MCDay  SourceOf <- MCSource  Requests <- MCRest
    MaxRequests = 1
    MaxFaults = 1
INVARIANTS OneFade MusicNotLeftQuiet
PROPERTIES BackToBackKeepsPlaying Converges
