SPECIFICATION FairSpec
CONSTANTS
    Callers = {c1}
    Applier = Applier
    Places = {t1}
    NoPlace = NoPlace
    Refusals = TRUE
    MaxProcesses = 3
    MaxWedges = 1
INVARIANTS ConnectionsBounded OutputSelected
PROPERTIES EveryCallerReturns PlacesComeBack
