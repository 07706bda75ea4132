SPECIFICATION FairSpec
CONSTANTS
    Writers = {w1}
    Configs = {c0, c1, c2}
    First = c0
    Partial = Partial
    None = None
    SaveFails = FALSE
    MaxWrites = 2
    MaxFaults = 2
    MaxKills = 2
INVARIANTS OneMPD StopEndsMPD ConfReachesMPD SavedMatchesConf
PROPERTIES RunsLastConf StopReturns
