SPECIFICATION FairSpec
CONSTANTS
    RestartGap = 6
    ResumeFor = 3
    MaxDown = 1
    MaxHangs = 1
    MaxWedges = 1
    MaxPresses = 2
PROPERTIES
    ProblemsAreReported
    MusicComesBack
