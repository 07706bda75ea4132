SPECIFICATION Spec
CONSTANTS
    Clients = {q1, q2}
    q1 = q1  q2 = q2
    N1 = N1  N2 = N2  N3 = N3
    Names = {N1, N2, N3}
    d = d  e = e  one = one  two = two
    D = D  X = X  Y = Y
    Newcomer = Z
    Gone = Gone  Made = Made  NoName = NoName  Same = Same  Nobody = Nobody
    Paths <- SomePaths
    Start <- SomeStart
    Updates <- SomeUpdates
    Moves <- SomeMoves
    Deletes <- SomeDeletes
    MaxRequests = 4
    MaxFaults = 1
SYMMETRY MCSymmetry
INVARIANTS ReferencesFollow RowsHaveFiles
PROPERTIES AppendsKept InspectTells
CHECK_DEADLOCK FALSE
