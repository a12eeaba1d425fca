SPECIFICATION Spec
CONSTANTS
    f1 = f1
    f2 = f2
    old = old
    new = new
    main = main
    topic = topic
    Files <- BothFiles
    Contents <- OldAndNew
    Branches <- BothBranches
    Absent = Absent
    Empty = Empty
    MaxChanges = 2
    MaxFailures = 2
SYMMETRY Symmetry
INVARIANTS
    LandedMeansRemotesAgree
CHECK_DEADLOCK FALSE
