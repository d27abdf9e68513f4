CONSTANTS
    weak1 = weak1
    weak2 = weak2
    other = other
    u1 = u1
    u2 = u2
    main = main
    b1 = b1
    b2 = b2
    None = None
    File <- MCFile
    Weak <- MCWeak
    Resolve <- SameDirectory
    Edit <- MCEdit
    UserDoes <- Everything
    Branch <- MCBranch
    Main = main
SYMMETRY Symmetry
SPECIFICATION Spec
CHECK_DEADLOCK FALSE
PROPERTIES
    NothingLost
    OldBranchesStay
    PRShowsFixes
