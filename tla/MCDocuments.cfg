SPECIFICATION Spec
INVARIANTS
    DeclaredOrDone
    FitsThePaper
    ReadBackAsMeant
    NothingLost
CHECK_DEADLOCK FALSE
