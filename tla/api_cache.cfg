\* Two clients on six requests, a minute at a time.
SPECIFICATION Spec
CONSTANTS
    Numbers = {"8", "9"}
    Clients = {c1, c2}
    Requests <- MCPages
    Unit = 60
    MaxTime = 3
    MaxRows = 1
    Patience = 1
    None = None
SYMMETRY MCSymmetry
INVARIANTS
    OwnAnswer
    AnswersAreRecent
    FoundOnceThere
CHECK_DEADLOCK FALSE
