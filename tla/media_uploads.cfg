\* Three uploads in flight, for a run and a task of one of two rounds, and two
\* connections to the database.
SPECIFICATION Spec
CONSTANTS
    Clients = {c1, c2, c3}
    v1 = v1
    v2 = v2
    r1 = r1
    t1 = t1
    Rounds = {v1, v2}
    Runs = {r1}
    Tasks = {t1}
    RunRound <- MCRunRound
    TaskRound <- MCTaskRound
    Labels = {named, bare}
    Pool = 2
    None = None
INVARIANTS
    ReferencesHold
    OrphansAreRefused
PROPERTIES
    GifsLeaveTheDatabase
CHECK_DEADLOCK FALSE
