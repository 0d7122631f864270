\* One round, two backups, and every validator may start under two ids.
SPECIFICATION Spec
CONSTANTS
    Stake <- MCStake
    NoOne = NoOne
    Validators = {1, 2, 3}
    Mains = {1}
    LastSeason = 1
    RoundsPerSeason = 1
    RoundBlocks = 2
    FirstBlock = 1
    MaxBlock = 5
    StartGrace = 1
    FinishGrace = 1
    Attempts = {1, 2}
    FinishStatuses = {"active", "finished"}
INVARIANTS
    OpenerTakesPart
    OneStartedMainRow
    StatusFollowsMain
PROPERTIES
    ParticipantsStay
\* The chain, and with it the system, stops at MaxBlock.
CHECK_DEADLOCK FALSE
