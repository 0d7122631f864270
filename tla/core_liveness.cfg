\* One season of two rounds, whose validators may stop or report them active again.
SPECIFICATION FairSpec
CONSTANTS
    Stake <- MCStake
    NoOne = NoOne
    Validators = {1, 2}
    Mains = {1}
    LastSeason = 1
    RoundsPerSeason = 2
    RoundBlocks = 2
    FirstBlock = 1
    MaxBlock = 7
    StartGrace = 1
    FinishGrace = 1
    Attempts = {1}
    FinishStatuses = {"active", "finished"}
PROPERTIES
    RoundsAreClosed
\* The chain, and with it the system, stops at MaxBlock.
CHECK_DEADLOCK FALSE
