\* Two seasons of two rounds, the main validator and one backup.
SPECIFICATION Spec
CONSTANTS
    Stake <- MCStake
    NoOne = NoOne
    Validators = {1, 2}
    Mains = {1}
    LastSeason = 2
    RoundsPerSeason = 2
    RoundBlocks = 2
    FirstBlock = 1
    MaxBlock = 6
    StartGrace = 1
    FinishGrace = 1
    Attempts = {1}
    FinishStatuses = {"finished"}
INVARIANTS
    TypeOK
    RowLinks
    FallbackOnlyAfterGrace
    MainStartMeetsIndexes
    RoundPagesAgree
PROPERTIES
    OverIsOver
    ShadowsFollowTheRound
    TimelineSpec
\* The chain, and with it the system, stops at MaxBlock.
CHECK_DEADLOCK FALSE
