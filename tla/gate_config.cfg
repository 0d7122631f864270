\* Two API processes and the uploads of the configuration; the clock stands still.
SPECIFICATION FairSpec
CONSTANTS
    Workers = {1, 2}
    Servers = {1, 2}
    Updater = Updater
    BlockTime = 1
    KeyTTL = 2
    MaxLag = 0
    MaxTime = 0
    MaxMishaps = 1
    Validators = {"main", "backup"}
    Main = "main"
    Configs = {"short"}
    RoundBlocks <- MCRoundBlocks
    AuthDisabled = TRUE
    StakeTTL = 1
    MaxLoad = 0
    StartBlocks = {0}
    None = None
INVARIANTS
    CopyIsPastOrOwn
PROPERTIES
    ClockComesBack
CHECK_DEADLOCK FALSE
