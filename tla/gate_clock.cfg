\* One API process and a stored configuration that stays: the clock and the stakes in full.
SPECIFICATION Spec
CONSTANTS
    Workers = {1}
    Servers = {1}
    Updater = Updater
    BlockTime = 1
    KeyTTL = 2
    MaxLag = 1
    MaxTime = 4
    MaxMishaps = 1
    Validators = {"backup"}
    Main = "main"
    Configs = {"short"}
    RoundBlocks <- MCRoundBlocks
    AuthDisabled = FALSE
    StakeTTL = 1
    MaxLoad = 1
    StartBlocks = {0, 2}
    None = None
INVARIANTS
    TypeOK
    NeverAdmittedEarly
    LateByTheLagOnly
PROPERTIES
    StakeIsRecent

CHECK_DEADLOCK FALSE
