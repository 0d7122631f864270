\* Two rounds, the main validator and a backup, finished in any order and again.
SPECIFICATION Spec
CONSTANTS
    Validators = {1, 2}
    Main = 1
    Miners = {1, 2}
    LastRound = 2
    TopReward = 3
    LastRank = 2
    Improvement = 50
    Restarting <- MCRestarting
    Reports <- MCReports
    None = None
INVARIANTS
    TypeOK
    OneStrayAtMost
    SeasonLeaderIsLatest
    BoardsAgree
PROPERTIES
    BackupsNeverOverrule
    OneRoundAtATime
