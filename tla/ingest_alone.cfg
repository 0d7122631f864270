\* Requests one after the other, two task lists that overlap.
SPECIFICATION OutcomeSpec
CONSTANTS
    Miner <- MCMiner
    Locals <- MCLocals
    Declared <- MCDeclared
    Null = Null
    Workers = {w1}
    t1 = t1
    t3 = t3
    Tasks = {t1, t2, t3}
    TaskSets = {{t1, t2}, {t2, t3}}
    Batches = {{t1, t2}, {t2, t3}}
    Runs = {1, 2, 3}
    Miners = {"one", "other"}
    Score <- MCScore
    TimedOut <- MCTimedOut
    Expected = 2
    Reports <- MCReports
    Site <- MCSite
    UseCase <- MCUseCase
    EvaluationOrders <- MCEvaluationOrders
    RunOrders <- MCRunOrders
    Ported = {"books"}
INVARIANTS
    TypeOK
    OneRunPerMiner
    StatsExact
    ZeroHasReason
    RunPagesAgree
    TaskPagesAgree
PROPERTIES
    TasksStayLocked
