\* Two requests at a time evaluate tasks of one run.
SPECIFICATION Spec
CONSTANTS
    Miner <- MCMiner
    Locals <- MCLocals
    Declared = {}
    Null = Null
    Workers = {w1, w2}
    Tasks = {t1, t2}
    TaskSets = {{t1, t2}}
    Batches = {{t1, t2}}
    Runs = {1, 2}
    Miners = {"one", "other"}
INVARIANTS
    StatsExact
