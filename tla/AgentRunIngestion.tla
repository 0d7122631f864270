------------------------- MODULE AgentRunIngestion -------------------------
(***************************************************************************)
(* What a validator stores below its row of a round: the task set, the     *)
(* agent runs, the evaluations and the statistics of each run.             *)
(*                                                                         *)
(* Workers are requests that are being served at the same time, each in a  *)
(* PostgreSQL transaction at READ COMMITTED. A request reads in one step   *)
(* and writes in a later one, so that what it read may be stale when it    *)
(* writes; what it wrote is seen by the others when it commits. The schema *)
(* makes a writer wait for an uncommitted row with the same key, for the   *)
(* parents of uncommitted rows, and for the row of a run another           *)
(* transaction has updated. A writer that waits is not enabled.            *)
(*                                                                         *)
(* An evaluation is named by its run and its task and has a positive       *)
(* score, so that the statistics of a run stand for the set of tasks they  *)
(* were computed from, with what a finish payload declared of the run. The *)
(* columns they are kept in are written together. The window check and the *)
(* purge of a repeated start are left out.                                 *)
(***************************************************************************)

CONSTANTS
    Workers,    \* requests in flight
    Tasks,      \* task ids
    TaskSets,   \* the task lists the validator sends
    Batches,    \* bound: the tasks one evaluation batch may name
    Runs,       \* agent run ids
    Miners,
    Miner,      \* the miner each agent run evaluates
    Declared,   \* what a finish payload may declare of the run of a miner
    Locals,     \* the local evaluations of finish payloads, by miner
    Null        \* nothing stored, nothing declared

(* The statistics of a run.                                                *)
Numbers == [seen : SUBSET Tasks, says : {Null} \cup Declared]

ASSUME Payloads == /\ TaskSets \subseteq (SUBSET Tasks) \ {{}}
                   /\ Batches \subseteq SUBSET Tasks
                   /\ Miner \in [Runs -> Miners]
                   /\ \A local \in Locals : \A m \in DOMAIN local :
                          m \in Miners /\ local[m] \in Declared
                   /\ Null \notin Numbers

VARIABLES
    tasks,      \* the task ids in tasks
    runs,       \* the ids in miner_evaluation_runs
    evals,      \* the rows in evaluations, with their task_solutions: <<run, task>>
    stats,      \* the statistics of each run, Null before the first
    acked,      \* the evaluations a client was told are stored
    replaced,   \* the evaluations that went with the task list they were of
    request     \* what each worker is doing

stored == <<tasks, runs, evals, stats>>
told == <<acked, replaced>>
vars == <<stored, told, request>>

Statistics == [Runs -> {Null} \cup Numbers]

(* A request by the step it has reached, with what it has read and written. *)
Idle == [step |-> "idle"]
TaskRequests == [step : {"set_tasks"}, new : TaskSets, replaces : BOOLEAN]
RunRequests == [step : {"start_run"}, run : Runs]
EvaluationRequests ==
    [step : {"evaluate"}, run : Runs, batch : BOOLEAN, todo : SUBSET Tasks,
     new : SUBSET Tasks, created : SUBSET Tasks, errors : SUBSET Tasks,
     counted : SUBSET Tasks]
RunsLoaded == [step : {"finish_runs"}, of : SUBSET Runs, had : Statistics]
AllLoaded == [step : {"finish"}, of : SUBSET Runs, had : Statistics,
              found : SUBSET (Runs \X Tasks)]
Requests == {Idle} \cup TaskRequests \cup RunRequests \cup EvaluationRequests
            \cup RunsLoaded \cup AllLoaded

Begin(w, what) == request[w] = Idle /\ request' = [request EXCEPT ![w] = what]
Goes(w, what) == request' = [request EXCEPT ![w] = what]

Evaluated(rows, r) == {t \in Tasks : <<r, t>> \in rows}

(* Uncommitted rows of the evaluations table, and the run rows that are    *)
(* locked: each item of a batch updates the run before the batch commits.  *)
Evaluating(w) == request[w].step = "evaluate"
Uncommitted(w) == IF Evaluating(w) THEN {request[w].run} \X request[w].new ELSE {}
Locks(w, r) == Evaluating(w) /\ request[w].batch /\ request[w].run = r /\ request[w].new # {}
Locked(w, r) == \E v \in Workers \ {w} : Locks(v, r)

----------------------------------------------------------------------------
(* set_tasks: the same set again changes nothing; another set replaces the *)
(* stored one while it is unused.                                          *)

Unused_ByEvaluations == evals = {}                                      \* mutant
Unused == runs = {} /\ evals = {}

SetTasks(w, new) ==
    /\ tasks # new
    /\ tasks = {} \/ Unused
    /\ Begin(w, [step |-> "set_tasks", new |-> new, replaces |-> tasks # {}])
    /\ UNCHANGED <<stored, told>>

(* The delete takes every task of the round with its evaluations, and      *)
(* waits for the evaluations that are being inserted.                      *)
WriteTasks(w) ==
    LET kept == IF request[w].replaces THEN {} ELSE tasks IN
    /\ request[w].step = "set_tasks"
    /\ request[w].replaces => \A v \in Workers : Uncommitted(v) = {}
    /\ kept \cap request[w].new = {}
    /\ tasks' = kept \cup request[w].new
    /\ evals' = {e \in evals : e[2] \in kept}
    /\ replaced' = replaced \cup {e \in evals : e[2] \notin kept}
    /\ Goes(w, Idle)
    /\ UNCHANGED <<runs, stats, acked>>

----------------------------------------------------------------------------
(* start_agent_run: a run or a miner that is there already is answered     *)
(* with what there is.                                                     *)

HasRun_SameId(r) == r \in runs                                          \* mutant
HasRun(r) == \E other \in runs : Miner[other] = Miner[r]

StartRun(w, r) ==
    /\ r \notin runs /\ ~HasRun(r)
    /\ Begin(w, [step |-> "start_run", run |-> r])
    /\ UNCHANGED <<stored, told>>

WriteRun(w) ==
    /\ request[w].step = "start_run"
    /\ request[w].run \notin runs
    /\ runs' = runs \cup {request[w].run}
    /\ Goes(w, Idle)
    /\ UNCHANGED <<tasks, evals, stats, told>>

----------------------------------------------------------------------------
(* add_evaluation and add_evaluations_batch                                *)

Evaluation(r, todo, batch) ==
    [step |-> "evaluate", run |-> r, batch |-> batch, todo |-> todo,
     new |-> {}, created |-> {}, errors |-> {}, counted |-> {}]

Registered_AnyTask(r, t) == r \in runs                                  \* mutant
Registered(r, t) == r \in runs /\ t \in tasks

AddEvaluation(w, r, t) ==
    /\ Registered(r, t)
    /\ Begin(w, Evaluation(r, {t}, FALSE))
    /\ UNCHANGED <<stored, told>>

AddEvaluationsBatch(w, r, batch) ==
    /\ Begin(w, Evaluation(r, batch, TRUE))
    /\ UNCHANGED <<stored, told>>

Counted_NewestOnly(q, t) == Evaluated(evals, q.run) \cup {t}             \* mutant
Counted(q, t) == Evaluated(evals, q.run) \cup q.new \cup {t}

(* One item: insert the rows, flush, and recompute the statistics from the *)
(* evaluations this transaction sees.                                      *)
Inserts(w, t) ==
    LET q == request[w] IN
    /\ Evaluating(w) /\ t \in q.todo
    /\ Registered(q.run, t)
    /\ <<q.run, t>> \notin evals
    /\ \A v \in Workers \ {w} : <<q.run, t>> \notin Uncommitted(v)

InsertEvaluation(w, t) ==
    LET q == request[w] IN
    /\ Inserts(w, t)
    /\ q.batch => ~Locked(w, q.run)
    /\ Goes(w, [q EXCEPT !.todo = @ \ {t}, !.new = @ \cup {t},
                         !.created = @ \cup {t}, !.counted = Counted(q, t)])
    /\ UNCHANGED <<stored, told>>

(* The run of an item of a batch is updated when its savepoint is released.*)
(* The item is counted as created before: when the release fails, it is    *)
(* rolled back, stays counted and is answered among the errors.            *)
ReleaseFails(w, t) ==
    /\ Inserts(w, t) /\ request[w].batch
    /\ Goes(w, [request[w] EXCEPT !.todo = @ \ {t}, !.created = @ \cup {t},
                                  !.errors = @ \cup {t}])
    /\ UNCHANGED <<stored, told>>

Exists_AlsoUncommitted(e) == e \in evals \/ \E v \in Workers : e \in Uncommitted(v)  \* mutant
Exists(e) == e \in evals

(* An item that exists is answered as created; an item of a batch that     *)
(* fails earlier rolls back to its savepoint and the batch goes on.        *)
SkipEvaluation(w, t) ==
    LET q == request[w]
        exists == Exists(<<q.run, t>>)
    IN
    /\ Evaluating(w) /\ t \in q.todo
    /\ exists \/ q.batch
    /\ Goes(w, [q EXCEPT !.todo = @ \ {t},
                         !.created = IF exists THEN @ \cup {t} ELSE @,
                         !.errors = IF exists THEN @ ELSE @ \cup {t}])
    /\ UNCHANGED <<stored, told>>

Own(seen) == [seen |-> seen, says |-> Null]

Recomputed_InFinishOnly(q) == stats                                     \* mutant
Recomputed(q) == IF q.new = {} THEN stats ELSE [stats EXCEPT ![q.run] = Own(q.counted)]

(* The answer counts what was created and lists the errors: the client is  *)
(* told of the items that are not among these.                             *)

CommitEvaluations(w) ==
    LET q == request[w] IN
    /\ Evaluating(w) /\ q.todo = {}
    /\ q.new # {} => ~Locked(w, q.run)
    /\ evals' = evals \cup Uncommitted(w)
    /\ stats' = Recomputed(q)
    /\ acked' = acked \cup ({q.run} \X (q.created \ q.errors))
    /\ replaced' = replaced \ Uncommitted(w)
    /\ Goes(w, Idle)
    /\ UNCHANGED <<tasks, runs>>

----------------------------------------------------------------------------
(* finish_round: load the runs, load their evaluations, and write the      *)
(* statistics that differ from the loaded ones. What the payload's local   *)
(* evaluation says of a miner goes over what the evaluations say.          *)

FinishRuns(w) ==
    /\ Begin(w, [step |-> "finish_runs", of |-> runs, had |-> stats])
    /\ UNCHANGED <<stored, told>>

FinishEvaluations(w) ==
    LET q == request[w] IN
    /\ q.step = "finish_runs"
    /\ Goes(w, [step |-> "finish", of |-> q.of, had |-> q.had, found |-> evals])
    /\ UNCHANGED <<stored, told>>

Finished(q, r, local) ==
    [seen |-> Evaluated(q.found, r),
     says |-> IF Miner[r] \in DOMAIN local THEN local[Miner[r]] ELSE Null]

CommitFinish(w, local) ==
    LET q == request[w]
        changed == {r \in q.of : Finished(q, r, local) # q.had[r]}
    IN
    /\ q.step = "finish"
    /\ \A r \in changed : ~Locked(w, r)
    /\ stats' = [r \in Runs |-> IF r \in changed THEN Finished(q, r, local) ELSE stats[r]]
    /\ Goes(w, Idle)
    /\ UNCHANGED <<tasks, runs, evals, told>>

----------------------------------------------------------------------------
(* A request in flight fails: a key or a parent is gone, the database ends *)
(* a deadlock or a statement that takes too long, the process stops. Its   *)
(* transaction is rolled back.                                             *)
Fail(w) ==
    /\ request[w] # Idle
    /\ Goes(w, Idle)
    /\ UNCHANGED <<stored, told>>

Init ==
    /\ tasks = {} /\ runs = {} /\ evals = {}
    /\ stats = [r \in Runs |-> Null]
    /\ acked = {} /\ replaced = {}
    /\ request = [w \in Workers |-> Idle]

Next ==
    \E w \in Workers :
        \/ \E new \in TaskSets : SetTasks(w, new)
        \/ WriteTasks(w)
        \/ \E r \in Runs :
            \/ StartRun(w, r)
            \/ \E t \in Tasks : AddEvaluation(w, r, t)
            \/ \E batch \in Batches : AddEvaluationsBatch(w, r, batch)
        \/ WriteRun(w)
        \/ \E t \in Tasks :
               InsertEvaluation(w, t) \/ ReleaseFails(w, t) \/ SkipEvaluation(w, t)
        \/ CommitEvaluations(w)
        \/ FinishRuns(w) \/ FinishEvaluations(w)
        \/ \E local \in Locals : CommitFinish(w, local)
        \/ Fail(w)

Spec == Init /\ [][Next]_vars

----------------------------------------------------------------------------
(* Properties                                                              *)

(* The tables hold what they are for, every evaluation has the run and the *)
(* task its foreign keys name, and every request is at a step of its kind. *)
TypeOK ==
    /\ tasks \subseteq Tasks
    /\ runs \subseteq Runs
    /\ evals \subseteq runs \X tasks
    /\ stats \in Statistics
    /\ acked \subseteq Runs \X Tasks /\ replaced \subseteq Runs \X Tasks
    /\ request \in [Workers -> Requests]

(* upsert_evaluation_bundle: "average_score is NEVER NULL if there are     *)
(* evaluations", whatever else is being written meanwhile.                 *)
ScoreNeverNull == \A r \in runs : Evaluated(evals, r) # {} => stats[r] # Null

(* An evaluation the validator was told is stored is stored, also when the *)
(* same evaluation was sent twice and one of the requests or the release   *)
(* of a savepoint failed, and leaves only with the task list it is of.     *)
AckedIsStored == acked \subseteq evals \cup replaced

(* Tasks are replaced only before agent runs or evaluations start          *)
(* (set_tasks).                                                            *)
TasksStayLocked ==
    [][tasks # {} /\ (runs # {} \/ evals # {}) => tasks' = tasks]_vars

(* start_agent_run: "An agent run should be unique per                     *)
(* (validator_round_id, miner_uid)".                                       *)
OneRunPerMiner == \A r1, r2 \in runs : Miner[r1] = Miner[r2] => r1 = r2

(* When no request is being served, the statistics of a run are those of   *)
(* its evaluations: "stats should already be correct from                  *)
(* add_evaluation()". What a payload declared was said of all of them.     *)
StatsExact ==
    (\A w \in Workers : request[w] = Idle) =>
        \A r \in runs : \/ stats[r] # Null /\ stats[r].seen = Evaluated(evals, r)
                        \/ stats[r] = Null /\ Evaluated(evals, r) = {}

=============================================================================
