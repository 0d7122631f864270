---------------------- MODULE AgentRunIngestion_proofs ----------------------
(***************************************************************************)
(* Proofs about AgentRunIngestion for any number of requests in flight,    *)
(* any tasks, runs and task lists.                                         *)
(***************************************************************************)
EXTENDS AgentRunIngestion, TLAPS

(* Rows a transaction has inserted and not committed yet have the parents  *)
(* their foreign keys name: whoever deletes a task waits for them.         *)
UncommittedHaveParents == \A w \in Workers : Uncommitted(w) \subseteq runs \X tasks

Inv == TypeOK /\ UncommittedHaveParents

-----------------------------------------------------------------------------
(* What the step of a request says of its shape.                           *)
LEMMA RequestShapes ==
    ASSUME NEW q \in Requests
    PROVE  /\ q.step = "set_tasks" => q \in TaskRequests
           /\ q.step = "start_run" => q \in RunRequests
           /\ q.step = "evaluate" => q \in EvaluationRequests
           /\ q.step = "finish_runs" => q \in RunsLoaded
           /\ q.step = "finish" => q \in AllLoaded
<1>1. CASE q = Idle
    BY <1>1 DEF Idle
<1>2. CASE q \in TaskRequests
    BY <1>2 DEF TaskRequests
<1>3. CASE q \in RunRequests
    BY <1>3 DEF RunRequests
<1>4. CASE q \in EvaluationRequests
    BY <1>4 DEF EvaluationRequests
<1>5. CASE q \in RunsLoaded
    BY <1>5 DEF RunsLoaded
<1>6. CASE q \in AllLoaded
    BY <1>6 DEF AllLoaded
<1> QED BY <1>1, <1>2, <1>3, <1>4, <1>5, <1>6 DEF Requests

(* A worker that moves on leaves the other workers where they are.         *)
LEMMA MovingOn ==
    ASSUME TypeOK, NEW w \in Workers, NEW what \in Requests, Goes(w, what)
    PROVE  /\ request' \in [Workers -> Requests]
           /\ request'[w] = what
           /\ \A v \in Workers \ {w} : request'[v] = request[v]
BY DEF TypeOK, Goes

(* The fields of a request that stores evaluations.                        *)
LEMMA EvaluationTypes ==
    ASSUME TypeOK, NEW w \in Workers, Evaluating(w)
    PROVE  /\ request[w] \in EvaluationRequests
           /\ request[w].run \in Runs /\ request[w].new \subseteq Tasks
           /\ request[w].todo \subseteq Tasks /\ request[w].created \subseteq Tasks
           /\ request[w].errors \subseteq Tasks /\ request[w].counted \subseteq Tasks
<1>1. request[w] \in EvaluationRequests
    BY RequestShapes DEF TypeOK, Evaluating
<1> QED BY <1>1 DEF EvaluationRequests

(* What was evaluated are tasks.                                           *)
LEMMA EvaluatedTypes == \A found, r : Evaluated(found, r) \subseteq Tasks
BY DEF Evaluated

(* What statistics are made of.                                            *)
LEMMA NumbersTypes ==
    /\ \A seen \in SUBSET Tasks : Own(seen) \in Numbers
    /\ \A q : \A r \in Runs, local \in Locals : Finished(q, r, local) \in Numbers
    /\ \A q, r, local : Finished(q, r, local).seen = Evaluated(q.found, r)
<1>1. ASSUME NEW q, NEW r \in Runs, NEW local \in Locals
      PROVE  Finished(q, r, local) \in Numbers
    <2>1. Evaluated(q.found, r) \in SUBSET Tasks
        BY EvaluatedTypes
    <2>2. Miner[r] \in DOMAIN local => local[Miner[r]] \in Declared
        BY Payloads
    <2> QED BY <2>1, <2>2 DEF Finished, Numbers
<1> QED BY <1>1 DEF Own, Numbers, Finished

-----------------------------------------------------------------------------
(* The invariant, action by action.                                        *)

(* A request that begins has written nothing.                              *)
LEMMA BeginInv ==
    ASSUME Inv, NEW w \in Workers, NEW what \in Requests, Begin(w, what),
           what.step = "evaluate" => what.new = {},
           UNCHANGED <<stored, told>>
    PROVE  Inv'
<1>1. Goes(w, what)
    BY DEF Begin, Goes
<1>2. TypeOK'
    BY <1>1, MovingOn DEF Inv, TypeOK, stored, told
<1>3. Uncommitted(w)' = {}
    BY <1>1, MovingOn DEF Inv, Uncommitted, Evaluating
<1>4. \A v \in Workers \ {w} : Uncommitted(v)' = Uncommitted(v)
    BY <1>1, MovingOn DEF Inv, Uncommitted, Evaluating
<1> QED BY <1>2, <1>3, <1>4 DEF Inv, UncommittedHaveParents, stored

(* A request that ends leaves nothing uncommitted.                         *)
LEMMA EndKeepsParents ==
    ASSUME Inv, NEW w \in Workers, Goes(w, Idle),
           runs \subseteq runs',
           \/ tasks \subseteq tasks'
           \/ \A v \in Workers : Uncommitted(v) = {}
    PROVE  UncommittedHaveParents' /\ request' \in [Workers -> Requests]
<1>0. Idle \in Requests /\ Idle.step # "evaluate"
    BY DEF Requests, Idle
<1>1. /\ request' \in [Workers -> Requests]
      /\ request'[w] = Idle
      /\ \A v \in Workers \ {w} : request'[v] = request[v]
    BY <1>0, MovingOn DEF Inv
<1>2. Uncommitted(w)' = {}
    BY <1>0, <1>1 DEF Uncommitted, Evaluating
<1>3. \A v \in Workers \ {w} : Uncommitted(v)' = Uncommitted(v)
    BY <1>1 DEF Uncommitted, Evaluating
<1> QED BY <1>1, <1>2, <1>3 DEF Inv, UncommittedHaveParents

(* Every request that begins keeps the invariant.                          *)
LEMMA BeginningsInv ==
    ASSUME Inv, NEW w \in Workers
    PROVE  /\ \A new \in TaskSets : SetTasks(w, new) => Inv'
           /\ \A r \in Runs : StartRun(w, r) => Inv'
           /\ \A r \in Runs, t \in Tasks : AddEvaluation(w, r, t) => Inv'
           /\ \A r \in Runs, batch \in Batches : AddEvaluationsBatch(w, r, batch) => Inv'
           /\ FinishRuns(w) => Inv'
<1>1. ASSUME NEW new \in TaskSets, SetTasks(w, new)
      PROVE  Inv'
    <2> DEFINE what == [step |-> "set_tasks", new |-> new, replaces |-> tasks # {}]
    <2>1. what \in Requests /\ what.step # "evaluate"
        BY DEF Requests, TaskRequests
    <2> QED BY <1>1, <2>1, BeginInv DEF SetTasks
<1>2. ASSUME NEW r \in Runs, StartRun(w, r)
      PROVE  Inv'
    <2> DEFINE what == [step |-> "start_run", run |-> r]
    <2>1. what \in Requests /\ what.step # "evaluate"
        BY DEF Requests, RunRequests
    <2> QED BY <1>2, <2>1, BeginInv DEF StartRun
<1>3. ASSUME NEW r \in Runs, NEW todo \in SUBSET Tasks, NEW batch \in BOOLEAN
      PROVE  Evaluation(r, todo, batch) \in Requests /\ Evaluation(r, todo, batch).new = {}
    BY DEF Requests, EvaluationRequests, Evaluation
<1>4. ASSUME NEW r \in Runs, NEW t \in Tasks, AddEvaluation(w, r, t)
      PROVE  Inv'
    BY <1>3, <1>4, BeginInv DEF AddEvaluation
<1>5. ASSUME NEW r \in Runs, NEW batch \in Batches, AddEvaluationsBatch(w, r, batch)
      PROVE  Inv'
    BY <1>3, <1>5, BeginInv, Payloads DEF AddEvaluationsBatch
<1>6. ASSUME FinishRuns(w)
      PROVE  Inv'
    <2> DEFINE what == [step |-> "finish_runs", of |-> runs, had |-> stats]
    <2>1. what \in Requests /\ what.step # "evaluate"
        BY DEF Requests, RunsLoaded, Inv, TypeOK
    <2> QED BY <1>6, <2>1, BeginInv DEF FinishRuns
<1> QED BY <1>1, <1>2, <1>4, <1>5, <1>6

(* set_tasks deletes tasks only when no row that is not committed needs    *)
(* them.                                                                   *)
LEMMA WriteTasksInv ==
    ASSUME Inv, NEW w \in Workers, WriteTasks(w)
    PROVE  Inv'
<1> DEFINE q == request[w]
           kept == IF q.replaces THEN {} ELSE tasks
<1>1. q \in TaskRequests
    BY RequestShapes DEF WriteTasks, Inv, TypeOK
<1>2. q.new \subseteq Tasks
    BY <1>1, Payloads DEF TaskRequests
<1>3. /\ tasks' = kept \cup q.new
      /\ evals' = {e \in evals : e[2] \in kept}
      /\ replaced' = replaced \cup {e \in evals : e[2] \notin kept}
      /\ runs' = runs /\ stats' = stats /\ acked' = acked
      /\ Goes(w, Idle)
      /\ q.replaces => \A v \in Workers : Uncommitted(v) = {}
    BY DEF WriteTasks
<1>4. UncommittedHaveParents' /\ request' \in [Workers -> Requests]
    BY <1>3, EndKeepsParents
<1>5. tasks' \subseteq Tasks /\ evals' \subseteq runs' \X tasks'
    BY <1>2, <1>3 DEF Inv, TypeOK
<1>6. replaced' \subseteq Runs \X Tasks
    BY <1>3 DEF Inv, TypeOK
<1> QED BY <1>3, <1>4, <1>5, <1>6 DEF Inv, TypeOK

(* A new run takes no parent away.                                         *)
LEMMA WriteRunInv ==
    ASSUME Inv, NEW w \in Workers, WriteRun(w)
    PROVE  Inv'
<1>1. request[w] \in RunRequests
    BY RequestShapes DEF WriteRun, Inv, TypeOK
<1>2. request[w].run \in Runs
    BY <1>1 DEF RunRequests
<1>3. UncommittedHaveParents' /\ request' \in [Workers -> Requests]
    BY EndKeepsParents DEF WriteRun
<1> QED BY <1>2, <1>3 DEF WriteRun, Inv, TypeOK, told

(* An item of a batch, stored, rolled back or skipped.                     *)
LEMMA ItemInv ==
    ASSUME Inv, NEW w \in Workers, NEW t \in Tasks,
           InsertEvaluation(w, t) \/ ReleaseFails(w, t) \/ SkipEvaluation(w, t)
    PROVE  Inv'
<1> DEFINE q == request[w]
<1>1. /\ Evaluating(w) /\ q \in EvaluationRequests
      /\ q.run \in Runs /\ q.new \subseteq Tasks /\ q.counted \subseteq Tasks
    BY EvaluationTypes DEF InsertEvaluation, ReleaseFails, Inserts, SkipEvaluation, Inv
<1>2. CASE InsertEvaluation(w, t)
    <2> DEFINE what == [q EXCEPT !.todo = @ \ {t}, !.new = @ \cup {t},
                                 !.created = @ \cup {t}, !.counted = Counted(q, t)]
    <2>1. Counted(q, t) \subseteq Tasks
        BY <1>1, EvaluatedTypes DEF Counted
    <2>2. what \in EvaluationRequests /\ what.new = q.new \cup {t} /\ what.run = q.run
        BY <1>1, <2>1 DEF EvaluationRequests
    <2>3. /\ request' \in [Workers -> Requests]
          /\ request'[w] = what
          /\ \A v \in Workers \ {w} : request'[v] = request[v]
        BY <1>2, <2>2, MovingOn DEF InsertEvaluation, Inv, Requests
    <2>4. <<q.run, t>> \in runs \X tasks
        BY <1>2 DEF InsertEvaluation, Inserts, Registered
    <2>5. Uncommitted(w)' \subseteq runs \X tasks
        BY <1>1, <2>2, <2>3, <2>4 DEF Inv, UncommittedHaveParents, Uncommitted, Evaluating
    <2>6. \A v \in Workers \ {w} : Uncommitted(v)' = Uncommitted(v)
        BY <2>3 DEF Uncommitted, Evaluating
    <2> QED BY <1>2, <2>3, <2>5, <2>6
            DEF InsertEvaluation, Inv, TypeOK, UncommittedHaveParents, stored, told
<1>3. ASSUME NEW what \in EvaluationRequests, what.new = q.new, what.run = q.run,
             Goes(w, what), UNCHANGED <<stored, told>>
      PROVE  Inv'
    <2>1. /\ request' \in [Workers -> Requests]
          /\ request'[w] = what
          /\ \A v \in Workers \ {w} : request'[v] = request[v]
        BY <1>3, MovingOn DEF Inv, Requests
    <2>2. Uncommitted(w)' = Uncommitted(w)
        BY <1>1, <1>3, <2>1 DEF Uncommitted, Evaluating, EvaluationRequests
    <2>3. \A v \in Workers \ {w} : Uncommitted(v)' = Uncommitted(v)
        BY <2>1 DEF Uncommitted, Evaluating
    <2> QED BY <1>3, <2>1, <2>2, <2>3
            DEF Inv, TypeOK, UncommittedHaveParents, stored, told
<1>4. CASE ReleaseFails(w, t)
    <2> DEFINE what == [q EXCEPT !.todo = @ \ {t}, !.created = @ \cup {t},
                                 !.errors = @ \cup {t}]
    <2>1. what \in EvaluationRequests /\ what.new = q.new /\ what.run = q.run
        BY <1>1 DEF EvaluationRequests
    <2> QED BY <1>3, <1>4, <2>1 DEF ReleaseFails
<1>5. CASE SkipEvaluation(w, t)
    <2> DEFINE there == Exists(<<q.run, t>>)
               what == [q EXCEPT !.todo = @ \ {t},
                                 !.created = IF there THEN @ \cup {t} ELSE @,
                                 !.errors = IF there THEN @ ELSE @ \cup {t}]
    <2>1. what \in EvaluationRequests /\ what.new = q.new /\ what.run = q.run
        BY <1>1 DEF EvaluationRequests
    <2> QED BY <1>3, <1>5, <2>1 DEF SkipEvaluation
<1> QED BY <1>2, <1>4, <1>5

(* What a transaction commits has its parents, for it had them             *)
(* uncommitted.                                                            *)
LEMMA CommitInv ==
    ASSUME Inv, NEW w \in Workers, CommitEvaluations(w)
    PROVE  Inv'
<1> DEFINE q == request[w]
<1>1. /\ Evaluating(w) /\ q \in EvaluationRequests
      /\ q.run \in Runs /\ q.created \subseteq Tasks /\ q.counted \subseteq Tasks
    BY EvaluationTypes DEF CommitEvaluations, Inv
<1>2. evals' \subseteq runs \X tasks
    BY DEF CommitEvaluations, Inv, TypeOK, UncommittedHaveParents
<1>3. stats' \in Statistics
    BY <1>1, NumbersTypes DEF CommitEvaluations, Recomputed, Statistics, Inv, TypeOK
<1>4. acked' \subseteq Runs \X Tasks /\ replaced' \subseteq Runs \X Tasks
    BY <1>1 DEF CommitEvaluations, Inv, TypeOK
<1>5. UncommittedHaveParents' /\ request' \in [Workers -> Requests]
    BY EndKeepsParents DEF CommitEvaluations
<1> QED BY <1>2, <1>3, <1>4, <1>5 DEF CommitEvaluations, Inv, TypeOK

(* finish_round and a failed request leave the tables of rows alone.       *)
LEMMA FinishInv ==
    ASSUME Inv, NEW w \in Workers,
           \/ FinishEvaluations(w) \/ Fail(w)
           \/ \E local \in Locals : CommitFinish(w, local)
    PROVE  Inv'
<1>1. CASE FinishEvaluations(w)
    <2> DEFINE q == request[w]
               what == [step |-> "finish", of |-> q.of, had |-> q.had, found |-> evals]
    <2>1. q \in RunsLoaded
        BY <1>1, RequestShapes DEF FinishEvaluations, Inv, TypeOK
    <2>2. evals \subseteq Runs \X Tasks
        BY DEF Inv, TypeOK
    <2>3. what \in Requests /\ what.step # "evaluate"
        BY <2>1, <2>2 DEF RunsLoaded, AllLoaded, Requests
    <2>4. /\ request' \in [Workers -> Requests]
          /\ request'[w] = what
          /\ \A v \in Workers \ {w} : request'[v] = request[v]
        BY <1>1, <2>3, MovingOn DEF FinishEvaluations, Inv
    <2>5. Uncommitted(w)' = {}
        BY <2>3, <2>4 DEF Uncommitted, Evaluating
    <2>6. \A v \in Workers \ {w} : Uncommitted(v)' = Uncommitted(v)
        BY <2>4 DEF Uncommitted, Evaluating
    <2> QED BY <1>1, <2>4, <2>5, <2>6
            DEF FinishEvaluations, Inv, TypeOK, UncommittedHaveParents, stored, told
<1>2. ASSUME NEW local \in Locals, CommitFinish(w, local)
      PROVE  Inv'
    <2>1. stats' \in Statistics
        BY <1>2, NumbersTypes DEF CommitFinish, Statistics, Inv, TypeOK
    <2>2. UncommittedHaveParents' /\ request' \in [Workers -> Requests]
        BY <1>2, EndKeepsParents DEF CommitFinish
    <2> QED BY <1>2, <2>1, <2>2 DEF CommitFinish, Inv, TypeOK, told
<1>3. CASE Fail(w)
    <2>1. UncommittedHaveParents' /\ request' \in [Workers -> Requests]
        BY <1>3, EndKeepsParents DEF Fail, stored
    <2> QED BY <1>3, <2>1 DEF Fail, stored, told, Inv, TypeOK
<1> QED BY <1>1, <1>2, <1>3

(* At first there is nothing that could lack a parent.                     *)
LEMMA InitInv == Init => Inv
<1> SUFFICES ASSUME Init
             PROVE  Inv
    OBVIOUS
<1>1. TypeOK
    BY DEF Init, TypeOK, Requests, Statistics
<1>2. UncommittedHaveParents
    BY DEF Init, UncommittedHaveParents, Uncommitted, Evaluating, Idle
<1> QED BY <1>1, <1>2 DEF Inv

(* A step that changes nothing keeps the invariant.                        *)
LEMMA StutterInv == Inv /\ UNCHANGED vars => Inv'
BY DEF Inv, vars, stored, told, TypeOK, UncommittedHaveParents, Uncommitted, Evaluating

(* Every step keeps the invariant.                                         *)
LEMMA NextInv == Inv /\ [Next]_vars => Inv'
<1> SUFFICES ASSUME Inv, Next
             PROVE  Inv'
    BY StutterInv
<1> QED BY BeginningsInv, WriteTasksInv, WriteRunInv, ItemInv, CommitInv, FinishInv DEF Next

(* The inductive invariant: the tables are well-formed and what is not     *)
(* committed yet has its parents.                                          *)
THEOREM Invariance == Spec => []Inv
BY InitInv, NextInv, PTL DEF Spec

(* Whatever requests are in flight, no evaluation loses its run or task.   *)
THEOREM TypeCorrectness == Spec => []TypeOK
<1>1. Inv => TypeOK
    BY DEF Inv
<1> QED BY <1>1, Invariance, PTL

-----------------------------------------------------------------------------
(* The statistics.                                                         *)

(* Every step keeps a score where there are evaluations: evaluations and   *)
(* score are committed together, and finish writes a score only.           *)
LEMMA ScoreStep == Inv /\ ScoreNeverNull /\ [Next]_vars => ScoreNeverNull'
<1> SUFFICES ASSUME Inv, ScoreNeverNull, [Next]_vars,
                    NEW r \in runs', Evaluated(evals', r) # {}
             PROVE  stats'[r] # Null
    BY DEF ScoreNeverNull
<1>0. r \in Runs
    BY NextInv DEF Inv, TypeOK
<1>2. CASE \E w \in Workers : CommitEvaluations(w)
    <2>1. PICK w \in Workers : CommitEvaluations(w)
        BY <1>2
    <2> DEFINE q == request[w]
    <2>2. Evaluating(w) /\ q.run \in Runs /\ q.counted \in SUBSET Tasks
        BY <2>1, EvaluationTypes DEF CommitEvaluations, Inv
    <2>3. CASE q.new # {} /\ r = q.run
        <3>1. stats'[r] = Own(q.counted)
            BY <1>0, <2>1, <2>3 DEF CommitEvaluations, Recomputed, Inv, TypeOK, Statistics
        <3> QED BY <2>2, <3>1, NumbersTypes, Payloads
    <2>4. CASE q.new = {} \/ r # q.run
        <3>1. stats'[r] = stats[r]
            BY <1>0, <2>1, <2>2, <2>4 DEF CommitEvaluations, Recomputed, Inv, TypeOK, Statistics
        <3>2. Evaluated(evals', r) = Evaluated(evals, r)
            BY <2>1, <2>2, <2>4 DEF CommitEvaluations, Uncommitted, Evaluated
        <3>3. r \in runs
            BY <2>1 DEF CommitEvaluations
        <3> QED BY <3>1, <3>2, <3>3 DEF ScoreNeverNull
    <2> QED BY <2>3, <2>4
<1>3. CASE \E w \in Workers, local \in Locals : CommitFinish(w, local)
    <2>1. PICK w \in Workers, local \in Locals : CommitFinish(w, local)
        BY <1>3
    <2>2. stats'[r] \in Numbers \/ stats'[r] = stats[r]
        BY <1>0, <2>1, NumbersTypes DEF CommitFinish
    <2> QED BY <2>1, <2>2, Payloads DEF CommitFinish, ScoreNeverNull
<1>4. CASE /\ ~\E w \in Workers : \/ CommitEvaluations(w)
                                   \/ \E local \in Locals : CommitFinish(w, local)
           /\ [Next]_vars
    <2>1. stats' = stats /\ evals' \subseteq evals
        BY <1>4 DEF Next, vars, stored, SetTasks, WriteTasks, StartRun, WriteRun,
                    AddEvaluation, AddEvaluationsBatch, InsertEvaluation, ReleaseFails,
                    SkipEvaluation, FinishRuns, FinishEvaluations, Fail
    <2>2. PICK t \in Tasks : <<r, t>> \in evals
        BY <2>1 DEF Evaluated
    <2>3. r \in runs
        BY <2>2 DEF Inv, TypeOK
    <2>4. Evaluated(evals, r) # {}
        BY <2>2 DEF Evaluated
    <2> QED BY <2>1, <2>3, <2>4 DEF ScoreNeverNull
<1> QED BY <1>2, <1>3, <1>4

(* A run with evaluations always has a score, whatever loses an update.    *)
THEOREM ScoreAlwaysThere == Spec => []ScoreNeverNull
<1>1. Init => ScoreNeverNull
    BY DEF Init, ScoreNeverNull
<1> QED BY <1>1, ScoreStep, Invariance, PTL DEF Spec

-----------------------------------------------------------------------------
(* What a validator was told is stored stays, or went with its task list.  *)

(* What a batch will answer as created, and not among the errors, is       *)
(* stored, or replaced since, or what the request itself has inserted.     *)
Accounted == evals \cup replaced

CreatedExist ==
    \A w \in Workers :
        Evaluating(w) => {request[w].run} \X (request[w].created \ request[w].errors)
                             \subseteq Accounted \cup Uncommitted(w)

(* What is accounted for stays accounted for.                              *)
LEMMA AccountedStay ==
    ASSUME [Next]_vars
    PROVE  Accounted \subseteq Accounted'
<1>1. ASSUME NEW w \in Workers, WriteTasks(w)
      PROVE  Accounted \subseteq Accounted'
    BY <1>1 DEF WriteTasks, Accounted
<1>2. ASSUME NEW w \in Workers, CommitEvaluations(w)
      PROVE  Accounted \subseteq Accounted'
    BY <1>2 DEF CommitEvaluations, Accounted
<1>3. CASE ~\E w \in Workers : WriteTasks(w) \/ CommitEvaluations(w)
    <2>1. UNCHANGED <<evals, replaced>>
        BY <1>3 DEF Next, vars, stored, told, SetTasks, StartRun, WriteRun, AddEvaluation,
                    AddEvaluationsBatch, InsertEvaluation, ReleaseFails, SkipEvaluation,
                    FinishRuns, FinishEvaluations, CommitFinish, Fail
    <2> QED BY <2>1 DEF Accounted
<1> QED BY <1>1, <1>2, <1>3

(* A step of a worker that leaves it with nothing to answer for, or with   *)
(* what it can show.                                                       *)
LEMMA CreatedByOne ==
    ASSUME Inv, CreatedExist, Accounted \subseteq Accounted',
           NEW w \in Workers, NEW what \in Requests, Goes(w, what),
           what.step = "evaluate" =>
               {what.run} \X (what.created \ what.errors)
                   \subseteq Accounted \cup ({what.run} \X what.new)
    PROVE  CreatedExist'
<1>1. /\ request'[w] = what
      /\ \A v \in Workers \ {w} : request'[v] = request[v]
    BY MovingOn DEF Inv
<1> QED BY <1>1 DEF CreatedExist, Uncommitted, Evaluating

(* What a request is about to answer as stored is stored, or stored by     *)
(* itself.                                                                 *)
LEMMA CreatedStep ==
    ASSUME Inv, CreatedExist, [Next]_vars
    PROVE  CreatedExist'
<1>0. Accounted \subseteq Accounted'
    BY AccountedStay
<1>1. CASE UNCHANGED vars
    BY <1>1 DEF vars, stored, told, CreatedExist, Accounted, Evaluating, Uncommitted
<1>2. ASSUME NEW w \in Workers, NEW what \in Requests, Goes(w, what),
             what.step = "evaluate" => what.created = {}
      PROVE  CreatedExist'
    BY <1>0, <1>2, CreatedByOne
<1>3. ASSUME NEW w \in Workers, Goes(w, Idle)
      PROVE  CreatedExist'
    BY <1>2, <1>3 DEF Requests, Idle
<1>4. ASSUME NEW w \in Workers,
             \/ WriteTasks(w) \/ WriteRun(w) \/ CommitEvaluations(w)
             \/ Fail(w) \/ \E local \in Locals : CommitFinish(w, local)
      PROVE  CreatedExist'
    BY <1>3, <1>4 DEF WriteTasks, WriteRun, CommitEvaluations, CommitFinish, Fail
<1>5. ASSUME NEW w \in Workers, NEW new \in TaskSets, SetTasks(w, new)
      PROVE  CreatedExist'
    <2> DEFINE what == [step |-> "set_tasks", new |-> new, replaces |-> tasks # {}]
    <2>1. what \in Requests /\ what.step # "evaluate"
        BY DEF Requests, TaskRequests
    <2> QED BY <1>2, <1>5, <2>1 DEF SetTasks, Begin, Goes
<1>6. ASSUME NEW w \in Workers, NEW r \in Runs, StartRun(w, r)
      PROVE  CreatedExist'
    <2> DEFINE what == [step |-> "start_run", run |-> r]
    <2>1. what \in Requests /\ what.step # "evaluate"
        BY DEF Requests, RunRequests
    <2> QED BY <1>2, <1>6, <2>1 DEF StartRun, Begin, Goes
<1>7. ASSUME NEW w \in Workers, NEW r \in Runs, NEW todo \in SUBSET Tasks,
             NEW batch \in BOOLEAN, Begin(w, Evaluation(r, todo, batch))
      PROVE  CreatedExist'
    <2>1. Evaluation(r, todo, batch) \in Requests /\ Evaluation(r, todo, batch).created = {}
        BY DEF Requests, EvaluationRequests, Evaluation
    <2> QED BY <1>2, <1>7, <2>1 DEF Begin, Goes
<1>8. ASSUME NEW w \in Workers, NEW r \in Runs,
             \/ \E t \in Tasks : AddEvaluation(w, r, t)
             \/ \E batch \in Batches : AddEvaluationsBatch(w, r, batch)
      PROVE  CreatedExist'
    <2>1. CASE \E t \in Tasks : AddEvaluation(w, r, t)
        <3>1. PICK t \in Tasks : Begin(w, Evaluation(r, {t}, FALSE))
            BY <2>1 DEF AddEvaluation
        <3>2. {t} \in SUBSET Tasks /\ FALSE \in BOOLEAN
            OBVIOUS
        <3> QED BY <1>7, <3>1, <3>2
    <2>2. CASE \E batch \in Batches : AddEvaluationsBatch(w, r, batch)
        <3>1. PICK batch \in Batches : Begin(w, Evaluation(r, batch, TRUE))
            BY <2>2 DEF AddEvaluationsBatch
        <3>2. batch \in SUBSET Tasks /\ TRUE \in BOOLEAN
            BY Payloads
        <3> QED BY <1>7, <3>1, <3>2
    <2> QED BY <1>8, <2>1, <2>2
<1>9. ASSUME NEW w \in Workers, FinishRuns(w)
      PROVE  CreatedExist'
    <2> DEFINE what == [step |-> "finish_runs", of |-> runs, had |-> stats]
    <2>1. what \in Requests /\ what.step # "evaluate"
        BY DEF Requests, RunsLoaded, Inv, TypeOK
    <2> QED BY <1>2, <1>9, <2>1 DEF FinishRuns, Begin, Goes
<1>10. ASSUME NEW w \in Workers, FinishEvaluations(w)
       PROVE  CreatedExist'
    <2> DEFINE what == [step |-> "finish", of |-> request[w].of, had |-> request[w].had,
                        found |-> evals]
    <2>1. request[w] \in RunsLoaded
        BY <1>10, RequestShapes DEF FinishEvaluations, Inv, TypeOK
    <2>2. evals \subseteq Runs \X Tasks
        BY DEF Inv, TypeOK
    <2>3. what \in Requests /\ what.step # "evaluate"
        BY <2>1, <2>2 DEF Requests, RunsLoaded, AllLoaded
    <2> QED BY <1>2, <1>10, <2>3 DEF FinishEvaluations
<1>11. ASSUME NEW w \in Workers, NEW t \in Tasks, InsertEvaluation(w, t)
       PROVE  CreatedExist'
    <2> DEFINE q == request[w]
               what == [q EXCEPT !.todo = @ \ {t}, !.new = @ \cup {t},
                                 !.created = @ \cup {t}, !.counted = Counted(q, t)]
    <2>1. q \in EvaluationRequests
        BY <1>11, EvaluationTypes DEF InsertEvaluation, Inserts, Inv
    <2>2. Counted(q, t) \subseteq Tasks
        BY <2>1, EvaluatedTypes DEF Counted, EvaluationRequests
    <2>3. /\ what \in EvaluationRequests /\ what.run = q.run
          /\ what.new = q.new \cup {t} /\ what.created = q.created \cup {t}
          /\ what.errors = q.errors
        BY <2>1, <2>2 DEF EvaluationRequests
    <2>4. {q.run} \X (q.created \ q.errors) \subseteq Accounted \cup ({q.run} \X q.new)
        BY <1>11 DEF InsertEvaluation, Inserts, CreatedExist, Uncommitted
    <2>5. {what.run} \X (what.created \ what.errors)
              \subseteq Accounted \cup ({what.run} \X what.new)
        BY <2>3, <2>4
    <2> QED BY <1>0, <1>11, <2>3, <2>5, CreatedByOne DEF InsertEvaluation, Requests
<1>12. ASSUME NEW w \in Workers, NEW t \in Tasks, SkipEvaluation(w, t)
       PROVE  CreatedExist'
    <2> DEFINE q == request[w]
               there == Exists(<<q.run, t>>)
               what == [q EXCEPT !.todo = @ \ {t},
                                 !.created = IF there THEN @ \cup {t} ELSE @,
                                 !.errors = IF there THEN @ ELSE @ \cup {t}]
    <2>1. q \in EvaluationRequests
        BY <1>12, EvaluationTypes DEF SkipEvaluation, Inv
    <2>2. /\ what \in EvaluationRequests /\ what.run = q.run /\ what.new = q.new
          /\ what.created = IF there THEN q.created \cup {t} ELSE q.created
          /\ q.errors \subseteq what.errors
        BY <2>1 DEF EvaluationRequests
    <2>3. {q.run} \X (q.created \ q.errors) \subseteq Accounted \cup ({q.run} \X q.new)
        BY <1>12 DEF SkipEvaluation, CreatedExist, Uncommitted
    <2>4. there => <<q.run, t>> \in Accounted
        BY DEF Exists, Accounted
    <2>5. {what.run} \X (what.created \ what.errors)
              \subseteq Accounted \cup ({what.run} \X what.new)
        BY <2>2, <2>3, <2>4
    <2> QED BY <1>0, <1>12, <2>2, <2>5, CreatedByOne DEF SkipEvaluation, Requests
<1>13. ASSUME NEW w \in Workers, NEW t \in Tasks, ReleaseFails(w, t)
       PROVE  CreatedExist'
    <2> DEFINE q == request[w]
               what == [q EXCEPT !.todo = @ \ {t}, !.created = @ \cup {t},
                                 !.errors = @ \cup {t}]
    <2>1. q \in EvaluationRequests
        BY <1>13, EvaluationTypes DEF ReleaseFails, Inserts, Inv
    <2>2. /\ what \in EvaluationRequests /\ what.run = q.run /\ what.new = q.new
          /\ what.created = q.created \cup {t} /\ what.errors = q.errors \cup {t}
        BY <2>1 DEF EvaluationRequests
    <2>3. {q.run} \X (q.created \ q.errors) \subseteq Accounted \cup ({q.run} \X q.new)
        BY <1>13 DEF ReleaseFails, Inserts, CreatedExist, Uncommitted
    <2>4. {what.run} \X (what.created \ what.errors)
              \subseteq Accounted \cup ({what.run} \X what.new)
        BY <2>2, <2>3
    <2> QED BY <1>0, <1>13, <2>2, <2>4, CreatedByOne DEF ReleaseFails, Requests
<1> QED BY <1>1, <1>4, <1>5, <1>6, <1>8, <1>9, <1>10, <1>11, <1>12, <1>13 DEF Next

(* An answer is given for what is accounted for, and that stays so.        *)
LEMMA AckedStep ==
    ASSUME Inv, CreatedExist, AckedIsStored, [Next]_vars
    PROVE  AckedIsStored'
<1>1. Accounted \subseteq Accounted'
    BY AccountedStay
<1>2. CASE acked' = acked
    BY <1>1, <1>2 DEF AckedIsStored, Accounted
<1>3. ASSUME NEW w \in Workers, CommitEvaluations(w)
      PROVE  AckedIsStored'
    <2> DEFINE q == request[w]
    <2>1. {q.run} \X (q.created \ q.errors) \subseteq Accounted \cup Uncommitted(w)
        BY <1>3 DEF CommitEvaluations, CreatedExist
    <2>2. Uncommitted(w) \subseteq evals'
        BY <1>3 DEF CommitEvaluations
    <2>3. acked' = acked \cup ({q.run} \X (q.created \ q.errors))
        BY <1>3 DEF CommitEvaluations
    <2> QED BY <1>1, <2>1, <2>2, <2>3 DEF AckedIsStored, Accounted
<1>4. acked' = acked \/ \E w \in Workers : CommitEvaluations(w)
    BY DEF Next, vars, told, SetTasks, WriteTasks, StartRun, WriteRun, AddEvaluation,
           AddEvaluationsBatch, InsertEvaluation, ReleaseFails, SkipEvaluation, FinishRuns,
           FinishEvaluations, CommitFinish, Fail
<1> QED BY <1>2, <1>3, <1>4

(* An evaluation that was answered as stored is never lost, however many   *)
(* requests repeat it and fail, but with the task list it is of.           *)
THEOREM AckedAlwaysStored == Spec => []AckedIsStored
<1>1. Init => CreatedExist /\ AckedIsStored
    BY DEF Init, CreatedExist, AckedIsStored, Evaluating, Idle
<1>2. Inv /\ CreatedExist /\ AckedIsStored /\ [Next]_vars
        => (CreatedExist /\ AckedIsStored)'
    BY CreatedStep, AckedStep
<1> QED BY <1>1, <1>2, Invariance, PTL DEF Spec

-----------------------------------------------------------------------------
(***************************************************************************)
(* What holds when requests come one after the other (Workers = {w}):      *)
(* nothing a request has read is stale when it writes. For any tasks, task *)
(* lists, batches, runs and miners.                                        *)
(***************************************************************************)

(* The statistics of every run are those of its evaluations.               *)
Exact ==
    \A r \in Runs : \/ stats[r] # Null /\ stats[r].seen = Evaluated(evals, r)
                    \/ stats[r] = Null /\ Evaluated(evals, r) = {}

(* What the only request has read is what is stored.                       *)
Current(q) ==
    /\ q.step = "set_tasks" => /\ q.replaces <=> tasks # {}
                               /\ tasks = {} \/ Unused
    /\ q.step = "start_run" => ~HasRun(q.run)
    /\ q.step = "evaluate" /\ q.new # {} => q.counted = Evaluated(evals, q.run) \cup q.new
    /\ q.step = "finish" => q.found = evals
    /\ q.step \in {"finish_runs", "finish"} => q.had = stats

AloneInv(w) == Inv /\ Exact /\ OneRunPerMiner /\ Current(request[w])

-----------------------------------------------------------------------------
(* A request that begins, goes on or ends without writing: it is enough    *)
(* that what it has read then is current.                                  *)
LEMMA ReadingStep ==
    ASSUME NEW w \in Workers, NEW what \in Requests, AloneInv(w), Inv', Goes(w, what),
           UNCHANGED stored, Current(what)
    PROVE  AloneInv(w)'
<1>1. request'[w] = what
    BY MovingOn DEF AloneInv, Inv
<1>2. Current(request[w])'
    BY <1>1 DEF Current, HasRun, Unused, Evaluated, stored
<1>3. Exact' /\ OneRunPerMiner'
    BY DEF AloneInv, Exact, OneRunPerMiner, Evaluated, stored
<1> QED BY <1>2, <1>3 DEF AloneInv

(* A request that has ended has read nothing.                              *)
LEMMA EndedStep ==
    ASSUME NEW w \in Workers, Inv, Goes(w, Idle)
    PROVE  Current(request[w])'
<1>1. Idle \in Requests
    BY DEF Requests
<1>2. request'[w] = Idle
    BY <1>1, MovingOn DEF Inv
<1> QED BY <1>2 DEF Current, Idle

(* The requests that begin.                                                *)
LEMMA BeginningsAlone ==
    ASSUME NEW w \in Workers, AloneInv(w), Inv'
    PROVE  /\ \A new \in TaskSets : SetTasks(w, new) => AloneInv(w)'
           /\ \A r \in Runs : StartRun(w, r) => AloneInv(w)'
           /\ \A r \in Runs, t \in Tasks : AddEvaluation(w, r, t) => AloneInv(w)'
           /\ \A r \in Runs, batch \in Batches : AddEvaluationsBatch(w, r, batch) => AloneInv(w)'
           /\ FinishRuns(w) => AloneInv(w)'
<1>1. ASSUME NEW new \in TaskSets, SetTasks(w, new)
      PROVE  AloneInv(w)'
    <2> DEFINE what == [step |-> "set_tasks", new |-> new, replaces |-> tasks # {}]
    <2>1. what \in Requests
        BY DEF Requests, TaskRequests
    <2>2. Current(what)
        BY <1>1 DEF SetTasks, Current
    <2> QED BY <1>1, <2>1, <2>2, ReadingStep DEF SetTasks, Begin, Goes
<1>2. ASSUME NEW r \in Runs, StartRun(w, r)
      PROVE  AloneInv(w)'
    <2> DEFINE what == [step |-> "start_run", run |-> r]
    <2>1. what \in Requests
        BY DEF Requests, RunRequests
    <2>2. Current(what)
        BY <1>2 DEF StartRun, Current
    <2> QED BY <1>2, <2>1, <2>2, ReadingStep DEF StartRun, Begin, Goes
<1>3. ASSUME NEW r \in Runs, NEW todo \in SUBSET Tasks, NEW batch \in BOOLEAN
      PROVE  Evaluation(r, todo, batch) \in Requests /\ Current(Evaluation(r, todo, batch))
    BY DEF Requests, EvaluationRequests, Evaluation, Current
<1>4. ASSUME NEW r \in Runs, NEW t \in Tasks, AddEvaluation(w, r, t)
      PROVE  AloneInv(w)'
    BY <1>3, <1>4, ReadingStep DEF AddEvaluation, Begin, Goes
<1>5. ASSUME NEW r \in Runs, NEW batch \in Batches, AddEvaluationsBatch(w, r, batch)
      PROVE  AloneInv(w)'
    BY <1>3, <1>5, ReadingStep, Payloads DEF AddEvaluationsBatch, Begin, Goes
<1>6. ASSUME FinishRuns(w)
      PROVE  AloneInv(w)'
    <2> DEFINE what == [step |-> "finish_runs", of |-> runs, had |-> stats]
    <2>1. what \in Requests
        BY DEF Requests, RunsLoaded, AloneInv, Inv, TypeOK
    <2>2. Current(what)
        BY DEF Current
    <2> QED BY <1>6, <2>1, <2>2, ReadingStep DEF FinishRuns, Begin, Goes
<1> QED BY <1>1, <1>2, <1>4, <1>5, <1>6

(* set_tasks replaces a list nothing was evaluated of.                     *)
LEMMA WriteTasksAlone ==
    ASSUME NEW w \in Workers, AloneInv(w), Inv', WriteTasks(w)
    PROVE  AloneInv(w)' /\ (tasks # {} /\ (runs # {} \/ evals # {}) => tasks' = tasks)
<1>1. tasks = {} \/ Unused
    BY DEF AloneInv, Current, WriteTasks
<1>2. evals = {}
    BY <1>1 DEF AloneInv, Inv, TypeOK, Unused
<1>3. evals' = evals /\ UNCHANGED <<runs, stats>>
    BY <1>2 DEF WriteTasks
<1>4. Current(request[w])'
    BY EndedStep DEF AloneInv, WriteTasks
<1>5. Exact' /\ OneRunPerMiner'
    BY <1>3 DEF AloneInv, Exact, OneRunPerMiner, Evaluated
<1> QED BY <1>1, <1>4, <1>5 DEF AloneInv, Unused

(* start_agent_run inserts a run of a miner that has none.                 *)
LEMMA WriteRunAlone ==
    ASSUME NEW w \in Workers, AloneInv(w), Inv', WriteRun(w)
    PROVE  AloneInv(w)'
<1>1. ~HasRun(request[w].run)
    BY DEF AloneInv, Current, WriteRun
<1>2. OneRunPerMiner'
    BY <1>1 DEF AloneInv, WriteRun, OneRunPerMiner, HasRun
<1>3. Current(request[w])'
    BY EndedStep DEF AloneInv, WriteRun
<1>4. Exact'
    BY DEF AloneInv, WriteRun, Exact, Evaluated
<1> QED BY <1>2, <1>3, <1>4 DEF AloneInv

(* An item of a batch, stored, rolled back or skipped.                     *)
LEMMA ItemAlone ==
    ASSUME NEW w \in Workers, AloneInv(w), Inv', NEW t \in Tasks,
           InsertEvaluation(w, t) \/ ReleaseFails(w, t) \/ SkipEvaluation(w, t)
    PROVE  AloneInv(w)'
<1> DEFINE q == request[w]
<1>1. Evaluating(w) /\ q \in EvaluationRequests /\ q.step = "evaluate"
    BY EvaluationTypes
       DEF InsertEvaluation, ReleaseFails, Inserts, SkipEvaluation, Evaluating, AloneInv, Inv
<1>2. CASE InsertEvaluation(w, t)
    <2> DEFINE what == [q EXCEPT !.todo = @ \ {t}, !.new = @ \cup {t},
                                 !.created = @ \cup {t}, !.counted = Counted(q, t)]
    <2>1. Counted(q, t) \subseteq Tasks
        BY <1>1, EvaluatedTypes DEF Counted, EvaluationRequests
    <2>2. /\ what \in EvaluationRequests /\ what.step = "evaluate"
          /\ what.new = q.new \cup {t} /\ what.run = q.run /\ what.counted = Counted(q, t)
        BY <1>1, <2>1 DEF EvaluationRequests
    <2>3. Current(what)
        BY <2>2 DEF Current, Counted
    <2> QED BY <1>2, <2>2, <2>3, ReadingStep DEF InsertEvaluation, Requests
<1>3. ASSUME NEW what \in EvaluationRequests, what.step = "evaluate", what.new = q.new,
             what.run = q.run, what.counted = q.counted, Goes(w, what), UNCHANGED stored
      PROVE  AloneInv(w)'
    <2>1. Current(what)
        BY <1>1, <1>3 DEF Current, AloneInv
    <2> QED BY <1>3, <2>1, ReadingStep DEF Requests
<1>4. CASE ReleaseFails(w, t)
    <2> DEFINE what == [q EXCEPT !.todo = @ \ {t}, !.created = @ \cup {t},
                                 !.errors = @ \cup {t}]
    <2>1. /\ what \in EvaluationRequests /\ what.step = "evaluate"
          /\ what.new = q.new /\ what.run = q.run /\ what.counted = q.counted
        BY <1>1 DEF EvaluationRequests
    <2> QED BY <1>3, <1>4, <2>1 DEF ReleaseFails
<1>5. CASE SkipEvaluation(w, t)
    <2> DEFINE there == Exists(<<q.run, t>>)
               what == [q EXCEPT !.todo = @ \ {t},
                                 !.created = IF there THEN @ \cup {t} ELSE @,
                                 !.errors = IF there THEN @ ELSE @ \cup {t}]
    <2>1. /\ what \in EvaluationRequests /\ what.step = "evaluate"
          /\ what.new = q.new /\ what.run = q.run /\ what.counted = q.counted
        BY <1>1 DEF EvaluationRequests
    <2> QED BY <1>3, <1>5, <2>1 DEF SkipEvaluation
<1> QED BY <1>2, <1>4, <1>5

(* The commit stores the evaluations with the statistics counted of them.  *)
LEMMA CommitAlone ==
    ASSUME NEW w \in Workers, AloneInv(w), Inv', CommitEvaluations(w)
    PROVE  AloneInv(w)'
<1> DEFINE q == request[w]
<1>1. /\ Evaluating(w) /\ q.step = "evaluate" /\ q.run \in Runs
      /\ q.new \subseteq Tasks /\ q.counted \subseteq Tasks
    BY EvaluationTypes DEF CommitEvaluations, Evaluating, AloneInv, Inv
<1>2. evals' = evals \cup ({q.run} \X q.new) /\ stats' = Recomputed(q)
    BY <1>1 DEF CommitEvaluations, Uncommitted
<1>3. ASSUME NEW r \in Runs
      PROVE  \/ stats'[r] # Null /\ stats'[r].seen = Evaluated(evals', r)
             \/ stats'[r] = Null /\ Evaluated(evals', r) = {}
    <2>1. CASE r = q.run /\ q.new # {}
        <3>1. Evaluated(evals', r) = Evaluated(evals, r) \cup q.new
            BY <1>1, <1>2, <2>1 DEF Evaluated
        <3>2. stats'[r] = Own(q.counted)
            BY <1>2, <2>1 DEF Recomputed, AloneInv, Inv, TypeOK, Statistics
        <3>3. q.counted = Evaluated(evals, r) \cup q.new
            BY <1>1, <2>1 DEF AloneInv, Current
        <3>4. Own(q.counted) # Null /\ Own(q.counted).seen = q.counted
            BY <1>1, NumbersTypes, Payloads DEF Own
        <3> QED BY <3>1, <3>2, <3>3, <3>4
    <2>2. CASE r # q.run \/ q.new = {}
        <3>1. Evaluated(evals', r) = Evaluated(evals, r)
            BY <1>2, <2>2 DEF Evaluated
        <3>2. stats'[r] = stats[r]
            BY <1>2, <2>2 DEF Recomputed, AloneInv, Inv, TypeOK, Statistics
        <3> QED BY <3>1, <3>2 DEF AloneInv, Exact
    <2> QED BY <2>1, <2>2
<1>4. OneRunPerMiner'
    BY DEF CommitEvaluations, AloneInv, OneRunPerMiner
<1>5. Current(request[w])'
    BY EndedStep DEF AloneInv, CommitEvaluations
<1> QED BY <1>3, <1>4, <1>5 DEF AloneInv, Exact

(* finish_round writes what it found, which is what there is.              *)
LEMMA FinishAlone ==
    ASSUME NEW w \in Workers, AloneInv(w), Inv',
           \/ FinishEvaluations(w) \/ Fail(w)
           \/ \E local \in Locals : CommitFinish(w, local)
    PROVE  AloneInv(w)'
<1>1. CASE FinishEvaluations(w)
    <2> DEFINE q == request[w]
               what == [step |-> "finish", of |-> q.of, had |-> q.had, found |-> evals]
    <2>1. q \in RunsLoaded
        BY <1>1, RequestShapes DEF FinishEvaluations, AloneInv, Inv, TypeOK
    <2>2. evals \subseteq Runs \X Tasks
        BY DEF AloneInv, Inv, TypeOK
    <2>3. what \in Requests
        BY <2>1, <2>2 DEF RunsLoaded, AllLoaded, Requests
    <2>4. Current(what)
        BY <1>1 DEF Current, AloneInv, FinishEvaluations
    <2> QED BY <1>1, <2>3, <2>4, ReadingStep DEF FinishEvaluations
<1>2. ASSUME NEW local \in Locals, CommitFinish(w, local)
      PROVE  AloneInv(w)'
    <2>1. request[w].found = evals
        BY <1>2 DEF AloneInv, Current, CommitFinish
    <2>2. \A r \in Runs : \/ stats'[r] # Null /\ stats'[r].seen = Evaluated(evals, r)
                         \/ stats'[r] = stats[r]
        BY <1>2, <2>1, NumbersTypes, Payloads DEF CommitFinish
    <2>3. UNCHANGED <<tasks, runs, evals>>
        BY <1>2 DEF CommitFinish
    <2>4. Exact'
        BY <2>2, <2>3 DEF AloneInv, Exact, Evaluated
    <2>5. OneRunPerMiner'
        BY <2>3 DEF AloneInv, OneRunPerMiner
    <2>6. Current(request[w])'
        BY <1>2, EndedStep DEF AloneInv, CommitFinish
    <2> QED BY <2>4, <2>5, <2>6 DEF AloneInv
<1>3. CASE Fail(w)
    <2>1. Idle \in Requests /\ Current(Idle)
        BY DEF Requests, Current, Idle
    <2> QED BY <1>3, <2>1, ReadingStep DEF Fail
<1> QED BY <1>1, <1>2, <1>3

(* Every step of the only request.                                         *)
LEMMA NextAlone ==
    ASSUME NEW w, Workers = {w}, AloneInv(w), [Next]_vars
    PROVE  AloneInv(w)'
<1>1. Inv'
    BY NextInv DEF AloneInv
<1>2. CASE UNCHANGED vars
    BY <1>1, <1>2 DEF AloneInv, vars, stored, Exact, OneRunPerMiner, Current, HasRun, Unused,
                      Evaluated
<1>3. CASE Next
    BY <1>1, <1>3, BeginningsAlone, WriteTasksAlone, WriteRunAlone, ItemAlone, CommitAlone,
       FinishAlone DEF Next
<1> QED BY <1>2, <1>3

(* At first nothing is stored and nothing read.                            *)
LEMMA InitAlone ==
    ASSUME NEW w \in Workers, Init
    PROVE  AloneInv(w)
<1>1. Inv
    BY InitInv
<1> QED BY <1>1 DEF Init, AloneInv, Exact, OneRunPerMiner, Current, Evaluated, Idle

-----------------------------------------------------------------------------
(* The invariant of requests that come one after the other.                *)
THEOREM AloneInvariance ==
    ASSUME NEW CONSTANT w, Workers = {w}
    PROVE  Spec => []AloneInv(w)
<1>1. Init => AloneInv(w)
    BY InitAlone
<1>2. AloneInv(w) /\ [Next]_vars => AloneInv(w)'
    BY NextAlone
<1> QED BY <1>1, <1>2, PTL DEF Spec

(* An agent run is unique per round and miner.                             *)
THEOREM AlwaysOneRunPerMiner ==
    ASSUME NEW CONSTANT w, Workers = {w}
    PROVE  Spec => []OneRunPerMiner
<1>1. AloneInv(w) => OneRunPerMiner
    BY DEF AloneInv
<1> QED BY <1>1, AloneInvariance, PTL

(* The statistics of a run are those of its evaluations.                   *)
THEOREM StatsAlwaysExact ==
    ASSUME NEW CONSTANT w, Workers = {w}
    PROVE  Spec => []StatsExact
<1>1. AloneInv(w) => StatsExact
    BY DEF AloneInv, Inv, TypeOK, Exact, StatsExact
<1> QED BY <1>1, AloneInvariance, PTL

(* The tasks of a round are not replaced once they are used.               *)
THEOREM TasksAlwaysStayLocked ==
    ASSUME NEW CONSTANT w, Workers = {w}
    PROVE  Spec => TasksStayLocked
<1>1. AloneInv(w) /\ [Next]_vars
        => [tasks # {} /\ (runs # {} \/ evals # {}) => tasks' = tasks]_vars
    <2> SUFFICES ASSUME AloneInv(w), Next, tasks # {}, runs # {} \/ evals # {}
                 PROVE  tasks' = tasks
        BY DEF vars, stored
    <2>1. CASE WriteTasks(w)
        BY <2>1, NextInv, WriteTasksAlone DEF AloneInv
    <2>2. CASE ~WriteTasks(w)
        BY <2>2 DEF Next, stored, SetTasks, StartRun, WriteRun, AddEvaluation,
                    AddEvaluationsBatch, InsertEvaluation, ReleaseFails, SkipEvaluation,
                    CommitEvaluations, FinishRuns, FinishEvaluations, CommitFinish, Fail
    <2> QED BY <2>1, <2>2
<1> QED BY <1>1, AloneInvariance, PTL DEF Spec, TasksStayLocked

=============================================================================
