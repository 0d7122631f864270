-------------------------- MODULE RunOutcome_proofs --------------------------
(***************************************************************************)
(* That the steps of RunOutcome are those of AgentRunIngestion, what it    *)
(* promises of the reason of a run that scores nothing when requests come  *)
(* one after the other, and that the pages of RunViews and TaskViews agree *)
(* with each other. For any tasks, scores, reports, runs and miners.       *)
(***************************************************************************)
EXTENDS TaskViews, AgentRunIngestion_proofs, Queries_proofs, FiniteSetTheorems

(* The columns and their loaded copies are tables.                         *)
OutcomeTypes ==
    /\ reason \in [Runs -> Reasons]
    /\ loaded = [w \in Workers |-> loaded[w]]
    /\ closing \in [Workers -> Reasons]

(* A run whose statistics say that it scores nothing has a reason.         *)
Needs(r, s) == ScoresNothing(r, s)
Reasoned == \A r \in Runs : stats[r] # Null /\ Needs(r, stats[r]) => reason[r] # "none"

(* The only request has loaded what is stored, and closes its run with a   *)
(* reason where the run needs one.                                         *)
Loaded(w) ==
    /\ request[w].step \in {"finish_runs", "finish"} =>
         loaded[w].reason = reason /\ loaded[w].attempted = attempted
    /\ request[w].step = "evaluate" /\ request[w].new # {} =>
         /\ loaded[w].reason = reason
         /\ Needs(request[w].run, Own(request[w].counted)) => closing[w] # "none"

OutcomeInv(w) == AloneInv(w) /\ OutcomeTypes /\ Reasoned /\ Loaded(w)

-----------------------------------------------------------------------------
(* Every step of RunOutcome is a step of AgentRunIngestion.                *)
LEMMA OutcomeStep == [OutcomeNext]_<<vars, outcome>> => [Next]_vars
BY DEF OutcomeNext, Next, InsertAndClose, CommitAndClose, LoadForFinish, CommitFinishWith,
       FailAndForget

(* A closed run has a reason where it needs one.                           *)
LEMMA ClosedIs ==
    ASSUME NEW r \in Runs, NEW current \in Reasons, NEW s
    PROVE  /\ Closed(current, r, s) \in Reasons
           /\ Needs(r, s) => Closed(current, r, s) # "none"
BY DEF Closed, DerivedReason, Reasons, Needs

(* A request that has just begun or ended has loaded nothing that matters. *)
LEMMA LoadsNothing ==
    ASSUME NEW w \in Workers, Inv, NEW what \in Requests, Goes(w, what),
           what.step \in {"idle", "set_tasks", "start_run"} \/ (what.step = "evaluate" /\ what.new = {})
    PROVE  Loaded(w)'
<1>1. request'[w] = what BY MovingOn DEF Inv
<1> QED BY <1>1 DEF Loaded

(* Steps that change no column: the reasons stay as they are.              *)
LEMMA PlainSteps ==
    ASSUME NEW w \in Workers, OutcomeInv(w), UNCHANGED outcome,
           \/ \E new \in TaskSets : SetTasks(w, new)
           \/ WriteTasks(w)
           \/ \E r \in Runs :
               \/ StartRun(w, r)
               \/ \E t \in Tasks : AddEvaluation(w, r, t)
               \/ \E batch \in Batches : AddEvaluationsBatch(w, r, batch)
           \/ WriteRun(w)
           \/ \E t \in Tasks : ReleaseFails(w, t) \/ SkipEvaluation(w, t)
           \/ FinishEvaluations(w)
    PROVE  OutcomeTypes' /\ Reasoned' /\ Loaded(w)'
<1>1. UNCHANGED <<reason, attempted, loaded, closing>> BY DEF outcome, columns
<1>2. stats' = stats
  BY DEF SetTasks, WriteTasks, StartRun, AddEvaluation, AddEvaluationsBatch, WriteRun,
         ReleaseFails, SkipEvaluation, FinishEvaluations, stored
<1>3. OutcomeTypes' /\ Reasoned'
  BY <1>1, <1>2 DEF OutcomeInv, OutcomeTypes, Reasoned
<1>i. Inv BY DEF OutcomeInv, AloneInv
<1>4. ASSUME NEW new \in TaskSets, SetTasks(w, new) PROVE Loaded(w)'
  <2> DEFINE what == [step |-> "set_tasks", new |-> new, replaces |-> tasks # {}]
  <2>1. what \in Requests BY DEF Requests, TaskRequests
  <2> QED BY <1>4, <1>i, <2>1, LoadsNothing DEF SetTasks, Begin, Goes
<1>5. ASSUME NEW r \in Runs, StartRun(w, r) PROVE Loaded(w)'
  <2> DEFINE what == [step |-> "start_run", run |-> r]
  <2>1. what \in Requests BY DEF Requests, RunRequests
  <2> QED BY <1>5, <1>i, <2>1, LoadsNothing DEF StartRun, Begin, Goes
<1>6. ASSUME NEW r \in Runs, NEW todo \in SUBSET Tasks, NEW batch \in BOOLEAN,
             Begin(w, Evaluation(r, todo, batch))
      PROVE  Loaded(w)'
  <2>1. /\ Evaluation(r, todo, batch) \in Requests
        /\ Evaluation(r, todo, batch).step = "evaluate" /\ Evaluation(r, todo, batch).new = {}
    BY DEF Requests, EvaluationRequests, Evaluation
  <2> QED BY <1>6, <1>i, <2>1, LoadsNothing DEF Begin, Goes
<1>7. ASSUME NEW r \in Runs, NEW t \in Tasks, AddEvaluation(w, r, t) PROVE Loaded(w)'
  BY <1>6, <1>7 DEF AddEvaluation
<1>8. ASSUME NEW r \in Runs, NEW batch \in Batches, AddEvaluationsBatch(w, r, batch) PROVE Loaded(w)'
  BY <1>6, <1>8, Payloads DEF AddEvaluationsBatch
<1>9. ASSUME WriteTasks(w) \/ WriteRun(w) PROVE Loaded(w)'
  <2>1. Idle \in Requests /\ Idle.step = "idle" BY DEF Requests, Idle
  <2> QED BY <1>9, <1>i, <2>1, LoadsNothing DEF WriteTasks, WriteRun
<1>k. ASSUME Evaluating(w), NEW what \in EvaluationRequests, Goes(w, what),
             what.step = request[w].step, what.new = request[w].new,
             what.run = request[w].run, what.counted = request[w].counted
      PROVE  Loaded(w)'
  <2>1. request'[w] = what BY <1>k, <1>i, MovingOn DEF Inv, Requests
  <2>2. request[w].step = "evaluate" BY <1>k DEF Evaluating
  <2> QED BY <1>1, <1>k, <2>1, <2>2 DEF OutcomeInv, Loaded
<1>10. ASSUME NEW t \in Tasks, SkipEvaluation(w, t) PROVE Loaded(w)'
  <2> DEFINE q == request[w]
             there == Exists(<<q.run, t>>)
             what == [q EXCEPT !.todo = @ \ {t},
                               !.created = IF there THEN @ \cup {t} ELSE @,
                               !.errors = IF there THEN @ ELSE @ \cup {t}]
  <2>1. q \in EvaluationRequests /\ Evaluating(w)
    BY <1>10, <1>i, EvaluationTypes DEF SkipEvaluation, Inv
  <2>2. /\ what \in EvaluationRequests /\ what.step = q.step
        /\ what.new = q.new /\ what.run = q.run /\ what.counted = q.counted
    BY <2>1 DEF EvaluationRequests
  <2>3. Goes(w, what) BY <1>10 DEF SkipEvaluation
  <2> HIDE DEF what
  <2> QED BY <1>k, <2>1, <2>2, <2>3
<1>12. ASSUME NEW t \in Tasks, ReleaseFails(w, t) PROVE Loaded(w)'
  <2> DEFINE q == request[w]
             what == [q EXCEPT !.todo = @ \ {t}, !.created = @ \cup {t},
                               !.errors = @ \cup {t}]
  <2>1. q \in EvaluationRequests /\ Evaluating(w)
    BY <1>12, <1>i, EvaluationTypes DEF ReleaseFails, Inserts, Inv
  <2>2. /\ what \in EvaluationRequests /\ what.step = q.step
        /\ what.new = q.new /\ what.run = q.run /\ what.counted = q.counted
    BY <2>1 DEF EvaluationRequests
  <2>3. Goes(w, what) BY <1>12 DEF ReleaseFails
  <2> HIDE DEF what
  <2> QED BY <1>k, <2>1, <2>2, <2>3
<1>11. ASSUME FinishEvaluations(w) PROVE Loaded(w)'
  <2> DEFINE q == request[w]
             what == [step |-> "finish", of |-> q.of, had |-> q.had, found |-> evals]
  <2>1. request' = [request EXCEPT ![w] = what] BY <1>11 DEF FinishEvaluations, Goes
  <2>2. request'[w].step = "finish" BY <1>i, <2>1 DEF Inv, TypeOK
  <2>3. loaded[w].reason = reason /\ loaded[w].attempted = attempted
    BY <1>11 DEF FinishEvaluations, OutcomeInv, Loaded
  <2> QED BY <1>1, <2>2, <2>3 DEF Loaded
<1> QED BY <1>3, <1>4, <1>5, <1>7, <1>8, <1>9, <1>10, <1>11, <1>12

(* An evaluation is counted and closes its run at once.                    *)
LEMMA InsertCloses ==
    ASSUME NEW w \in Workers, OutcomeInv(w), NEW t \in Tasks, InsertAndClose(w, t)
    PROVE  OutcomeTypes' /\ Reasoned' /\ Loaded(w)'
<1> DEFINE q == request[w]
           what == [q EXCEPT !.todo = @ \ {t}, !.new = @ \cup {t},
                             !.created = @ \cup {t}, !.counted = Counted(q, t)]
           current == IF q.new = {} THEN reason[q.run] ELSE closing[w]
<1>i. Inv /\ OutcomeTypes BY DEF OutcomeInv, AloneInv
<1>1. q \in EvaluationRequests /\ q.step = "evaluate" /\ q.run \in Runs
  BY <1>i, EvaluationTypes DEF InsertAndClose, InsertEvaluation, Inserts, Inv, Evaluating
<1>2. Counted(q, t) \subseteq Tasks BY <1>1, EvaluatedTypes DEF Counted, EvaluationRequests
<1>3. /\ what \in EvaluationRequests /\ what.step = "evaluate" /\ what.run = q.run
      /\ what.new = q.new \cup {t} /\ what.counted = Counted(q, t)
  BY <1>1, <1>2 DEF EvaluationRequests
<1>4. Goes(w, what) /\ stats' = stats BY DEF InsertAndClose, InsertEvaluation, stored
<1>5. request'[w] = what BY <1>i, <1>3, <1>4, MovingOn DEF Inv, Requests
<1> HIDE DEF what
<1>6. current \in Reasons BY <1>i, <1>1 DEF OutcomeTypes
<1>7. closing' = [closing EXCEPT ![w] = Closed(current, q.run, Own(Counted(q, t)))] BY DEF InsertAndClose
<1>8. closing'[w] = Closed(current, q.run, Own(Counted(q, t))) /\ closing' \in [Workers -> Reasons]
  BY <1>i, <1>1, <1>6, <1>7, ClosedIs DEF OutcomeTypes
<1>9. Needs(q.run, Own(Counted(q, t))) => closing'[w] # "none" BY <1>1, <1>6, <1>8, ClosedIs
<1>10. /\ reason' = reason
       /\ loaded' = IF q.new = {}
                    THEN [loaded EXCEPT ![w] = [reason |-> reason, attempted |-> attempted]]
                    ELSE loaded
  BY DEF InsertAndClose, columns
<1>11. loaded'[w].reason = reason /\ loaded' = [v \in Workers |-> loaded'[v]]
  <2>1. CASE q.new = {} BY <1>i, <1>10, <2>1 DEF OutcomeTypes
  <2>2. CASE q.new # {} BY <1>i, <1>1, <1>10, <2>2 DEF OutcomeTypes, OutcomeInv, Loaded
  <2> QED BY <2>1, <2>2
<1>12. Loaded(w)' BY <1>3, <1>5, <1>9, <1>10, <1>11 DEF Loaded
<1> QED BY <1>i, <1>4, <1>8, <1>10, <1>11, <1>12 DEF OutcomeTypes, Reasoned, OutcomeInv

(* A transaction that ends forgets what it loaded.                         *)
LEMMA Forgets ==
    ASSUME NEW w \in Workers, OutcomeInv(w), Forget(w), Goes(w, Idle), reason' \in [Runs -> Reasons]
    PROVE  OutcomeTypes' /\ Loaded(w)'
<1>1. Idle \in Requests /\ Idle.step = "idle" BY DEF Requests, Idle
<1>2. Loaded(w)' BY <1>1, LoadsNothing DEF OutcomeInv, AloneInv
<1>3. "none" \in Reasons BY DEF Reasons
<1> QED BY <1>2, <1>3 DEF Forget, OutcomeTypes, OutcomeInv

(* The commit writes the reason with the statistics it was found for.      *)
LEMMA CommitCloses ==
    ASSUME NEW w \in Workers, OutcomeInv(w), CommitAndClose(w)
    PROVE  OutcomeTypes' /\ Reasoned' /\ Loaded(w)'
<1> DEFINE q == request[w]
<1>i. Inv /\ OutcomeTypes /\ Reasoned /\ Loaded(w) BY DEF OutcomeInv, AloneInv
<1>1. q.step = "evaluate" /\ q.run \in Runs
  BY <1>i, EvaluationTypes DEF CommitAndClose, CommitEvaluations, Inv, Evaluating
<1>2. stats' = Recomputed(q) /\ Goes(w, Idle) /\ Forget(w)
  BY DEF CommitAndClose, CommitEvaluations
<1>3. CASE q.new = {}
  <2>1. stats' = stats /\ reason' = reason BY <1>2, <1>3 DEF Recomputed, CommitAndClose
  <2> QED BY <1>i, <1>2, <2>1, Forgets DEF OutcomeTypes, Reasoned
<1>4. CASE q.new # {}
  <2>1. stats' = [stats EXCEPT ![q.run] = Own(q.counted)] BY <1>2, <1>4 DEF Recomputed
  <2>2. loaded[w].reason = reason /\ (Needs(q.run, Own(q.counted)) => closing[w] # "none")
    BY <1>i, <1>1, <1>4 DEF Loaded
  <2>3. reason' = [reason EXCEPT ![q.run] = closing[w]]
    BY <1>i, <1>1, <1>4, <2>2 DEF CommitAndClose, OutcomeTypes
  <2>4. reason' \in [Runs -> Reasons] BY <1>i, <2>3 DEF OutcomeTypes
  <2>5. Reasoned'
    BY <1>i, <1>1, <2>1, <2>2, <2>3 DEF Reasoned, OutcomeTypes, Inv, TypeOK, Statistics, Needs,
                                       ScoresNothing
  <2> QED BY <1>2, <2>4, <2>5, Forgets
<1> QED BY <1>3, <1>4

(* finish_round gives every run it lists a reason where it needs one.      *)
LEMMA FinishCloses ==
    ASSUME NEW w \in Workers, OutcomeInv(w), NEW report \in Reports, NEW local \in Locals,
           CommitFinishWith(w, report, local)
    PROVE  OutcomeTypes' /\ Reasoned' /\ Loaded(w)'
<1> DEFINE q == request[w]
           gives(r) == FinishReason(w, r, report, local)
           new(r) == Finished(q, r, local)
<1>i. Inv /\ OutcomeTypes /\ Reasoned /\ Loaded(w) /\ Current(q)
  BY DEF OutcomeInv, AloneInv
<1>1. q.step = "finish" /\ q.had = stats /\ loaded[w].reason = reason
  BY <1>i DEF CommitFinishWith, CommitFinish, Current, Loaded
<1>2. ASSUME NEW r \in Runs
      PROVE  gives(r) \in Reasons /\ (Needs(r, new(r)) => gives(r) # "none")
  <2> DEFINE current == IF r \in DOMAIN report THEN report[r].reason ELSE loaded[w].reason[r]
  <2>1. r \in DOMAIN report => report[r] \in Said BY Scores
  <2>2. current \in Reasons BY <1>i, <1>1, <2>1 DEF OutcomeTypes, Said
  <2>3. gives(r) = Closed(current, r, new(r)) BY DEF FinishReason
  <2> HIDE DEF current, new, gives
  <2> QED BY <2>2, <2>3, ClosedIs
<1>3. reason' = [r \in Runs |-> IF r \in q.of THEN gives(r) ELSE reason[r]]
  BY <1>1 DEF CommitFinishWith
<1>4. reason' \in [Runs -> Reasons] BY <1>i, <1>2, <1>3 DEF OutcomeTypes
<1>5. \A r \in Runs : stats'[r] = IF r \in q.of THEN new(r) ELSE stats[r]
  <2>1. stats' = [r \in Runs |->
           IF r \in {u \in q.of : new(u) # q.had[u]} THEN new(r) ELSE stats[r]]
    BY DEF CommitFinishWith, CommitFinish
  <2> HIDE DEF new
  <2> QED BY <1>1, <2>1
<1> HIDE DEF new, gives
<1>6. ASSUME NEW r \in Runs, stats'[r] # Null, Needs(r, stats'[r])
      PROVE  reason'[r] # "none"
  <2>1. CASE r \in q.of
    <3>1. stats'[r] = new(r) /\ reason'[r] = gives(r) BY <1>3, <1>5, <2>1
    <3> QED BY <1>2, <1>6, <3>1
  <2>2. CASE r \notin q.of
    <3>1. stats'[r] = stats[r] /\ reason'[r] = reason[r] BY <1>3, <1>5, <2>2
    <3> QED BY <1>i, <1>6, <3>1 DEF Reasoned
  <2> QED BY <2>1, <2>2
<1>7. Reasoned' BY <1>6 DEF Reasoned, Needs, ScoresNothing
<1> QED BY <1>4, <1>7, Forgets DEF CommitFinishWith, CommitFinish

(* The runs are loaded with their columns, or the request fails.           *)
LEMMA LoadsAndFails ==
    ASSUME NEW w \in Workers, OutcomeInv(w), LoadForFinish(w) \/ FailAndForget(w)
    PROVE  OutcomeTypes' /\ Reasoned' /\ Loaded(w)'
<1>i. Inv /\ OutcomeTypes /\ Reasoned BY DEF OutcomeInv, AloneInv
<1>1. stats' = stats /\ reason' = reason
  BY DEF LoadForFinish, FinishRuns, FailAndForget, Fail, stored, columns
<1>2. Reasoned' BY <1>i, <1>1 DEF Reasoned
<1>3. ASSUME LoadForFinish(w) PROVE OutcomeTypes' /\ Loaded(w)'
  <2> DEFINE what == [step |-> "finish_runs", of |-> runs, had |-> stats]
  <2>1. what \in Requests BY <1>i DEF Requests, RunsLoaded, Inv, TypeOK
  <2>2. request'[w] = what
    BY <1>3, <1>i, <2>1, MovingOn DEF LoadForFinish, FinishRuns, Begin, Goes, Inv
  <2>3. loaded' = [loaded EXCEPT ![w] = [reason |-> reason, attempted |-> attempted]] /\ closing' = closing
    BY <1>3 DEF LoadForFinish
  <2>4. /\ loaded'[w].reason = reason /\ loaded'[w].attempted = attempted
        /\ loaded' = [v \in Workers |-> loaded'[v]]
    BY <1>i, <2>3 DEF OutcomeTypes
  <2>5. attempted' = attempted BY <1>3 DEF LoadForFinish, columns
  <2> QED BY <1>i, <1>1, <2>2, <2>3, <2>4, <2>5 DEF OutcomeTypes, Loaded
<1>4. ASSUME FailAndForget(w) PROVE OutcomeTypes' /\ Loaded(w)'
  BY <1>4, <1>i, <1>1, Forgets DEF FailAndForget, Fail, OutcomeTypes
<1> QED BY <1>2, <1>3, <1>4

(* Every step of the only request.                                         *)
LEMMA NextOutcome ==
    ASSUME NEW w, Workers = {w}, OutcomeInv(w), [OutcomeNext]_<<vars, outcome>>
    PROVE  OutcomeInv(w)'
<1>1. AloneInv(w)' BY OutcomeStep, NextAlone DEF OutcomeInv
<1>2. CASE UNCHANGED <<vars, outcome>>
  BY <1>1, <1>2 DEF OutcomeInv, OutcomeTypes, Reasoned, Loaded, vars, stored, outcome, columns
<1>3. CASE OutcomeNext
  BY <1>1, <1>3, PlainSteps, InsertCloses, CommitCloses, FinishCloses, LoadsAndFails
     DEF OutcomeNext, OutcomeInv
<1> QED BY <1>2, <1>3

(* At first no run has statistics.                                         *)
LEMMA InitOutcome ==
    ASSUME NEW w \in Workers, OutcomeInit
    PROVE  OutcomeInv(w)
<1>1. AloneInv(w) BY InitAlone DEF OutcomeInit
<1>2. "none" \in Reasons BY DEF Reasons
<1> QED BY <1>1, <1>2 DEF OutcomeInit, Init, Nothing, OutcomeInv, OutcomeTypes, Reasoned, Loaded, Idle

-----------------------------------------------------------------------------
(* What is proved of AgentRunIngestion holds of RunOutcome too.            *)
THEOREM OutcomeRefinesIngestion == OutcomeSpec => Spec
<1>1. OutcomeInit => Init BY DEF OutcomeInit
<1> QED BY <1>1, OutcomeStep, PTL DEF OutcomeSpec, Spec

(* The invariant of requests that come one after the other.                *)
THEOREM OutcomeInvariance ==
    ASSUME NEW CONSTANT w, Workers = {w}
    PROVE  OutcomeSpec => []OutcomeInv(w)
<1>1. OutcomeInit => OutcomeInv(w) BY InitOutcome
<1>2. OutcomeInv(w) /\ [OutcomeNext]_<<vars, outcome>> => OutcomeInv(w)' BY NextOutcome
<1> QED BY <1>1, <1>2, PTL DEF OutcomeSpec

(* A run with statistics that scores nothing has a reason, whatever was    *)
(* evaluated, finished, repeated or failed before.                         *)
THEOREM ZeroAlwaysHasReason ==
    ASSUME NEW CONSTANT w, Workers = {w}
    PROVE  OutcomeSpec => []ZeroHasReason
<1>1. OutcomeInv(w) => ZeroHasReason
  BY DEF OutcomeInv, AloneInv, Inv, TypeOK, Reasoned, ZeroHasReason, Needs
<1> QED BY <1>1, OutcomeInvariance, PTL

-----------------------------------------------------------------------------
(* What the pages of a run lean on: a run with an end has statistics, the  *)
(* tasks are one of the lists that were sent, and attempts that are stored *)
(* are not zero. Where no payload gave a number of tasks, the statistics   *)
(* are those of the evaluations, and a run for which attempts were stored  *)
(* attempted as many tasks as the round is configured with.                *)
Plain(r) == stats[r] # Null => ~Declares(stats[r])
Tried(r) ==
    /\ attempted[r] = Null \/ attempted[r] \in Nat \ {0}
    /\ attempted[r] = Null => Plain(r)
    /\ r \notin claimed => Plain(r) /\ (attempted[r] = Null \/ attempted[r] >= Expected)

Pages ==
    /\ ended \subseteq {r \in Runs : stats[r] # Null}
    /\ attempted = [r \in Runs |-> attempted[r]]
    /\ \A r \in Runs : Tried(r)
    /\ tasks \in TaskSets \cup {{}}

(* Statistics are never taken back.                                        *)
LEMMA StatisticsStay ==
    ASSUME Inv, [Next]_vars
    PROVE  \A r \in Runs : stats[r] # Null => stats'[r] # Null
<1>1. ASSUME NEW w \in Workers, CommitEvaluations(w)
      PROVE  \A r \in Runs : stats[r] # Null => stats'[r] # Null
  <2>1. request[w].run \in Runs /\ request[w].counted \subseteq Tasks
    BY <1>1, EvaluationTypes DEF Inv, CommitEvaluations
  <2>2. Own(request[w].counted) # Null BY <2>1, NumbersTypes, Payloads
  <2>3. stats' = stats \/ stats' = [stats EXCEPT ![request[w].run] = Own(request[w].counted)]
    BY <1>1 DEF CommitEvaluations, Recomputed
  <2> QED BY <2>1, <2>2, <2>3 DEF Inv, TypeOK, Statistics
<1>2. ASSUME NEW w \in Workers, NEW local \in Locals, CommitFinish(w, local)
      PROVE  \A r \in Runs : stats[r] # Null => stats'[r] # Null
  <2>1. \A r \in Runs : stats'[r] \in {stats[r], Finished(request[w], r, local)}
    BY <1>2 DEF CommitFinish
  <2>2. \A r \in Runs : Finished(request[w], r, local) # Null BY NumbersTypes, Payloads
  <2> QED BY <2>1, <2>2
<1>3. CASE stats' = stats BY <1>3
<1> QED BY <1>1, <1>2, <1>3
     DEF Next, vars, stored, SetTasks, WriteTasks, StartRun, AddEvaluation, AddEvaluationsBatch,
         WriteRun, InsertEvaluation, ReleaseFails, SkipEvaluation, FinishRuns,
         FinishEvaluations, Fail

(* A run gets an end with its statistics.                                  *)
LEMMA EndsAreCounted ==
    ASSUME Inv, ended \subseteq {r \in Runs : stats[r] # Null},
           [OutcomeNext]_<<vars, outcome>>
    PROVE  ended' \subseteq {r \in Runs : stats'[r] # Null}
<1>1. \A r \in Runs : stats[r] # Null => stats'[r] # Null BY OutcomeStep, StatisticsStay
<1>2. ASSUME NEW w \in Workers, CommitAndClose(w), request[w].new # {}
      PROVE  ended' \subseteq {r \in Runs : stats'[r] # Null}
  <2>1. request[w].run \in Runs /\ request[w].counted \subseteq Tasks
    BY <1>2, EvaluationTypes DEF Inv, CommitEvaluations, CommitAndClose
  <2>2. Own(request[w].counted) # Null BY <2>1, NumbersTypes, Payloads
  <2>3. stats' = [stats EXCEPT ![request[w].run] = Own(request[w].counted)]
    BY <1>2 DEF CommitAndClose, CommitEvaluations, Recomputed
  <2>4. ended' = ended \cup {request[w].run} BY <1>2 DEF CommitAndClose
  <2>5. stats'[request[w].run] # Null BY <2>1, <2>2, <2>3 DEF Inv, TypeOK, Statistics
  <2> QED BY <1>1, <2>1, <2>4, <2>5
<1>3. CASE ended' = ended BY <1>1, <1>3
<1>4. ASSUME NEW w \in Workers, CommitAndClose(w), request[w].new = {} PROVE ended' = ended
  BY <1>4 DEF CommitAndClose
<1> QED BY <1>2, <1>3, <1>4
     DEF OutcomeNext, outcome, columns, InsertAndClose, LoadForFinish, CommitFinishWith, FailAndForget

(* As many tasks are counted as the round is configured with, or more.     *)
LEMMA TotalIsEnough ==
    ASSUME NEW seen \in SUBSET Tasks
    PROVE  TotalOf(seen) \in Nat /\ TotalOf(seen) >= Expected /\ Cardinality(seen) \in Nat
<1> DEFINE n == Cardinality(seen)
<1>1. IsFiniteSet(seen) BY TasksAreFinite, FS_Subset
<1>2. n \in Nat BY <1>1, FS_CardinalityType
<1>3. Expected \in Nat BY Scores
<1>4. TotalOf(seen) = IF n > Expected THEN n ELSE Expected BY DEF TotalOf
<1> HIDE DEF n
<1>5. TotalOf(seen) \in Nat /\ TotalOf(seen) >= Expected BY <1>2, <1>3, <1>4
<1> QED BY <1>2, <1>5 DEF n

(* What statistics say.                                                    *)
LEMMA NumbersOf ==
    ASSUME NEW r \in Runs, NEW s \in Numbers
    PROVE  /\ TotalIn(s) \in Nat \ {0} /\ SuccessesIn(r, s) \in Nat
           /\ ~Declares(s) => /\ TotalIn(s) = TotalOf(s.seen) /\ TotalIn(s) >= Expected
                              /\ SuccessesIn(r, s) = SuccessesOf(r, s.seen)
<1>1. s.seen \in SUBSET Tasks /\ s.says \in {Null} \cup Declared BY DEF Numbers
<1>2. TotalOf(s.seen) \in Nat /\ TotalOf(s.seen) >= Expected BY <1>1, TotalIsEnough
<1>3. Expected \in Nat \ {0} BY Scores
<1>4. SuccessesOf(r, s.seen) \in Nat
  <2> DEFINE passed == {t \in s.seen : Passed(<<r, t>>)}
  <2>1. passed \subseteq Tasks BY <1>1
  <2>2. Cardinality(passed) \in Nat BY <2>1, TasksAreFinite, FS_Subset, FS_CardinalityType
  <2> QED BY <2>2 DEF SuccessesOf
<1>5. CASE ~Declares(s) BY <1>2, <1>3, <1>4, <1>5 DEF TotalIn, SuccessesIn
<1>6. CASE Declares(s)
  <2>1. s.says \in Declarations BY <1>1, <1>6, Scores DEF Declares
  <2>2. s.says.received \in Nat /\ s.says.success \in Nat /\ s.says.received > 0
    BY <1>6, <2>1 DEF Declares, Declarations
  <2> QED BY <1>6, <2>2 DEF TotalIn, SuccessesIn
<1> QED BY <1>5, <1>6

(* finish_round stores attempts for the runs it lists, and says which of   *)
(* them are the payload's.                                                 *)
LEMMA FinishTries ==
    ASSUME NEW w \in Workers, OutcomeInv(w), Pages, NEW report \in Reports,
           NEW local \in Locals, CommitFinishWith(w, report, local)
    PROVE  /\ attempted' = [r \in Runs |-> attempted'[r]]
           /\ \A r \in Runs : Tried(r)'
<1> DEFINE q == request[w]
           new(r) == Finished(q, r, local)
           said(r) == SaidAttempted(w, r, report, local)
           gives(r) == FinishAttempted(w, r, report, local)
           speaks(r) == r \in DOMAIN report \/ Miner[r] \in DOMAIN local
<1>1. q.step = "finish" /\ q.had = stats /\ loaded[w].attempted = attempted
  BY DEF OutcomeInv, AloneInv, CommitFinishWith, CommitFinish, Current, Loaded
<1>2. /\ attempted' = [r \in Runs |-> IF r \in q.of THEN gives(r) ELSE attempted[r]]
      /\ claimed' = claimed \cup {r \in q.of : Claims(w, r, report, local)}
  BY <1>1 DEF CommitFinishWith
<1>3. \A r \in Runs : stats'[r] = IF r \in q.of THEN new(r) ELSE stats[r]
  <2>1. stats' = [r \in Runs |->
           IF r \in {u \in q.of : new(u) # q.had[u]} THEN new(r) ELSE stats[r]]
    BY DEF CommitFinishWith, CommitFinish
  <2> HIDE DEF new
  <2> QED BY <1>1, <2>1
<1>4. ASSUME NEW r \in Runs
      PROVE  /\ new(r) \in Numbers /\ new(r) # Null
             /\ gives(r) = IF said(r) \in {Null, 0} THEN TotalIn(new(r)) ELSE said(r)
             /\ Claims(w, r, report, local)
                  <=> Declares(new(r)) \/ (speaks(r) /\ said(r) \notin {Null, 0})
             /\ ~speaks(r) => said(r) = attempted[r]
             /\ speaks(r) => said(r) \in Counts
  <2>1. new(r) \in Numbers BY NumbersTypes
  <2>2. speaks(r) => said(r) \in Counts
    <3>1. r \in DOMAIN report => report[r].attempted \in Counts BY Scores DEF Said
    <3>2. Miner[r] \in DOMAIN local => local[Miner[r]].attempted \in Counts
      <4>1. Miner[r] \in DOMAIN local => local[Miner[r]] \in Declarations BY Payloads, Scores
      <4> QED BY <4>1 DEF Declarations
    <3> QED BY <3>1, <3>2 DEF SaidAttempted
  <2>3. ~speaks(r) => said(r) = attempted[r] BY <1>1 DEF SaidAttempted
  <2> QED BY <2>1, <2>2, <2>3, Payloads DEF FinishAttempted, Claims
<1> HIDE DEF new, said, gives, speaks
<1>5. ASSUME NEW r \in Runs
      PROVE  Tried(r)'
  <2>0. Tried(r) BY DEF Pages
  <2>1. CASE r \notin q.of
    <3>1. /\ attempted'[r] = attempted[r] /\ stats'[r] = stats[r]
          /\ r \in claimed' <=> r \in claimed
      BY <1>2, <1>3, <2>1
    <3> QED BY <2>0, <3>1 DEF Tried, Plain, Declares
  <2>2. CASE r \in q.of
    <3>1. attempted'[r] = gives(r) /\ stats'[r] = new(r) BY <1>2, <1>3, <2>2
    <3>2. ASSUME r \notin claimed'
          PROVE  r \notin claimed /\ ~Declares(new(r)) /\ (speaks(r) => said(r) \in {Null, 0})
      BY <1>2, <1>4, <2>2, <3>2
    <3>3. /\ TotalIn(new(r)) \in Nat \ {0}
          /\ ~Declares(new(r)) => TotalIn(new(r)) >= Expected
      BY <1>4, NumbersOf
    <3>4. said(r) = Null \/ said(r) \in Nat
      BY <1>4, <2>0 DEF Counts, Tried
    <3>5. gives(r) \in Nat \ {0} BY <1>4, <3>3, <3>4
    <3>6. ASSUME r \notin claimed'
          PROVE  gives(r) = Null \/ gives(r) >= Expected
      <4>1. CASE said(r) \in {Null, 0} BY <1>4, <3>2, <3>3, <3>6, <4>1
      <4>2. CASE said(r) \notin {Null, 0}
        <5>1. said(r) = attempted[r] /\ r \notin claimed BY <1>4, <3>2, <3>6, <4>2
        <5>2. gives(r) = attempted[r] BY <1>4, <4>2, <5>1
        <5> QED BY <2>0, <5>1, <5>2 DEF Tried
      <4> QED BY <4>1, <4>2
    <3>7. ASSUME r \notin claimed'
          PROVE  ~Declares(stats'[r])
      BY <3>1, <3>2, <3>7
    <3>8. attempted'[r] # Null BY <3>1, <3>5, Scores
    <3> QED BY <3>1, <3>5, <3>6, <3>7, <3>8 DEF Tried, Plain, Declares
  <2> QED BY <2>1, <2>2
<1> QED BY <1>2, <1>5

(* An evaluation takes back what a payload said of its run.                *)
LEMMA CommitTries ==
    ASSUME NEW w \in Workers, Inv, Pages, CommitAndClose(w)
    PROVE  \A r \in Runs : Tried(r)'
<1> DEFINE q == request[w]
<1>1. q.run \in Runs /\ q.counted \subseteq Tasks
  BY EvaluationTypes DEF Inv, CommitEvaluations, CommitAndClose
<1>2. attempted' = attempted /\ claimed' = claimed BY DEF CommitAndClose
<1>3. ~Declares(Own(q.counted)) BY DEF Own, Declares
<1>4. stats' = stats \/ stats' = [stats EXCEPT ![q.run] = Own(q.counted)]
  BY DEF CommitAndClose, CommitEvaluations, Recomputed
<1>5. \A r \in Runs : stats'[r] \in {stats[r], Own(q.counted)}
  BY <1>1, <1>4 DEF Inv, TypeOK, Statistics
<1> SUFFICES ASSUME NEW r \in Runs PROVE Tried(r)' OBVIOUS
<1>6. Tried(r) BY DEF Pages
<1>7. CASE stats'[r] = stats[r] BY <1>2, <1>6, <1>7 DEF Tried, Plain, Declares
<1>8. CASE stats'[r] = Own(q.counted)
  <2>1. ~Declares(stats'[r]) BY <1>3, <1>8
  <2> QED BY <1>2, <1>6, <2>1 DEF Tried, Plain, Declares
<1> QED BY <1>5, <1>7, <1>8

(* Every step keeps what is known of attempts.                             *)
LEMMA TriesStay ==
    ASSUME NEW w, Workers = {w}, OutcomeInv(w), Pages, [OutcomeNext]_<<vars, outcome>>
    PROVE  /\ attempted' = [r \in Runs |-> attempted'[r]]
           /\ \A r \in Runs : Tried(r)'
<1>1. CASE CommitAndClose(w)
  <2>1. attempted' = attempted BY <1>1 DEF CommitAndClose
  <2> QED BY <1>1, <2>1, CommitTries DEF OutcomeInv, AloneInv, Pages
<1>2. ASSUME NEW report \in Reports, NEW local \in Locals, CommitFinishWith(w, report, local)
      PROVE  /\ attempted' = [r \in Runs |-> attempted'[r]]
             /\ \A r \in Runs : Tried(r)'
  BY <1>2, FinishTries
<1>3. CASE UNCHANGED <<attempted, claimed, stats>>
  BY <1>3 DEF Pages, Tried, Plain, Declares
<1> QED BY <1>1, <1>2, <1>3
     DEF OutcomeNext, outcome, columns, vars, stored, InsertAndClose, LoadForFinish,
         FailAndForget, SetTasks, WriteTasks, StartRun, AddEvaluation, AddEvaluationsBatch,
         WriteRun, InsertEvaluation, ReleaseFails, SkipEvaluation, FinishRuns,
         FinishEvaluations, Fail

(* A list replaces the one before it while nothing was made of that one.   *)
LEMMA OneListAtATime ==
    ASSUME NEW w, Workers = {w}, AloneInv(w), tasks \in TaskSets \cup {{}}, [Next]_vars
    PROVE  tasks' \in TaskSets \cup {{}}
<1>1. ASSUME WriteTasks(w) PROVE tasks' \in TaskSets \cup {{}}
  <2>1. request[w] \in TaskRequests
    BY <1>1, RequestShapes DEF WriteTasks, AloneInv, Inv, TypeOK
  <2>2. request[w].new \in TaskSets BY <2>1 DEF TaskRequests
  <2>3. request[w].replaces <=> tasks # {} BY <1>1 DEF AloneInv, Current, WriteTasks
  <2>4. tasks' = request[w].new BY <1>1, <2>3 DEF WriteTasks
  <2> QED BY <2>2, <2>4
<1>2. CASE tasks' = tasks BY <1>2
<1> QED BY <1>1, <1>2
     DEF Next, vars, stored, SetTasks, StartRun, AddEvaluation, AddEvaluationsBatch,
         WriteRun, InsertEvaluation, ReleaseFails, SkipEvaluation, CommitEvaluations,
         FinishRuns, FinishEvaluations, CommitFinish, Fail

(* The invariant of the pages, along every run of one worker.              *)
LEMMA PagesInvariance ==
    ASSUME NEW CONSTANT w, Workers = {w}
    PROVE  OutcomeSpec => []Pages
<1>1. OutcomeInit => Pages BY DEF OutcomeInit, Init, Nothing, Pages, Tried, Plain
<1>2. OutcomeInv(w) /\ Pages /\ [OutcomeNext]_<<vars, outcome>> => Pages'
  BY EndsAreCounted, TriesStay, OneListAtATime, OutcomeStep DEF Pages, OutcomeInv, AloneInv
<1> QED BY <1>1, <1>2, OutcomeInvariance, PTL DEF OutcomeSpec

-----------------------------------------------------------------------------
(* The numbers of a run.                                                   *)

(* When the worker is idle the statistics of a run count its evaluations,  *)
(* unless a payload gave them.                                             *)
LEMMA QuietNumbers ==
    ASSUME OutcomeTypes, TypeOK, Exact, NEW r \in Runs
    PROVE  LET seen == Evaluated(evals, r) IN
           /\ seen \subseteq Tasks /\ Cardinality(seen) \in Nat
           /\ Successes(r) \in Nat /\ Total(r) \in Nat
           /\ Plain(r) => Successes(r) = SuccessesOf(r, seen)
           /\ stats[r] # Null => Total(r) > 0
           /\ stats[r] # Null /\ Plain(r) => Total(r) >= Expected
           /\ stats[r] = Null => Total(r) = 0 /\ Successes(r) = 0 /\ seen = {}
<1> DEFINE seen == Evaluated(evals, r)
           passed == {t \in seen : Passed(<<r, t>>)}
<1>1. seen \subseteq Tasks BY EvaluatedTypes
<1>2. Cardinality(seen) \in Nat BY <1>1, TotalIsEnough
<1>3. CASE stats[r] = Null
  <2>1. seen = {} BY <1>3 DEF Exact
  <2>2. Total(r) = 0 /\ Successes(r) = 0 BY <1>3 DEF Total, Successes
  <2>3. SuccessesOf(r, seen) = 0
    <3>1. passed = {} BY <2>1
    <3>2. SuccessesOf(r, seen) = Cardinality(passed) BY DEF SuccessesOf
    <3> HIDE DEF passed, seen
    <3> QED BY <3>1, <3>2, FS_EmptySet
  <2> HIDE DEF seen
  <2> QED BY <1>1, <1>2, <1>3, <2>1, <2>2, <2>3 DEF seen
<1>4. CASE stats[r] # Null
  <2>1. stats[r].seen = seen /\ stats[r] \in Numbers BY <1>4 DEF Exact, TypeOK, Statistics
  <2>2. Total(r) = TotalIn(stats[r]) /\ Successes(r) = SuccessesIn(r, stats[r])
    BY <1>4 DEF Total, Successes
  <2>3. /\ TotalIn(stats[r]) \in Nat \ {0} /\ SuccessesIn(r, stats[r]) \in Nat
        /\ ~Declares(stats[r]) => /\ TotalIn(stats[r]) >= Expected
                                  /\ SuccessesIn(r, stats[r]) = SuccessesOf(r, seen)
    BY <2>1, NumbersOf
  <2>4. Plain(r) <=> ~Declares(stats[r]) BY <1>4 DEF Plain
  <2> HIDE DEF seen, passed
  <2> QED BY <1>1, <1>2, <1>4, <2>2, <2>3, <2>4 DEF seen
<1> QED BY <1>3, <1>4

(* The lists, the page and the feed of a run tell one outcome.             *)
LEMMA StatusesAgreeWhenAlone ==
    ASSUME NEW w, Workers = {w}, OutcomeInv(w), Pages
    PROVE  StatusesAgree
<1> SUFFICES ASSUME NEW r \in runs \cap ended, reason[r] = "none" \/ Successes(r) = 0
             PROVE  LET status == IF ListStatus(r) = "timeout" THEN "failed" ELSE ListStatus(r) IN
                    /\ PageStatus(r) = status
                    /\ FeedOf(r) = {"run_started",
                                    IF status = "failed" THEN "run_failed" ELSE "run_completed"}
  BY DEF StatusesAgree
<1>1. r \in Runs /\ r \in ended /\ stats[r] # Null
  BY DEF OutcomeInv, AloneInv, Inv, TypeOK, Pages
<1>2. TypeOK /\ OutcomeTypes /\ Exact /\ Reasoned BY DEF OutcomeInv, AloneInv, Inv
<1>4. Total(r) > 0 BY <1>1, <1>2, QuietNumbers
<1>5. Successes(r) = 0 => reason[r] # "none"
  BY <1>1, <1>2 DEF Reasoned, Needs, ScoresNothing, Successes
<1>6. CASE Successes(r) = 0
  <2>1. ListStatus(r) \in {"timeout", "failed"} BY <1>1, <1>4, <1>5, <1>6 DEF ListStatus
  <2>2. PageStatus(r) = "failed" BY <1>1, <1>4, <1>6 DEF PageStatus
  <2>3. FeedOf(r) = {"run_started", "run_failed"} BY <1>1, <1>4, <1>6 DEF FeedOf
  <2> QED BY <2>1, <2>2, <2>3
<1>7. CASE Successes(r) # 0
  <2>1. reason[r] = "none" BY <1>7
  <2>2. ListStatus(r) = "completed" BY <1>1, <1>7, <2>1 DEF ListStatus
  <2>3. PageStatus(r) = "completed" BY <1>1, <1>7, <2>1 DEF PageStatus
  <2>4. FeedOf(r) = {"run_started", "run_completed"} BY <1>1, <1>7, <2>1 DEF FeedOf
  <2> QED BY <2>2, <2>3, <2>4
<1> QED BY <1>6, <1>7

-----------------------------------------------------------------------------
(* The tasks a page lists.                                                 *)

ItemOf(r, t) ==
    [task |-> t, site |-> Site[t], status |-> IF Passed(<<r, t>>) THEN "completed" ELSE "failed"]

(* One item for each task the run was evaluated on.                        *)
LEMMA ItemsAre == \A r : PageTasks(r) = {ItemOf(r, t) : t \in Evaluated(evals, r)}
<1> SUFFICES ASSUME NEW r
             PROVE  PageTasks(r) = {ItemOf(r, t) : t \in Evaluated(evals, r)}
  OBVIOUS
<1> DEFINE item(e) == [task |-> e[2], site |-> Site[e[2]],
                       status |-> IF Passed(e) THEN "completed" ELSE "failed"]
<1>1. PageTasks(r) = {item(e) : e \in EntriesOf(r)} BY DEF PageTasks
<1>2. \A t : item(<<r, t>>) = ItemOf(r, t) BY DEF ItemOf
<1> HIDE DEF item
<1> QED BY <1>1, <1>2 DEF EntriesOf

(* Some of the items are as many as their tasks.                           *)
LEMMA ItemsAreCounted ==
    ASSUME NEW r, NEW some \in SUBSET Evaluated(evals, r)
    PROVE  LET items == {ItemOf(r, t) : t \in some} IN
           /\ IsFiniteSet(some) /\ IsFiniteSet(items) /\ Cardinality(items) = Cardinality(some)
<1> DEFINE f == [t \in some |-> ItemOf(r, t)]
<1>1. some \subseteq Tasks BY EvaluatedTypes
<1>2. IsFiniteSet(some) BY <1>1, TasksAreFinite, FS_Subset
<1>3. \A t \in some : f[t].task = t BY DEF ItemOf
<1>4. {ItemOf(r, t) : t \in some} = {f[t] : t \in some} OBVIOUS
<1>5. f = [t \in some |-> f[t]] OBVIOUS
<1> HIDE DEF f
<1>6. \A t, u \in some : f[t] = f[u] => t = u BY <1>3
<1> QED BY <1>2, <1>4, <1>5, <1>6, ValuesAreCounted

(* The items of a status are those of the tasks that passed, or did not.   *)
LEMMA ItemsByStatus ==
    ASSUME NEW r
    PROVE  LET seen == Evaluated(evals, r)
               listed(status) == {i \in PageTasks(r) : i.status = status}
           IN  /\ listed("completed") = {ItemOf(r, t) : t \in {t \in seen : Passed(<<r, t>>)}}
               /\ listed("failed") = {ItemOf(r, t) : t \in {t \in seen : ~Passed(<<r, t>>)}}
<1>1. \A t : ItemOf(r, t).status = (IF Passed(<<r, t>>) THEN "completed" ELSE "failed")
  BY DEF ItemOf
<1> QED BY <1>1, ItemsAre

(* The sites of some tasks are finitely many.                              *)
LEMMA SitesAreFinite ==
    ASSUME NEW seen \in SUBSET Tasks
    PROVE  IsFiniteSet(SitesOf(seen))
<1>1. IsFiniteSet(seen) BY TasksAreFinite, FS_Subset
<1> DEFINE f == [t \in seen |-> Site[t]]
<1>2. f = [t \in seen |-> f[t]] /\ {f[t] : t \in seen} = SitesOf(seen) BY DEF SitesOf
<1> HIDE DEF f
<1> QED BY <1>1, <1>2, ValuesAreCounted

(* Items are spread over the sites of their tasks: counted site by site    *)
(* they are as many as together.                                           *)
LEMMA ItemsBySite ==
    ASSUME NEW r, NEW some \in SUBSET PageTasks(r), NEW count,
           \A site \in SitesOf(Evaluated(evals, r)) :
               count[site] = Cardinality({i \in some : i.site = site})
    PROVE  SumOver(count, SitesOf(Evaluated(evals, r))) = Cardinality(some)
<1> DEFINE seen == Evaluated(evals, r)
           S == SitesOf(seen)
           part == [site \in S |-> {i \in some : i.site = site}]
<1>1. IsFiniteSet(S) BY EvaluatedTypes, SitesAreFinite
<1>2. IsFiniteSet(some)
  <2>1. IsFiniteSet(PageTasks(r)) BY ItemsAre, ItemsAreCounted
  <2> QED BY <2>1, FS_Subset
<1>3. \A site \in S : part[site] \in SUBSET some OBVIOUS
<1>4. \A site \in S : IsFiniteSet(part[site]) BY <1>2, <1>3, FS_Subset
<1>5. \A site \in S : count[site] = Cardinality(part[site]) OBVIOUS
<1>6. \A x, y \in S : x # y => part[x] \cap part[y] = {} OBVIOUS
<1>7. \A i \in some : i.site \in S
  <2> SUFFICES ASSUME NEW i \in some PROVE i.site \in S OBVIOUS
  <2>1. PICK t \in seen : i = ItemOf(r, t) BY ItemsAre
  <2>2. i.site = Site[t] BY <2>1 DEF ItemOf
  <2> QED BY <2>2 DEF SitesOf
<1>8. UNION {part[site] : site \in S} = some BY <1>7
<1> HIDE DEF part, S
<1>9. SumOver(count, S) = Cardinality(UNION {part[site] : site \in S})
  BY <1>1, <1>4, <1>5, <1>6, PartsAddUp
<1> QED BY <1>8, <1>9 DEF S

(* A run that scores nothing is not compared as better than one that does. *)
LEMMA NoWorseIsBest ==
    ASSUME OutcomeTypes, TypeOK, Exact, NEW q \in Runs, NEW r \in runs,
           CompareRuns(<<q, r>>).bestSuccessRate = q
    PROVE  Successes(q) > 0 \/ Successes(r) = 0
<1> DEFINE chosen == <<q, r>>
           known == {n \in DOMAIN chosen : chosen[n] \in runs}
           size(x) == IF Total(x) > 0 THEN Total(x) ELSE 1
           hits(x) == IF Total(x) > 0 THEN Successes(x) ELSE 0
           beaten(n) == \E k \in known : hits(chosen[k]) * size(chosen[n])
                                           > hits(chosen[n]) * size(chosen[k])
           first == CHOOSE n \in known : ~beaten(n) /\ \A k \in known : k < n => beaten(k)
<1>1. CompareRuns(chosen).bestSuccessRate = IF known = {} THEN Null ELSE chosen[first]
  BY DEF CompareRuns
<1> SUFFICES ASSUME ~(Successes(q) > 0), Successes(r) # 0 PROVE FALSE OBVIOUS
<1>2. r \in Runs BY DEF TypeOK
<1>3. /\ Successes(q) = 0 /\ Total(q) \in Nat
      /\ Successes(r) \in Nat \ {0} /\ Total(r) \in Nat
      /\ Total(r) > 0
  <2>1. /\ Successes(q) \in Nat /\ Total(q) \in Nat
        /\ Successes(r) \in Nat /\ Total(r) \in Nat
        /\ stats[r] # Null => Total(r) > 0
        /\ stats[r] = Null => Successes(r) = 0
    BY <1>2, QuietNumbers
  <2> QED BY <2>1
<1>4. hits(q) = 0 /\ hits(r) \in Nat \ {0} /\ size(q) \in Nat \ {0} /\ size(r) \in Nat \ {0}
  BY <1>3
<1>5. /\ DOMAIN chosen = {1, 2} /\ chosen[1] = q /\ chosen[2] = r
      /\ 2 \in known /\ known \subseteq {1, 2}
  OBVIOUS
<1>6. \A n \in known : chosen[n] \in {q, r} BY <1>5
<1> HIDE DEF size, hits, chosen, known
<1>7. /\ hits(r) * size(q) \in Int /\ hits(r) * size(q) > 0
      /\ hits(q) * size(r) = 0 /\ hits(q) * size(q) = 0
  <2> DEFINE a == hits(r)
             b == size(q)
             c == size(r)
  <2>1. a \in Nat \ {0} /\ b \in Nat \ {0} /\ c \in Nat \ {0} BY <1>4
  <2> HIDE DEF a, b, c
  <2>2. a * b \in Int /\ a * b > 0 /\ 0 * c = 0 /\ 0 * b = 0 BY <2>1
  <2> QED BY <1>4, <2>2 DEF a, b, c
<1>8. 1 \in known => beaten(1)
  <2>1. hits(r) * size(q) > hits(q) * size(r) BY <1>7
  <2> QED BY <1>5, <2>1
<1>9. ~beaten(2)
  <2>1. \A n \in known : ~(hits(chosen[n]) * size(r) > hits(r) * size(chosen[n]))
    <3> SUFFICES ASSUME NEW n \in known
                 PROVE  ~(hits(chosen[n]) * size(r) > hits(r) * size(chosen[n]))
      OBVIOUS
    <3>1. CASE chosen[n] = q
      <4>1. ~(hits(q) * size(r) > hits(r) * size(q)) BY <1>7
      <4> QED BY <3>1, <4>1
    <3>2. CASE chosen[n] = r
      <4>1. hits(r) * size(r) \in Int BY <1>4
      <4>2. ~(hits(r) * size(r) > hits(r) * size(r)) BY <4>1
      <4> QED BY <3>2, <4>2
    <3> QED BY <1>6, <3>1, <3>2
  <2> QED BY <1>5, <2>1
<1> HIDE DEF beaten
<1>10. \E n \in known : ~beaten(n) /\ \A k \in known : k < n => beaten(k)
  BY <1>5, <1>8, <1>9
<1>11. first \in known /\ ~beaten(first) BY <1>10
<1>12. first = 2 BY <1>5, <1>8, <1>11
<1>13. chosen[first] = r BY <1>5, <1>12
<1>14. q = r BY <1>1, <1>5, <1>13 DEF chosen
<1> QED BY <1>3, <1>14

(* A run of the only worker was evaluated on no more tasks than it has     *)
(* attempted.                                                              *)
LEMMA FewTasksEvaluated ==
    ASSUME TypeOK, Pages, \A new \in TaskSets : Cardinality(new) <= Expected, NEW r \in runs
    PROVE  Cardinality(Evaluated(evals, r)) <= Expected
<1>1. tasks \subseteq Tasks /\ evals \subseteq runs \X tasks BY DEF TypeOK
<1>2. Evaluated(evals, r) \in SUBSET tasks BY <1>1 DEF Evaluated
<1>3. IsFiniteSet(tasks) BY <1>1, TasksAreFinite, FS_Subset
<1>4. /\ Cardinality(Evaluated(evals, r)) <= Cardinality(tasks)
      /\ Cardinality(tasks) \in Nat /\ Cardinality(Evaluated(evals, r)) \in Nat
  <2>1. IsFiniteSet(Evaluated(evals, r)) BY <1>2, <1>3, FS_Subset
  <2> QED BY <1>2, <1>3, <2>1, FS_Subset, FS_CardinalityType
<1>5. Expected \in Nat BY Scores
<1>6. Cardinality(tasks) <= Expected
  <2>1. CASE tasks = {}
    <3>1. Cardinality(tasks) = 0 BY <2>1, FS_EmptySet
    <3> QED BY <1>5, <3>1
  <2>2. CASE tasks \in TaskSets BY <2>2
  <2> QED BY <2>1, <2>2 DEF Pages
<1> QED BY <1>4, <1>5, <1>6

(* The numbers of the page of a run add up.                                *)
LEMMA RunPageAddsUpWhenAlone ==
    ASSUME NEW w, Workers = {w}, OutcomeInv(w), Pages,
           \A new \in TaskSets : Cardinality(new) <= Expected
    PROVE  RunPageAddsUp
<1>i. TypeOK /\ OutcomeTypes /\ Exact BY DEF OutcomeInv, AloneInv, Inv
<1> SUFFICES ASSUME NEW r \in runs
             PROVE  LET shown == PageStatistics(r)
                        bySite == PerformanceByWebsite(r)
                        listed(status) == Cardinality({i \in PageTasks(r) : i.status = status})
                        tasksOf == [site \in DOMAIN bySite |-> bySite[site].tasks]
                        successfulOf == [site \in DOMAIN bySite |-> bySite[site].successful]
                    IN
                    /\ r \notin claimed =>
                           /\ shown.successful = listed("completed")
                           /\ shown.failed >= listed("failed")
                           /\ shown.attempted = shown.successful + shown.failed
                    /\ listed("completed") = SumOver(successfulOf, DOMAIN bySite)
                    /\ Cardinality(PageTasks(r)) = SumOver(tasksOf, DOMAIN bySite)
                    /\ {what[2] : what \in PageTimeline(r)} = {Null} \cup Evaluated(evals, r)
                    /\ \A q \in Runs :
                           LET best == CompareRuns(<<q, r>>).bestSuccessRate IN
                           best = q => Successes(q) > 0 \/ Successes(r) = 0
                    /\ \A row \in AgentRuns(Miner[r]) :
                           row.item.run = r => /\ row.websites = shown.websites
                                               /\ row.item.successful = shown.successful
  BY DEF RunPageAddsUp
<1> DEFINE seen == Evaluated(evals, r)
           passed == {t \in seen : Passed(<<r, t>>)}
           failed == {t \in seen : ~Passed(<<r, t>>)}
           shown == PageStatistics(r)
           bySite == PerformanceByWebsite(r)
           completedItems == {i \in PageTasks(r) : i.status = "completed"}
           failedItems == {i \in PageTasks(r) : i.status = "failed"}
           tasksOf == [site \in DOMAIN bySite |-> bySite[site].tasks]
           successfulOf == [site \in DOMAIN bySite |-> bySite[site].successful]
<1>1. r \in Runs BY <1>i DEF TypeOK
<1>2. /\ r \notin claimed => Successes(r) = Cardinality(passed)
      /\ Cardinality(seen) \in Nat /\ Total(r) \in Nat
  BY <1>i, <1>1, QuietNumbers DEF SuccessesOf, Pages, Tried
<1>3. /\ IsFiniteSet(passed) /\ Cardinality(completedItems) = Cardinality(passed)
      /\ IsFiniteSet(failed) /\ Cardinality(failedItems) = Cardinality(failed)
      /\ Cardinality(PageTasks(r)) = Cardinality(seen)
  <2>1. passed \in SUBSET seen /\ failed \in SUBSET seen /\ seen \in SUBSET seen OBVIOUS
  <2>2. /\ completedItems = {ItemOf(r, t) : t \in passed}
        /\ failedItems = {ItemOf(r, t) : t \in failed}
    BY ItemsByStatus
  <2>3. PageTasks(r) = {ItemOf(r, t) : t \in seen} BY ItemsAre
  <2> HIDE DEF passed, failed, completedItems, failedItems
  <2>4. IsFiniteSet(passed) /\ Cardinality({ItemOf(r, t) : t \in passed}) = Cardinality(passed)
    BY <2>1, ItemsAreCounted
  <2>5. IsFiniteSet(failed) /\ Cardinality({ItemOf(r, t) : t \in failed}) = Cardinality(failed)
    BY <2>1, ItemsAreCounted
  <2>6. Cardinality({ItemOf(r, t) : t \in seen}) = Cardinality(seen)
    BY <2>1, ItemsAreCounted
  <2> QED BY <2>2, <2>3, <2>4, <2>5, <2>6
<1>4. Cardinality(seen) = Cardinality(passed) + Cardinality(failed)
  <2>1. seen = passed \cup failed /\ passed \cap failed = {} OBVIOUS
  <2> HIDE DEF seen, passed, failed
  <2>2. Cardinality(seen) = Cardinality(passed) + Cardinality(failed) - Cardinality({})
    BY <1>3, <2>1, FS_Union
  <2>3. Cardinality({}) = 0 /\ Cardinality(passed) \in Nat /\ Cardinality(failed) \in Nat
    BY <1>3, FS_EmptySet, FS_CardinalityType
  <2> QED BY <2>2, <2>3
<1>5. Cardinality(passed) \in Nat /\ Cardinality(failed) \in Nat
  BY <1>3, FS_CardinalityType
<1>6. /\ DOMAIN bySite = SitesOf(seen)
      /\ \A site \in SitesOf(seen) :
           /\ tasksOf[site] = Cardinality({i \in PageTasks(r) : i.site = site})
           /\ successfulOf[site] = Cardinality({i \in completedItems : i.site = site})
  <2>1. /\ DOMAIN bySite = SitesOf(seen)
        /\ \A site \in SitesOf(seen) :
             /\ bySite[site].tasks = Cardinality({i \in PageTasks(r) : i.site = site})
             /\ bySite[site].successful
                  = Cardinality({i \in {i \in PageTasks(r) : i.site = site} : i.status = "completed"})
    BY DEF PerformanceByWebsite
  <2>2. \A site : {i \in {i \in PageTasks(r) : i.site = site} : i.status = "completed"}
                    = {i \in completedItems : i.site = site}
    OBVIOUS
  <2> QED BY <2>1, <2>2
<1>7. /\ shown.successful = Successes(r) /\ shown.attempted = PageAttempted(r)
      /\ shown.failed = (IF PageAttempted(r) > Successes(r)
                         THEN PageAttempted(r) - Successes(r) ELSE 0)
      /\ shown.websites = Cardinality(SitesOf(seen))
  BY <1>6 DEF PageStatistics
<1>8. r \notin claimed => PageAttempted(r) \in Nat /\ PageAttempted(r) >= Cardinality(seen)
  <2> SUFFICES ASSUME r \notin claimed
               PROVE  PageAttempted(r) \in Nat /\ PageAttempted(r) >= Cardinality(seen)
    OBVIOUS
  <2>1. Cardinality(seen) <= Expected /\ Expected \in Nat
    BY <1>i, FewTasksEvaluated, Scores
  <2>2. attempted[r] = Null \/ (attempted[r] \in Nat /\ attempted[r] >= Expected)
    BY <1>1 DEF Pages, Tried
  <2> HIDE DEF seen
  <2>3. CASE attempted[r] = Null BY <1>2, <1>3, <2>3 DEF PageAttempted
  <2>4. CASE attempted[r] # Null BY <1>2, <2>1, <2>2, <2>4 DEF PageAttempted
  <2> QED BY <2>3, <2>4
<1>9. {what[2] : what \in PageTimeline(r)} = {Null} \cup seen
  <2> DEFINE per == {<<IF i.status = "completed" THEN "task_completed" ELSE "task_failed", i.task>> :
                        i \in PageTasks(r)}
             ends == IF r \notin ended THEN {}
                     ELSE {<<IF PageStatus(r) = "completed" THEN "run_completed"
                             ELSE "run_failed", Null>>}
  <2>1. PageTimeline(r) = {<<"run_started", Null>>} \cup per \cup ends BY DEF PageTimeline
  <2>2. \A x \in per : x[2] \in seen
    <3> SUFFICES ASSUME NEW i \in PageTasks(r) PROVE i.task \in seen OBVIOUS
    <3>1. PICK t \in seen : i = ItemOf(r, t) BY ItemsAre
    <3> QED BY <3>1 DEF ItemOf
  <2>3. \A t \in seen : \E x \in per : x[2] = t
    <3> SUFFICES ASSUME NEW t \in seen PROVE \E x \in per : x[2] = t OBVIOUS
    <3> DEFINE i == ItemOf(r, t)
               kind == IF i.status = "completed" THEN "task_completed" ELSE "task_failed"
    <3>1. i \in PageTasks(r) BY ItemsAre
    <3>2. i.task = t BY DEF ItemOf
    <3>3. <<kind, i.task>> \in per BY <3>1
    <3> HIDE DEF per, kind
    <3>4. <<kind, i.task>>[2] = t BY <3>2
    <3> QED BY <3>3, <3>4
  <2>4. \A x \in ends : x[2] = Null OBVIOUS
  <2> HIDE DEF per, ends, seen
  <2> DEFINE started == <<"run_started", Null>>
  <2>5. started[2] = Null OBVIOUS
  <2> HIDE DEF started
  <2>6. PageTimeline(r) = {started} \cup per \cup ends BY <2>1 DEF started
  <2> QED BY <2>2, <2>3, <2>4, <2>5, <2>6
<1>10. \A row \in AgentRuns(Miner[r]) :
          row.item.run = r => /\ row.websites = shown.websites
                              /\ row.item.successful = shown.successful
  <2> SUFFICES ASSUME NEW row \in AgentRuns(Miner[r]), row.item.run = r
               PROVE  row.websites = shown.websites /\ row.item.successful = shown.successful
    OBVIOUS
  <2>1. PICK q \in runs : row = [item |-> Listed(q),
                                 websites |-> Cardinality(SitesOf(Evaluated(evals, q)))]
    BY DEF AgentRuns
  <2>2. Listed(q).run = q /\ Listed(q).successful = Successes(q) BY DEF Listed
  <2>3. q = r BY <2>1, <2>2
  <2> QED BY <1>7, <2>1, <2>2, <2>3
<1>11. Cardinality(PageTasks(r)) = SumOver(tasksOf, DOMAIN bySite)
  <2>1. PageTasks(r) \in SUBSET PageTasks(r) OBVIOUS
  <2>2. \A site \in SitesOf(Evaluated(evals, r)) :
            tasksOf[site] = Cardinality({i \in PageTasks(r) : i.site = site})
    BY <1>6
  <2> HIDE DEF tasksOf
  <2>3. SumOver(tasksOf, SitesOf(Evaluated(evals, r))) = Cardinality(PageTasks(r))
    BY <2>1, <2>2, ItemsBySite
  <2>4. DOMAIN bySite = SitesOf(Evaluated(evals, r)) BY <1>6
  <2> QED BY <2>3, <2>4
<1>12. Cardinality(completedItems) = SumOver(successfulOf, DOMAIN bySite)
  <2>1. completedItems \in SUBSET PageTasks(r) OBVIOUS
  <2>2. \A site \in SitesOf(Evaluated(evals, r)) :
            successfulOf[site] = Cardinality({i \in completedItems : i.site = site})
    BY <1>6
  <2> HIDE DEF successfulOf, completedItems
  <2>3. SumOver(successfulOf, SitesOf(Evaluated(evals, r))) = Cardinality(completedItems)
    BY <2>1, <2>2, ItemsBySite
  <2>4. DOMAIN bySite = SitesOf(Evaluated(evals, r)) BY <1>6
  <2> QED BY <2>3, <2>4
<1>13. \A q \in Runs : CompareRuns(<<q, r>>).bestSuccessRate = q
                         => Successes(q) > 0 \/ Successes(r) = 0
  BY <1>i, NoWorseIsBest
<1> HIDE DEF seen, passed, failed, shown, completedItems, failedItems
<1>14. r \notin claimed =>
          /\ shown.successful = Cardinality(completedItems)
          /\ shown.failed >= Cardinality(failedItems)
          /\ shown.attempted = shown.successful + shown.failed
  <2> SUFFICES ASSUME r \notin claimed
               PROVE  /\ shown.successful = Cardinality(completedItems)
                      /\ shown.failed >= Cardinality(failedItems)
                      /\ shown.attempted = shown.successful + shown.failed
    OBVIOUS
  <2> DEFINE a == PageAttempted(r)
             s == Cardinality(passed)
             f == Cardinality(failed)
  <2>1. a \in Nat /\ s \in Nat /\ f \in Nat /\ a >= s + f BY <1>4, <1>5, <1>8
  <2>2. /\ shown.successful = s /\ shown.attempted = a
        /\ shown.failed = IF a > s THEN a - s ELSE 0
    BY <1>2, <1>7
  <2>3. Cardinality(completedItems) = s /\ Cardinality(failedItems) = f BY <1>3
  <2> HIDE DEF a, s, f
  <2> QED BY <2>1, <2>2, <2>3
<1> QED BY <1>9, <1>10, <1>11, <1>12, <1>13, <1>14 DEF seen, shown, completedItems, failedItems

(* A miner's round and the page of its run agree.                          *)
LEMMA AgentRoundAgreesWhenAlone ==
    ASSUME NEW w, Workers = {w}, OutcomeInv(w), Pages,
           \A new \in TaskSets : Cardinality(new) <= Expected
    PROVE  AgentRoundAgrees
<1>i. TypeOK /\ OutcomeTypes /\ Exact BY DEF OutcomeInv, AloneInv, Inv
<1> SUFFICES ASSUME NEW r \in runs
             PROVE  LET row == AgentRound(r)
                        page == PageStatistics(r)
                    IN
                    /\ attempted[r] # Null => row.attempted = page.attempted
                    /\ Evaluated(evals, r) # {} => /\ row.attempted >= page.attempted
                                                   /\ row.websites = page.websites
                    /\ page.websites <= row.websites
                    /\ row.websites <= Cardinality(SitesOf(tasks))
  BY DEF AgentRoundAgrees
<1> DEFINE seen == Evaluated(evals, r)
           visited == Cardinality(SitesOf(seen))
           all == Cardinality(SitesOf(tasks))
           tried == NormalizedAttempts(r)
           row == AgentRound(r)
           page == PageStatistics(r)
<1>1. r \in Runs BY <1>i DEF TypeOK
<1>2. /\ row.attempted = tried
      /\ row.websites = (IF visited > 0 THEN visited ELSE IF tried \notin {Null, 0} THEN all ELSE 0)
      /\ page.attempted = PageAttempted(r)
      /\ page.websites = visited
  BY DEF AgentRound, PageStatistics, PerformanceByWebsite
<1>3. /\ visited \in Nat /\ all \in Nat /\ visited <= all
      /\ visited = 0 <=> seen = {}
  <2>1. tasks \subseteq Tasks /\ evals \subseteq runs \X tasks BY <1>i DEF TypeOK
  <2>2. seen \subseteq tasks BY <2>1 DEF Evaluated
  <2>3. SitesOf(seen) \subseteq SitesOf(tasks) BY <2>2 DEF SitesOf
  <2>4. IsFiniteSet(SitesOf(tasks)) BY <2>1, SitesAreFinite
  <2>5. /\ IsFiniteSet(SitesOf(seen)) /\ visited <= all /\ all \in Nat /\ visited \in Nat
    BY <2>3, <2>4, FS_Subset, FS_CardinalityType
  <2>6. visited = 0 <=> SitesOf(seen) = {} BY <2>5, FS_EmptySet
  <2>7. SitesOf(seen) = {} <=> seen = {} BY DEF SitesOf
  <2> QED BY <2>5, <2>6, <2>7
<1>4. /\ Cardinality(seen) \in Nat /\ Cardinality(seen) <= Expected /\ Expected \in Nat \ {0}
      /\ Total(r) \in Nat
      /\ stats[r] # Null => Total(r) > 0
      /\ attempted[r] = Null /\ stats[r] # Null => Total(r) >= Expected
      /\ stats[r] = Null => seen = {}
  <2>1. attempted[r] = Null => Plain(r) BY <1>1 DEF Pages, Tried
  <2> QED BY <1>i, <1>1, <2>1, QuietNumbers, FewTasksEvaluated, Scores
<1>5. attempted[r] = Null \/ attempted[r] \in Nat \ {0}
  BY <1>1 DEF Pages, Tried
<1>6. Cardinality(PageTasks(r)) = Cardinality(seen)
  <2>1. seen \in SUBSET seen OBVIOUS
  <2>2. PageTasks(r) = {ItemOf(r, t) : t \in seen} BY ItemsAre
  <2>3. Cardinality({ItemOf(r, t) : t \in seen}) = Cardinality(seen) BY <2>1, ItemsAreCounted
  <2> QED BY <2>2, <2>3
<1> HIDE DEF seen, visited, all, row, page
<1>7. attempted[r] # Null => tried = attempted[r] /\ PageAttempted(r) = attempted[r]
  BY <1>4, <1>5 DEF NormalizedAttempts, PageAttempted
<1>8. attempted[r] = Null => /\ PageAttempted(r) = Cardinality(seen)
                             /\ stats[r] # Null => tried = Total(r)
  BY <1>4, <1>6 DEF NormalizedAttempts, PageAttempted
<1>9. seen # {} => tried >= PageAttempted(r)
  <2>1. CASE attempted[r] = Null BY <1>4, <1>8, <2>1
  <2>2. CASE attempted[r] # Null BY <1>5, <1>7, <2>2
  <2> QED BY <2>1, <2>2
<1> HIDE DEF tried
<1>10. /\ seen # {} => row.websites = visited
       /\ visited <= row.websites /\ row.websites <= all
  <2>1. CASE visited > 0 BY <1>2, <1>3, <2>1
  <2>2. CASE ~(visited > 0) BY <1>2, <1>3, <2>2
  <2> QED BY <2>1, <2>2
<1> QED BY <1>2, <1>7, <1>9, <1>10 DEF row, page, seen, all

(* The pages of a run agree on its outcome and on its numbers, if requests *)
(* come one after the other and no list has more tasks than the round is   *)
(* configured with.                                                        *)
THEOREM RunPagesAlwaysAgree ==
    ASSUME NEW CONSTANT w, Workers = {w}, \A new \in TaskSets : Cardinality(new) <= Expected
    PROVE  OutcomeSpec => []RunPagesAgree
<1>1. OutcomeInv(w) /\ Pages => RunPagesAgree
  BY StatusesAgreeWhenAlone, RunPageAddsUpWhenAlone, AgentRoundAgreesWhenAlone
  DEF RunPagesAgree
<1> QED BY <1>1, OutcomeInvariance, PagesInvariance, PTL

-----------------------------------------------------------------------------
(* The verdicts on an evaluation, and the numbers made of them.            *)

(* Every page and search judges an evaluation of score zero or one alike.  *)
LEMMA OneVerdict ==
    ASSUME TypeOK, NEW e \in evals, Score[e] \in {0, 100}
    PROVE  LET passed == EvaluationPage(e).status = "completed" IN
           /\ passed <=> \E i \in PageTasks(e[1]) : i.task = e[2] /\ i.status = "completed"
           /\ passed <=> ItemStatus(e) = "passed"
           /\ passed <=> ExternalStatus(e) = "completed"
           /\ passed <=> ExternalPassed(e)
<1> DEFINE r == e[1]
           t == e[2]
<1>1. e = <<r, t>> /\ t \in Evaluated(evals, r)
  <2>1. evals \subseteq runs \X tasks /\ tasks \subseteq Tasks BY DEF TypeOK
  <2> QED BY <2>1 DEF Evaluated
<1>2. EvaluationPage(e).status = TaskStatus(e) BY DEF EvaluationPage
<1> DEFINE listed == \E i \in PageTasks(r) : i.task = t /\ i.status = "completed"
           shown == EvaluationPage(e).status = "completed"
<1>3. Passed(e) <=> TaskStatus(e) = "completed" BY DEF Passed, TaskStatus
<1>4. listed <=> Passed(e)
  <2>1. PageTasks(r) = {ItemOf(r, u) : u \in Evaluated(evals, r)} BY ItemsAre
  <2>2. \A u : /\ ItemOf(r, u).task = u
               /\ ItemOf(r, u).status = "completed" <=> Passed(<<r, u>>)
    BY DEF ItemOf
  <2> HIDE DEF r, t
  <2> QED BY <1>1, <2>1, <2>2
<1>5. /\ Passed(e) <=> ItemStatus(e) = "passed"
      /\ Passed(e) <=> ExternalStatus(e) = "completed"
      /\ Passed(e) <=> ExternalPassed(e)
  BY DEF Passed, ItemStatus, ExternalStatus, ExternalPassed
<1>6. shown <=> Passed(e) BY <1>2, <1>3
<1>7. /\ shown <=> listed
      /\ shown <=> ItemStatus(e) = "passed"
      /\ shown <=> ExternalStatus(e) = "completed"
      /\ shown <=> ExternalPassed(e)
  <2> HIDE DEF shown, listed
  <2> QED BY <1>4, <1>5, <1>6
<1> QED BY <1>7

(* Whichever evaluation the page of a task shows, the lists, the facets    *)
(* and the analytics of tasks count alike.                                 *)
LEMMA TaskNumbersAddUp ==
    ASSUME TypeOK, NEW shown \in Contexts
    PROVE  LET all == Analytics(shown)
               tasksOn == [site \in DOMAIN all.bySite |-> all.bySite[site].tasks]
               passedOn == [site \in DOMAIN all.bySite |-> all.bySite[site].successful]
               pages == DetailedList(shown, Null)
               passedOf == [p \in pages |-> TaskStatistics(p).completed]
               facets == StatusFacets(pages)
           IN
           /\ facets["completed"] = all.completed /\ facets["failed"] = all.failed
           /\ all.completed + all.failed = all.total
           /\ SumOver(tasksOn, DOMAIN all.bySite) = all.total
           /\ SumOver(passedOn, DOMAIN all.bySite) = SumOver(passedOf, pages)
           /\ CompareTasks(shown, Tasks) = pages
           /\ \A p \in pages : p = EvaluationPage(p.evaluation)
           /\ UNION {DetailedList(shown, r) : r \in runs} = pages
<1> DEFINE seen == EvaluatedTasks
           is(t) == TaskStatus(shown[t]) = "completed"
           passed == {t \in seen : is(t)}
           failed == {t \in seen : ~is(t)}
           on(site) == {t \in seen : Site[t] = site}
           sites == SitesOf(seen)
           all == Analytics(shown)
           tasksOn == [site \in DOMAIN all.bySite |-> all.bySite[site].tasks]
           passedOn == [site \in DOMAIN all.bySite |-> all.bySite[site].successful]
           pages == DetailedList(shown, Null)
           passedOf == [p \in pages |-> TaskStatistics(p).completed]
           facets == StatusFacets(pages)
           good == {p \in pages : p.status = "completed"}
           page == [t \in seen |-> TaskPage(shown, t)]
(* What there is.                                                          *)
<1>1. /\ seen \subseteq Tasks
      /\ \A t \in seen : shown[t] \in evals /\ shown[t][2] = t /\ shown[t][1] \in runs
  <2>1. evals \subseteq runs \X tasks /\ tasks \subseteq Tasks BY DEF TypeOK
  <2>2. seen \subseteq Tasks BY <2>1 DEF EvaluatedTasks
  <2>3. shown \in [seen -> evals] /\ \A t \in seen : shown[t][2] = t BY DEF Contexts
  <2> QED BY <2>1, <2>2, <2>3
<1>2. IsFiniteSet(seen) BY <1>1, TasksAreFinite, FS_Subset
<1>3. passed \in SUBSET seen /\ failed \in SUBSET seen /\ seen = passed \cup failed
      /\ passed \cap failed = {}
  OBVIOUS
<1>4. IsFiniteSet(passed) /\ IsFiniteSet(failed) BY <1>2, <1>3, FS_Subset
<1>5. \A t \in seen : /\ page[t].task = t /\ page[t].status = TaskStatus(shown[t])
                      /\ page[t].evaluation = shown[t]
                      /\ page[t] = EvaluationPage(shown[t])
  BY <1>1 DEF TaskPage, EvaluationPage
<1>6. pages = {page[t] : t \in seen}
  <2>1. \A t : t \in seen => Null \in {Null, shown[t][1]} OBVIOUS
  <2>2. {t \in seen : Null \in {Null, shown[t][1]}} = seen OBVIOUS
  <2>3. pages = {TaskPage(shown, t) : t \in seen} BY <2>2 DEF DetailedList
  <2>4. \A t \in seen : page[t] = TaskPage(shown, t) OBVIOUS
  <2> HIDE DEF page, pages, seen
  <2> QED BY <2>3, <2>4
<1>7. \A t \in seen : TaskStatus(shown[t]) \in {"completed", "failed"} BY DEF TaskStatus
<1>8. /\ all.total = Cardinality(seen) /\ all.completed = Cardinality(passed)
      /\ all.failed = Cardinality(failed)
      /\ DOMAIN all.bySite = sites
      /\ \A site \in sites : /\ all.bySite[site].tasks = Cardinality(on(site))
                             /\ all.bySite[site].successful = Cardinality({t \in on(site) : is(t)})
  BY DEF Analytics
<1>9. /\ \A t \in seen : TaskStatistics(page[t]).completed = IF is(t) THEN 1 ELSE 0
      /\ \A p \in pages : TaskStatistics(p).completed = IF p.status = "completed" THEN 1 ELSE 0
  <2>1. \A p : TaskStatistics(p).completed = IF p.status = "completed" THEN 1 ELSE 0
    BY DEF TaskStatistics
  <2> QED BY <1>5, <2>1
(* The facets.                                                             *)
<1>10. ASSUME NEW some \in SUBSET seen
       PROVE  /\ IsFiniteSet({page[t] : t \in some})
              /\ Cardinality({page[t] : t \in some}) = Cardinality(some)
  <2> DEFINE f == [t \in some |-> page[t]]
  <2>1. IsFiniteSet(some) BY <1>2, FS_Subset
  <2>2. f = [t \in some |-> f[t]] /\ {f[t] : t \in some} = {page[t] : t \in some} OBVIOUS
  <2>3. \A x, y \in some : f[x] = f[y] => x = y
    <3>1. \A x \in some : f[x].task = x BY <1>5
    <3> HIDE DEF f, page
    <3> QED BY <3>1
  <2> HIDE DEF f, page, seen
  <2> QED BY <2>1, <2>2, <2>3, ValuesAreCounted
<1>11. /\ good = {page[t] : t \in passed}
       /\ {p \in pages : p.status = "failed"} = {page[t] : t \in failed}
  <2>1. \A t \in seen : page[t].status = "failed" <=> ~is(t) BY <1>5, <1>7
  <2>2. \A t \in seen : page[t].status = "completed" <=> is(t) BY <1>5
  <2> HIDE DEF page, seen, is
  <2> QED BY <1>6, <2>1, <2>2
<1>12. facets["completed"] = Cardinality(good)
       /\ facets["failed"] = Cardinality({p \in pages : p.status = "failed"})
  BY DEF StatusFacets
<1>13. IsFiniteSet(pages) /\ IsFiniteSet(good) /\ Cardinality(good) = Cardinality(passed)
       /\ Cardinality({p \in pages : p.status = "failed"}) = Cardinality(failed)
  <2>1. seen \in SUBSET seen OBVIOUS
  <2> HIDE DEF pages, page, good, seen, passed, failed
  <2>2. IsFiniteSet({page[t] : t \in seen}) BY <2>1, <1>10
  <2>3. IsFiniteSet({page[t] : t \in passed})
        /\ Cardinality({page[t] : t \in passed}) = Cardinality(passed)
    BY <1>3, <1>10
  <2>4. Cardinality({page[t] : t \in failed}) = Cardinality(failed) BY <1>3, <1>10
  <2> QED BY <1>6, <1>11, <2>2, <2>3, <2>4
(* The totals.                                                             *)
<1>14. Cardinality(seen) = Cardinality(passed) + Cardinality(failed)
  <2> HIDE DEF seen, passed, failed
  <2>1. Cardinality(seen) = Cardinality(passed) + Cardinality(failed) - Cardinality({})
    BY <1>3, <1>4, FS_Union
  <2>2. Cardinality({}) = 0 /\ Cardinality(passed) \in Nat /\ Cardinality(failed) \in Nat
    BY <1>4, FS_EmptySet, FS_CardinalityType
  <2> QED BY <2>1, <2>2
(* The sites.                                                              *)
<1>15. IsFiniteSet(sites) BY <1>1, SitesAreFinite
<1>16. ASSUME NEW some \in SUBSET seen, NEW count,
              \A site \in sites : count[site] = Cardinality({t \in some : Site[t] = site})
       PROVE  SumOver(count, sites) = Cardinality(some)
  <2> DEFINE part == [site \in sites |-> {t \in some : Site[t] = site}]
  <2>1. IsFiniteSet(some) BY <1>2, FS_Subset
  <2>2. \A site \in sites : part[site] \in SUBSET some OBVIOUS
  <2>3. \A site \in sites : IsFiniteSet(part[site]) BY <2>1, <2>2, FS_Subset
  <2>4. \A site \in sites : count[site] = Cardinality(part[site]) BY <1>16
  <2>5. \A x, y \in sites : x # y => part[x] \cap part[y] = {} OBVIOUS
  <2>6. \A t \in some : Site[t] \in sites BY DEF SitesOf
  <2>7. UNION {part[site] : site \in sites} = some BY <2>6
  <2> HIDE DEF part, sites, seen
  <2>8. SumOver(count, sites) = Cardinality(UNION {part[site] : site \in sites})
    BY <1>15, <2>3, <2>4, <2>5, PartsAddUp
  <2> QED BY <2>7, <2>8
<1>17. SumOver(tasksOn, sites) = Cardinality(seen)
  <2>1. \A site \in sites : tasksOn[site] = Cardinality({t \in seen : Site[t] = site})
    BY <1>8
  <2>2. seen \in SUBSET seen OBVIOUS
  <2> HIDE DEF tasksOn, seen, sites
  <2> QED BY <1>16, <2>1, <2>2
<1>18. SumOver(passedOn, sites) = Cardinality(passed)
  <2>1. \A site : {t \in on(site) : is(t)} = {t \in passed : Site[t] = site} OBVIOUS
  <2>2. \A site \in sites : passedOn[site] = Cardinality({t \in passed : Site[t] = site})
    BY <1>8, <2>1
  <2> HIDE DEF passedOn, passed, seen, sites
  <2> QED BY <1>3, <1>16, <2>2
<1>19. SumOver(passedOf, pages) = Cardinality(good)
  <2> DEFINE part == [p \in pages |-> IF p.status = "completed" THEN {p} ELSE {}]
  <2>1. \A p : Cardinality({p}) = 1 /\ IsFiniteSet({p}) BY FS_Singleton
  <2>2. Cardinality({}) = 0 /\ IsFiniteSet({}) BY FS_EmptySet
  <2>3. \A p \in pages : passedOf[p] = IF p.status = "completed" THEN 1 ELSE 0 BY <1>9
  <2>4. \A p \in pages : IsFiniteSet(part[p]) /\ passedOf[p] = Cardinality(part[p])
    <3> HIDE DEF passedOf, pages
    <3> QED BY <2>1, <2>2, <2>3
  <2>5. \A x, y \in pages : x # y => part[x] \cap part[y] = {} OBVIOUS
  <2>6. UNION {part[p] : p \in pages} = good OBVIOUS
  <2>7. IsFiniteSet(pages) BY <1>13
  <2> HIDE DEF part, passedOf, pages, good
  <2>8. SumOver(passedOf, pages) = Cardinality(UNION {part[p] : p \in pages})
    BY <2>4, <2>5, <2>7, PartsAddUp
  <2> QED BY <2>6, <2>8
(* The other lists.                                                        *)
<1>20. CompareTasks(shown, Tasks) = pages
  <2>1. Tasks \cap seen = seen BY <1>1
  <2>2. pages = {TaskPage(shown, t) : t \in seen} BY <1>6
  <2> QED BY <2>1, <2>2 DEF CompareTasks
<1>21. \A p \in pages : p = EvaluationPage(p.evaluation)
  <2> SUFFICES ASSUME NEW t \in seen PROVE page[t] = EvaluationPage(page[t].evaluation) BY <1>6
  <2> QED BY <1>5
<1>22. UNION {DetailedList(shown, r) : r \in runs} = pages
  <2>1. \A r : DetailedList(shown, r) \subseteq pages BY <1>6 DEF DetailedList
  <2>2. \A t \in seen : page[t] \in DetailedList(shown, shown[t][1]) BY DEF DetailedList
  <2> HIDE DEF page, pages, seen
  <2> QED BY <1>1, <1>6, <2>1, <2>2
<1> HIDE DEF seen, passed, failed, sites, all, tasksOn, passedOn, pages, passedOf, facets, good
<1>23. /\ facets["completed"] = all.completed /\ facets["failed"] = all.failed
       /\ all.completed + all.failed = all.total
  BY <1>8, <1>12, <1>13, <1>14
<1>24. /\ SumOver(tasksOn, DOMAIN all.bySite) = all.total
       /\ SumOver(passedOn, DOMAIN all.bySite) = SumOver(passedOf, pages)
  BY <1>8, <1>13, <1>17, <1>18, <1>19
<1> QED BY <1>20, <1>21, <1>22, <1>23, <1>24
        DEF all, tasksOn, passedOn, pages, passedOf, facets

(* The pages of tasks judge and count alike, however requests interleave.  *)
THEOREM VerdictsAlwaysAgree == OutcomeSpec => []VerdictsAgree
<1>1. TypeOK => VerdictsAgree BY OneVerdict, TaskNumbersAddUp DEF VerdictsAgree
<1> QED BY <1>1, OutcomeRefinesIngestion, TypeCorrectness, PTL

-----------------------------------------------------------------------------
(* The page of a validator.                                                *)

TasksOf(some) == {e[2] : e \in some}
OnSite(some, site) == {e \in some : Site[e[2]] = site}
OfUseCase(some, site, case) == {e \in OnSite(some, site) : UseCase[e[2]] = case}

(* Added up over some tasks, the numbers are those of their evaluations.   *)
LEMMA AddedIs ==
    ASSUME NEW some, IsFiniteSet(some), NEW who \in SUBSET TasksOf(some)
    PROVE  AddedUp(ByTask(some), who) = Tally({e \in some : e[2] \in who})
<1> DEFINE theirs == {e \in some : e[2] \in who}
           passed == {e \in theirs : Score[e] >= 50}
           failed == {e \in theirs : Score[e] < 50}
           groups == ByTask(some)
           of(part) == [t \in who |-> {e \in part : e[2] = t}]
           totals == [t \in who |-> groups[t].total]
           successes == [t \in who |-> groups[t].success]
           zeros == [t \in who |-> groups[t].zero]
<1>1. IsFiniteSet(theirs)
  <2>1. theirs \in SUBSET some OBVIOUS
  <2> QED BY <2>1, FS_Subset
<1>2. IsFiniteSet(who)
  <2> DEFINE key == [e \in some |-> e[2]]
  <2>1. IsFiniteSet(TasksOf(some))
    <3>1. key = [e \in some |-> key[e]] /\ TasksOf(some) = {key[e] : e \in some} BY DEF TasksOf
    <3> HIDE DEF key
    <3> QED BY <3>1, ValuesAreCounted
  <2> QED BY <2>1, FS_Subset
<1>3. ASSUME NEW part \in SUBSET theirs, NEW count,
             \A t \in who : count[t] = Cardinality(of(part)[t])
      PROVE  SumOver(count, who) = Cardinality(part)
  <2>1. IsFiniteSet(part) BY <1>1, FS_Subset
  <2>2. /\ \A t \in who : of(part)[t] \subseteq part
        /\ \A t, u \in who : t # u => of(part)[t] \cap of(part)[u] = {}
        /\ \A e \in part : \E t \in who : e \in of(part)[t]
    OBVIOUS
  <2> HIDE DEF of, theirs
  <2> QED BY <1>2, <1>3, <2>1, <2>2, SharesAddUp
<1>4. ASSUME NEW t \in who
      PROVE  /\ totals[t] = Cardinality(of(theirs)[t])
             /\ successes[t] = Cardinality(of(passed)[t])
             /\ zeros[t] = Cardinality(of(failed)[t])
  <2> DEFINE mine == {e \in some : e[2] = t}
  <2>1. t \in TasksOf(some) OBVIOUS
  <2>2. groups[t] = Tally(mine) BY <2>1 DEF ByTask, TasksOf
  <2>3. /\ mine = of(theirs)[t]
        /\ {e \in mine : Score[e] >= 50} = of(passed)[t]
        /\ {e \in mine : Score[e] < 50} = of(failed)[t]
    OBVIOUS
  <2>4. /\ totals[t] = groups[t].total /\ successes[t] = groups[t].success
        /\ zeros[t] = groups[t].zero
    OBVIOUS
  <2> HIDE DEF totals, successes, zeros, groups, of, theirs, passed, failed
  <2>5. /\ groups[t].total = Cardinality(mine)
        /\ groups[t].success = Cardinality({e \in mine : Score[e] >= 50})
        /\ groups[t].zero = Cardinality({e \in mine : Score[e] < 50})
    BY <2>2 DEF Tally
  <2> HIDE DEF mine
  <2> QED BY <2>3, <2>4, <2>5
<1>5. passed \in SUBSET theirs /\ failed \in SUBSET theirs /\ theirs \in SUBSET theirs OBVIOUS
<1>6. AddedUp(groups, who) = [total |-> SumOver(totals, who), success |-> SumOver(successes, who),
                              zero |-> SumOver(zeros, who)]
  <2> HIDE DEF groups
  <2> QED BY DEF AddedUp
<1>7. Tally(theirs) = [total |-> Cardinality(theirs), success |-> Cardinality(passed),
                       zero |-> Cardinality(failed)]
  BY DEF Tally
<1> HIDE DEF groups, theirs, passed, failed, totals, successes, zeros, of
<1>8. /\ SumOver(totals, who) = Cardinality(theirs) /\ SumOver(successes, who) = Cardinality(passed)
      /\ SumOver(zeros, who) = Cardinality(failed)
  BY <1>3, <1>4, <1>5
<1> QED BY <1>6, <1>7, <1>8 DEF groups, theirs

(* What the page shows of a site and of a use case on it.                  *)
LEMMA WebStatsAre ==
    ASSUME NEW some, IsFiniteSet(some)
    PROVE  LET webs == WebStats(some) IN
           /\ DOMAIN webs = {Site[e[2]] : e \in some}
           /\ \A s \in DOMAIN webs :
                /\ webs[s].count = Tally(OnSite(some, s))
                /\ DOMAIN webs[s].useCases = {UseCase[e[2]] : e \in OnSite(some, s)}
                /\ \A c \in DOMAIN webs[s].useCases :
                     webs[s].useCases[c].count = Tally(OfUseCase(some, s, c))
<1> DEFINE groups == ByTask(some)
           on(site) == {t \in TasksOf(some) : Site[t] = site}
           part(site, case) == {t \in on(site) : UseCase[t] = case}
           webs == WebStats(some)
<1>1. DOMAIN groups = TasksOf(some) BY DEF ByTask, TasksOf
<1>2. webs = [site \in SitesOf(TasksOf(some)) |->
                [count |-> AddedUp(groups, on(site)),
                 useCases |-> [case \in {UseCase[t] : t \in on(site)} |->
                     [count |-> AddedUp(groups, part(site, case)), tasks |-> part(site, case)]]]]
  <2> HIDE DEF groups
  <2> QED BY <1>1 DEF WebStats, groups
<1>3. DOMAIN webs = {Site[e[2]] : e \in some} BY <1>2 DEF SitesOf, TasksOf
<1>4. ASSUME NEW s \in DOMAIN webs
      PROVE  /\ webs[s].count = Tally(OnSite(some, s))
             /\ DOMAIN webs[s].useCases = {UseCase[e[2]] : e \in OnSite(some, s)}
             /\ \A c \in DOMAIN webs[s].useCases :
                  webs[s].useCases[c].count = Tally(OfUseCase(some, s, c))
  <2>1. /\ webs[s].count = AddedUp(groups, on(s))
        /\ DOMAIN webs[s].useCases = {UseCase[t] : t \in on(s)}
        /\ \A c \in DOMAIN webs[s].useCases : webs[s].useCases[c].count = AddedUp(groups, part(s, c))
    BY <1>2
  <2>2. on(s) \in SUBSET TasksOf(some) /\ \A c : part(s, c) \in SUBSET TasksOf(some) OBVIOUS
  <2>3. {e \in some : e[2] \in on(s)} = OnSite(some, s) BY DEF OnSite, TasksOf
  <2>4. \A c : {e \in some : e[2] \in part(s, c)} = OfUseCase(some, s, c)
    BY DEF OfUseCase, OnSite, TasksOf
  <2>5. {UseCase[t] : t \in on(s)} = {UseCase[e[2]] : e \in OnSite(some, s)}
    BY DEF OnSite, TasksOf
  <2> HIDE DEF on, part, webs, groups
  <2>6. AddedUp(groups, on(s)) = Tally(OnSite(some, s)) BY <2>2, <2>3, AddedIs DEF groups
  <2>7. \A c : AddedUp(groups, part(s, c)) = Tally(OfUseCase(some, s, c))
    BY <2>2, <2>4, AddedIs DEF groups
  <2> QED BY <2>1, <2>5, <2>6, <2>7
<1> QED BY <1>3, <1>4

Across(parts, field) == SumOver([x \in DOMAIN parts |-> parts[x].count[field]], DOMAIN parts)

(* A table of the page added up over its keys is what it shares out.       *)
LEMMA TalliesAddUp ==
    ASSUME NEW some, IsFiniteSet(some), \A e \in some : Score[e] \in Int,
           NEW K, IsFiniteSet(K), NEW parts, DOMAIN parts = K, NEW share,
           \A k \in K : share[k] \subseteq some /\ parts[k].count = Tally(share[k]),
           \A k, l \in K : k # l => share[k] \cap share[l] = {},
           \A e \in some : \E k \in K : e \in share[k]
    PROVE  /\ Across(parts, "total") = Cardinality(some)
           /\ Across(parts, "success") = Cardinality({e \in some : Score[e] >= 50})
<1> DEFINE totals == [x \in DOMAIN parts |-> parts[x].count["total"]]
           successes == [x \in DOMAIN parts |-> parts[x].count["success"]]
           good == {e \in some : Score[e] >= 50}
           goodOf == [k \in K |-> {e \in share[k] : Score[e] >= 50}]
<1>0. Across(parts, "total") = SumOver(totals, K) /\ Across(parts, "success") = SumOver(successes, K)
  BY DEF Across
<1>1. good \in SUBSET some OBVIOUS
<1>2. IsFiniteSet(good) BY <1>1, FS_Subset
<1>3. ASSUME NEW k \in K
      PROVE  totals[k] = Cardinality(share[k]) /\ successes[k] = Cardinality(goodOf[k])
  <2>1. totals[k] = parts[k].count["total"] /\ successes[k] = parts[k].count["success"] OBVIOUS
  <2>2. goodOf[k] = {e \in share[k] : Score[e] >= 50} OBVIOUS
  <2>3. parts[k].count = Tally(share[k]) OBVIOUS
  <2> HIDE DEF totals, successes, goodOf
  <2> QED BY <2>1, <2>2, <2>3 DEF Tally
<1>4. /\ \A k \in K : goodOf[k] \subseteq good
      /\ \A k, l \in K : k # l => goodOf[k] \cap goodOf[l] = {}
      /\ \A e \in good : \E k \in K : e \in goodOf[k]
  OBVIOUS
<1> HIDE DEF totals, successes, good, goodOf
<1>5. SumOver(totals, K) = Cardinality(some)
  <2>1. \A k \in K : share[k] \subseteq some /\ totals[k] = Cardinality(share[k]) BY <1>3
  <2>2. /\ IsFiniteSet(some) /\ IsFiniteSet(K)
        /\ \A k, l \in K : k # l => share[k] \cap share[l] = {}
        /\ \A e \in some : \E k \in K : e \in share[k]
    OBVIOUS
  <2> QED BY ONLY <2>1, <2>2, SharesAddUp
<1>6. SumOver(successes, K) = Cardinality(good)
  <2>1. \A k \in K : goodOf[k] \subseteq good /\ successes[k] = Cardinality(goodOf[k])
    BY <1>3, <1>4
  <2>2. \A k, l \in K : k # l => goodOf[k] \cap goodOf[l] = {} BY <1>4
  <2>3. \A e \in good : \E k \in K : e \in goodOf[k] BY <1>4
  <2> QED BY ONLY <1>2, <2>1, <2>2, <2>3, IsFiniteSet(K), SharesAddUp
<1> QED BY <1>0, <1>5, <1>6 DEF good

(* What is tallied is passed or not.                                       *)
LEMMA TallyIsWhole ==
    ASSUME NEW some, IsFiniteSet(some), \A e \in some : Score[e] \in Int
    PROVE  Tally(some).total = Tally(some).success + Tally(some).zero
<1> DEFINE passed == {e \in some : Score[e] >= 50}
           failed == {e \in some : Score[e] < 50}
<1>1. passed \in SUBSET some /\ failed \in SUBSET some /\ passed \cup failed = some
      /\ passed \cap failed = {}
  OBVIOUS
<1>2. /\ Tally(some).total = Cardinality(some) /\ Tally(some).success = Cardinality(passed)
      /\ Tally(some).zero = Cardinality(failed)
  BY DEF Tally
<1> HIDE DEF passed, failed
<1>3. IsFiniteSet(passed) /\ IsFiniteSet(failed) BY <1>1, FS_Subset
<1>4. Cardinality(some) = Cardinality(passed) + Cardinality(failed) - Cardinality({})
  BY <1>1, <1>3, FS_Union
<1>5. Cardinality({}) = 0 /\ Cardinality(passed) \in Nat /\ Cardinality(failed) \in Nat
  BY <1>3, FS_EmptySet, FS_CardinalityType
<1> QED BY <1>2, <1>4, <1>5

(* Two limited statements return as many rows, and the same where neither  *)
(* is cut.                                                                 *)
LEMMA LimitedAre ==
    ASSUME NEW asked, IsFiniteSet(asked), NEW limit \in Nat \ {0},
           NEW counted \in Limited(asked, limit), NEW grouped \in Limited(asked, limit)
    PROVE  /\ counted \subseteq asked /\ grouped \subseteq asked
           /\ IsFiniteSet(counted) /\ IsFiniteSet(grouped)
           /\ Cardinality(counted) = Cardinality(grouped)
           /\ counted = {} => grouped = {}
           /\ ~(Cardinality(counted) >= limit) => counted = asked /\ grouped = asked
<1> DEFINE n == IF limit < Cardinality(asked) THEN limit ELSE Cardinality(asked)
<1>1. /\ counted \in SUBSET asked /\ grouped \in SUBSET asked
      /\ Cardinality(counted) = n /\ Cardinality(grouped) = n
  BY DEF Limited, kSubset
<1>2. IsFiniteSet(counted) /\ IsFiniteSet(grouped) BY <1>1, FS_Subset
<1>3. counted = {} => grouped = {} BY <1>1, <1>2, FS_EmptySet
<1>4. Cardinality(asked) \in Nat BY FS_CardinalityType
<1>5. ASSUME ~(n >= limit) PROVE n = Cardinality(asked) BY <1>4, <1>5
<1> HIDE DEF n
<1>6. ~(n >= limit) => counted = asked /\ grouped = asked BY <1>1, <1>5, FS_Subset
<1> QED BY <1>1, <1>2, <1>3, <1>6

(* What a page that its statements made of the evaluations asked for adds  *)
(* up to.                                                                  *)
PageSums(page, asked) ==
    /\ page.global.total = Across(page.webs, "total")
    /\ \A s \in DOMAIN page.webs :
          LET web == page.webs[s] IN
          /\ web.count.total = web.count.success + web.count.zero
          /\ web.count.total = Across(web.useCases, "total")
          /\ web.count.success = Across(web.useCases, "success")
    /\ ~page.hasMore =>
          /\ page.global.success = Across(page.webs, "success")
          /\ page.global.success
               = Cardinality({e \in asked : EvaluationPage(e).status = "completed"})
          /\ \A s \in DOMAIN page.webs : /\ page.webs[s].count = Tally(OnSite(asked, s))
                                         /\ \E e \in asked : Site[e[2]] = s

(* The page of a validator adds up, whatever its statements return.        *)
LEMMA PageAddsUp ==
    ASSUME NEW asked \in SUBSET evals, IsFiniteSet(evals), \A e \in evals : Score[e] \in Int,
           NEW limit \in Nat \ {0},
           NEW counted \in Limited(asked, limit), NEW grouped \in Limited(asked, limit)
    PROVE  PageSums(ValidatorPage(counted, grouped, limit), asked)
<1> DEFINE page == ValidatorPage(counted, grouped, limit)
           webs == page.webs
           sites == {Site[e[2]] : e \in grouped}
           cases(s) == {UseCase[e[2]] : e \in OnSite(grouped, s)}
<1>1. IsFiniteSet(asked) /\ \A e \in asked : Score[e] \in Int BY FS_Subset
<1>2. /\ counted \subseteq asked /\ grouped \subseteq asked
      /\ IsFiniteSet(counted) /\ IsFiniteSet(grouped)
      /\ Cardinality(counted) = Cardinality(grouped)
      /\ counted = {} => grouped = {}
      /\ ~(Cardinality(counted) >= limit) => counted = asked /\ grouped = asked
  BY <1>1, LimitedAre
<1>3. /\ page.global = Tally(counted)
      /\ webs = IF counted = {} THEN <<>> ELSE WebStats(grouped)
      /\ page.hasMore <=> Cardinality(counted) >= limit
  <2>1. CASE counted = {}
    <3>1. Cardinality(counted) = 0 BY <2>1, FS_EmptySet
    <3> QED BY <2>1, <3>1 DEF ValidatorPage, EmptyPage
  <2>2. CASE counted # {} BY <2>2 DEF ValidatorPage
  <2> QED BY <2>1, <2>2
<1> HIDE DEF page
<1>4. /\ DOMAIN webs = sites
      /\ \A s \in sites : /\ webs[s].count = Tally(OnSite(grouped, s))
                          /\ DOMAIN webs[s].useCases = cases(s)
                          /\ \A c \in cases(s) :
                               webs[s].useCases[c].count = Tally(OfUseCase(grouped, s, c))
  <2>1. CASE counted = {}
    <3>1. webs = <<>> /\ grouped = {} BY <1>2, <1>3, <2>1
    <3> HIDE DEF webs
    <3>2. DOMAIN webs = {} BY <3>1
    <3> QED BY <3>1, <3>2
  <2>2. CASE counted # {}
    <3>1. webs = WebStats(grouped) BY <1>3, <2>2
    <3> HIDE DEF webs
    <3> QED BY <1>2, <3>1, WebStatsAre
  <2> QED BY <2>1, <2>2
<1> HIDE DEF webs
<1>5. IsFiniteSet(sites) /\ \A s : IsFiniteSet(OnSite(grouped, s)) /\ IsFiniteSet(cases(s))
  <2>1. ASSUME NEW some, IsFiniteSet(some), NEW table
        PROVE  IsFiniteSet({table[e[2]] : e \in some})
    <3> DEFINE f == [e \in some |-> table[e[2]]]
               values == {f[e] : e \in some}
    <3>1. f = [e \in some |-> f[e]] /\ values = {table[e[2]] : e \in some} OBVIOUS
    <3> HIDE DEF f
    <3>2. IsFiniteSet(values) BY <2>1, <3>1, ValuesAreCounted
    <3> HIDE DEF values
    <3> QED BY <3>1, <3>2
  <2>2. \A s : OnSite(grouped, s) \in SUBSET grouped BY DEF OnSite
  <2>3. \A s : IsFiniteSet(OnSite(grouped, s)) BY <1>2, <2>2, FS_Subset
  <2> QED BY <1>2, <2>1, <2>3
<1>6. \A e \in grouped : Score[e] \in Int BY <1>1, <1>2
<1>7. /\ Across(webs, "total") = Cardinality(grouped)
      /\ Across(webs, "success") = Cardinality({e \in grouped : Score[e] >= 50})
  <2> DEFINE share == [s \in sites |-> OnSite(grouped, s)]
  <2>1. \A s \in sites : share[s] \subseteq grouped /\ webs[s].count = Tally(share[s])
    BY <1>4 DEF OnSite
  <2>2. \A s, z \in sites : s # z => share[s] \cap share[z] = {} BY DEF OnSite
  <2>3. \A e \in grouped : \E s \in sites : e \in share[s] BY DEF OnSite
  <2> HIDE DEF share, sites
  <2>4. DOMAIN webs = sites BY <1>4
  <2>5. IsFiniteSet(grouped) /\ IsFiniteSet(sites) BY <1>2, <1>5
  <2> QED BY ONLY <1>6, <2>1, <2>2, <2>3, <2>4, <2>5, TalliesAddUp
<1>8. ASSUME NEW s \in sites
      PROVE  /\ webs[s].count.total = webs[s].count.success + webs[s].count.zero
             /\ webs[s].count.total = Across(webs[s].useCases, "total")
             /\ webs[s].count.success = Across(webs[s].useCases, "success")
  <2> DEFINE here == OnSite(grouped, s)
             keys == cases(s)
             parts == webs[s].useCases
             share == [c \in keys |-> OfUseCase(grouped, s, c)]
  <2>1. IsFiniteSet(here) /\ IsFiniteSet(keys) /\ \A e \in here : Score[e] \in Int
    BY <1>5, <1>6 DEF OnSite
  <2>2. webs[s].count = Tally(here) /\ DOMAIN parts = keys BY <1>4
  <2>3. \A c \in keys : share[c] \subseteq here /\ parts[c].count = Tally(share[c])
    BY <1>4 DEF OfUseCase
  <2>4. \A c, d \in keys : c # d => share[c] \cap share[d] = {} BY DEF OfUseCase
  <2>5. \A e \in here : \E c \in keys : e \in share[c] BY DEF OfUseCase
  <2> HIDE DEF here, keys, share, parts
  <2>6. /\ Across(parts, "total") = Cardinality(here)
        /\ Across(parts, "success") = Cardinality({e \in here : Score[e] >= 50})
    BY ONLY <2>1, <2>2, <2>3, <2>4, <2>5, TalliesAddUp
  <2>7. Tally(here).total = Tally(here).success + Tally(here).zero BY <2>1, TallyIsWhole
  <2>8. Tally(here).total = Cardinality(here)
        /\ Tally(here).success = Cardinality({e \in here : Score[e] >= 50})
    BY DEF Tally
  <2> QED BY <2>2, <2>6, <2>7, <2>8 DEF parts
<1>9. ASSUME ~page.hasMore
      PROVE  /\ page.global.success = Across(webs, "success")
             /\ page.global.success
                  = Cardinality({e \in asked : EvaluationPage(e).status = "completed"})
             /\ \A s \in DOMAIN webs : /\ webs[s].count = Tally(OnSite(asked, s))
                                       /\ \E e \in asked : Site[e[2]] = s
  <2>1. counted = asked /\ grouped = asked BY <1>2, <1>3, <1>9
  <2>2. page.global.success = Cardinality({e \in asked : Score[e] >= 50}) BY <1>3, <2>1 DEF Tally
  <2>3. {e \in asked : EvaluationPage(e).status = "completed"} = {e \in asked : Score[e] >= 50}
    BY DEF EvaluationPage, TaskStatus
  <2> QED BY <1>4, <1>7, <2>1, <2>2, <2>3
<1>10. page.global.total = Across(webs, "total")
  <2> QED BY <1>2, <1>3, <1>7 DEF Tally
<1> QED BY <1>4, <1>8, <1>9, <1>10 DEF page, webs, PageSums

(* There are finitely many evaluations: every run was written by a request.*)
LEMMA EvaluationsStayFinite == OutcomeSpec => [](IsFiniteSet(runs) /\ IsFiniteSet(evals))
<1>1. Init => IsFiniteSet(runs) BY FS_EmptySet DEF Init
<1>2. IsFiniteSet(runs) /\ [Next]_vars => IsFiniteSet(runs)'
  <2> SUFFICES ASSUME IsFiniteSet(runs), [Next]_vars PROVE IsFiniteSet(runs') OBVIOUS
  <2>1. runs' = runs \/ \E r : runs' = runs \cup {r}
    BY DEF Next, vars, stored, SetTasks, WriteTasks, StartRun, AddEvaluation,
           AddEvaluationsBatch, WriteRun, InsertEvaluation, ReleaseFails, SkipEvaluation,
           CommitEvaluations, FinishRuns, FinishEvaluations, CommitFinish, Fail
  <2> QED BY <2>1, FS_AddElement
<1>3. TypeOK /\ IsFiniteSet(runs) => IsFiniteSet(evals)
  <2> SUFFICES ASSUME TypeOK, IsFiniteSet(runs) PROVE IsFiniteSet(evals) OBVIOUS
  <2>1. IsFiniteSet(tasks) BY TasksAreFinite, FS_Subset DEF TypeOK
  <2>2. IsFiniteSet(runs \X tasks) BY <2>1, FS_Product
  <2> QED BY <2>2, FS_Subset DEF TypeOK
<1> QED BY <1>1, <1>2, <1>3, OutcomeRefinesIngestion, TypeCorrectness, PTL DEF Spec

(* The page of a validator always adds up, whichever evaluations its two   *)
(* statements return, however requests interleave.                         *)
THEOREM ValidatorPageAlwaysAddsUp == OutcomeSpec => []ValidatorPageAddsUp
<1>1. ASSUME TypeOK, IsFiniteSet(evals),
             NEW site, NEW useCase, NEW limit \in {1, Cardinality(evals) + 1},
             NEW counted \in Limited(Asked(site, useCase), limit),
             NEW grouped \in Limited(Asked(site, useCase), limit)
      PROVE  PageSums(ValidatorPage(counted, grouped, limit), Asked(site, useCase))
  <2>1. Asked(site, useCase) \in SUBSET evals BY DEF Asked
  <2>2. \A e \in evals : Score[e] \in Int
    <3>1. evals \subseteq runs \X tasks /\ tasks \subseteq Tasks /\ runs \subseteq Runs
      BY <1>1 DEF TypeOK
    <3> QED BY <3>1, Scores
  <2>3. limit \in Nat \ {0} BY <1>1, FS_CardinalityType
  <2> QED BY <1>1, <2>1, <2>2, <2>3, PageAddsUp
<1>2. ASSUME NEW site, NEW s, s # Null, \E e \in Asked(site, Null) : Site[e[2]] = s
      PROVE  OnSite(Asked(site, Null), s) = Asked(s, Null)
  <2>1. site \in {Null, s} BY <1>2 DEF Asked
  <2> QED BY <1>2, <2>1 DEF Asked, OnSite
<1>3. TypeOK /\ IsFiniteSet(evals) => ValidatorPageAddsUp
  <2> SUFFICES ASSUME TypeOK, IsFiniteSet(evals),
                      NEW site \in Sites \cup {Null},
                      NEW useCase \in {UseCase[t] : t \in Tasks} \cup {Null},
                      NEW limit \in {1, Cardinality(evals) + 1},
                      NEW counted \in Limited(Asked(site, useCase), limit),
                      NEW grouped \in Limited(Asked(site, useCase), limit)
               PROVE  LET page == ValidatorPage(counted, grouped, limit)
                          webs == page.webs
                          asked == Asked(site, useCase)
                      IN
                      /\ page.global.total = Across(webs, "total")
                      /\ \A s \in DOMAIN webs :
                             /\ webs[s].count.total = webs[s].count.success + webs[s].count.zero
                             /\ webs[s].count.total = Across(webs[s].useCases, "total")
                             /\ webs[s].count.success = Across(webs[s].useCases, "success")
                      /\ ~page.hasMore =>
                             /\ page.global.success = Across(webs, "success")
                             /\ page.global.success = Cardinality(
                                  {e \in asked : EvaluationPage(e).status = "completed"})
                             /\ useCase = Null =>
                                    \A s \in DOMAIN webs \ {Null} :
                                        webs[s].count = Tally(Asked(s, Null))
    BY DEF ValidatorPageAddsUp, Across
  <2> DEFINE page == ValidatorPage(counted, grouped, limit)
  <2>1. PageSums(page, Asked(site, useCase)) BY <1>1
  <2> HIDE DEF page
  <2>2. ASSUME ~page.hasMore, useCase = Null, NEW s \in DOMAIN page.webs \ {Null}
        PROVE  page.webs[s].count = Tally(Asked(s, Null))
    BY <1>2, <2>1, <2>2 DEF PageSums
  <2> QED BY <2>1, <2>2 DEF PageSums, page
<1> QED BY <1>3, EvaluationsStayFinite, OutcomeRefinesIngestion, TypeCorrectness, PTL

----------------------------------------------------------------------------
(* Searches and catalogues, page after page.                               *)

(* The catalogue of runs loses nothing, and its statuses share the runs.   *)
LEMMA CatalogTilesWhenFinite == IsFiniteSet(runs) /\ runs \subseteq Runs => CatalogTiles
<1> SUFFICES ASSUME IsFiniteSet(runs), runs \subseteq Runs,
                    NEW order \in RunOrders, NEW limit \in 1..2, NEW m \in Miners \cup {Null}
             PROVE  LET turned == 1..(Cardinality(runs) + 1)
                        pages(s) == [n \in turned |-> Catalog(m, s, order, n, limit).runs]
                        total(s) == Catalog(m, s, order, 1, limit).total
                        asked == {r \in runs : m \in {Null, Miner[r]}}
                        wanted(s) == {r \in asked : s \in {Null, ListStatus(r)}}
                    IN
                    /\ \A s \in Statuses \cup {Null} :
                           /\ EachOnOnePage(pages(s), wanted(s))
                           /\ ByTheirKeys(pages(s), wanted(s), wanted(s), order.key, limit)
                           /\ \A n \in 1..Cardinality(runs) :
                                  Cardinality(pages(s)[n]) < limit => pages(s)[n + 1] = {}
                    /\ SumOver([s \in Statuses |-> total(s)], Statuses) = Cardinality(asked)
                    /\ m = Null => \A n \in turned :
                           RoundRuns(order, limit, (n - 1) * limit) = pages(Null)[n]
  BY DEF CatalogTiles
<1> DEFINE size == Cardinality(runs)
           asked == {r \in runs : m \in {Null, Miner[r]}}
           wanted(s) == {r \in asked : s \in {Null, ListStatus(r)}}
           pages(s) == [n \in 1..(size + 1) |-> Catalog(m, s, order, n, limit).runs]
           total(s) == Catalog(m, s, order, 1, limit).total
<1>1. size \in Nat BY FS_CardinalityType
<1>2. IsOrder(order, Runs) BY RunOrdersAre
<1>3. ASSUME NEW s, NEW n
      PROVE  Catalog(m, s, order, n, limit) = [runs |-> PageIn(wanted(s), order, n, limit),
                                               total |-> Cardinality(wanted(s))]
  <2>1. {r \in runs : m \in {Null, Miner[r]} /\ s \in {Null, ListStatus(r)}} = wanted(s)
    OBVIOUS
  <2> QED BY <2>1 DEF Catalog
<1>4. ASSUME NEW s
      PROVE  /\ wanted(s) \in SUBSET Runs /\ wanted(s) \in SUBSET runs
             /\ IsFiniteSet(wanted(s)) /\ Cardinality(wanted(s)) <= size
  <2>1. wanted(s) \in SUBSET runs OBVIOUS
  <2> HIDE DEF wanted
  <2> QED BY <2>1, FS_Subset
<1>5. ASSUME NEW s, NEW n \in 1..(size + 1)
      PROVE  pages(s)[n] = PageIn(wanted(s), order, n, limit)
  <2> HIDE DEF wanted
  <2> QED BY <1>3
<1>6. SumOver([s \in Statuses |-> total(s)], Statuses) = Cardinality(asked)
  <2> DEFINE count == [s \in Statuses |-> total(s)]
             share == [s \in Statuses |-> wanted(s)]
  <2>1. IsFiniteSet(asked) BY FS_Subset
  <2>2. IsFiniteSet(Statuses)
    <3>1. Statuses = ({"running"} \cup {"completed"}) \cup ({"failed"} \cup {"timeout"})
      BY DEF Statuses
    <3> QED BY <3>1, FS_Singleton, FS_Union
  <2>3. \A s \in Statuses : count[s] = Cardinality(share[s])
    <3> HIDE DEF wanted
    <3> QED BY <1>3
  <2>4. \A s \in Statuses : share[s] = {r \in asked : ListStatus(r) = s}
    BY NullIsNoRow
  <2>5. \A r \in runs : ListStatus(r) \in Statuses BY DEF ListStatus, Statuses
  <2>6. /\ \A s \in Statuses : share[s] \subseteq asked
        /\ \A s, t \in Statuses : s # t => share[s] \cap share[t] = {}
        /\ \A r \in asked : \E s \in Statuses : r \in share[s]
    <3> HIDE DEF share
    <3> QED BY <2>4, <2>5
  <2> HIDE DEF count, share, asked
  <2>7. SumOver(count, Statuses) = Cardinality(asked) BY <2>1, <2>2, <2>3, <2>6, SharesAddUp
  <2> QED BY <2>7 DEF count
<1>7. ASSUME NEW s \in Statuses \cup {Null}
      PROVE  /\ EachOnOnePage(pages(s), wanted(s))
             /\ ByTheirKeys(pages(s), wanted(s), wanted(s), order.key, limit)
             /\ \A n \in 1..size : Cardinality(pages(s)[n]) < limit => pages(s)[n + 1] = {}
  <2> DEFINE some == wanted(s)
             cut == pages(s)
  <2>1. DOMAIN cut = 1..(size + 1) OBVIOUS
  <2>2. \A k \in 1..(size + 1) : cut[k] = PageIn(some, order, k, limit) BY <1>5
  <2>3. some \in SUBSET Runs /\ IsFiniteSet(some) /\ Cardinality(some) <= size BY <1>4
  <2> HIDE DEF some, cut, size
  <2>4. \A k \in 1..(size + 1) : cut[k] = {e \in some : e \in PageIn(some, order, k, limit)}
    BY <2>2 DEF PageIn, Cut
  <2>5. some \in SUBSET some OBVIOUS
  <2>6. EachOnOnePage(cut, some) /\ ByTheirKeys(cut, some, some, order.key, limit)
    BY ONLY <1>1, <1>2, <2>1, <2>3, <2>4, <2>5, limit \in 1..2, PagesTurned
  <2>7. ASSUME NEW n \in 1..size, Cardinality(cut[n]) < limit PROVE cut[n + 1] = {}
    <3>1. n \in Nat \ {0} /\ n \in 1..(size + 1) /\ n + 1 \in 1..(size + 1) BY <1>1
    <3>2. Cardinality(PageIn(some, order, n, limit)) < limit BY <2>2, <2>7, <3>1
    <3>3. PageIn(some, order, n + 1, limit) = {} BY <1>2, <2>3, <3>1, <3>2, PagesFill
    <3> QED BY <2>2, <3>1, <3>3
  <2> QED BY <2>6, <2>7 DEF some, cut
<1>8. ASSUME m = Null, NEW n \in 1..(size + 1)
      PROVE  RoundRuns(order, limit, (n - 1) * limit) = pages(Null)[n]
  <2>1. wanted(Null) = runs BY <1>8
  <2>2. pages(Null)[n] = PageIn(wanted(Null), order, n, limit) BY <1>5
  <2> HIDE DEF pages, wanted
  <2> QED BY <2>1, <2>2 DEF RoundRuns, PageIn
<1> QED BY <1>6, <1>7, <1>8

(* Whoever turns the pages of a search sees what it is for.                *)
LEMMA SearchPagesTileWhenFinite == TypeOK /\ IsFiniteSet(evals) => SearchPagesTile
<1> SUFFICES ASSUME TypeOK, IsFiniteSet(evals),
                    NEW order \in EvaluationOrders, NEW limit \in 1..2
             PROVE  LET turned == 1..(Cardinality(evals) + 1)
                        byList(r) == [n \in turned |-> EvaluationList(r, order, n, limit)]
                        byRun(r) == [n \in turned |-> LightList(r, Null, order, n, limit).tasks]
                        byMiner(m) == [n \in turned |->
                                           LightList(Null, m, order, n, limit).tasks]
                        outside(s) == [n \in turned |-> ExternalList(s, order, n, limit)]
                        tile(pages, wanted, some) ==
                            /\ EachOnOnePage(pages, wanted)
                            /\ ByTheirKeys(pages, wanted, some, order.key, limit)
                    IN
                    /\ \A r \in runs : /\ tile(byList(r), EntriesOf(r), EntriesOf(r))
                                       /\ tile(byRun(r), EntriesOf(r), evals)
                    /\ \A m \in {Miner[r] : r \in runs} :
                           /\ tile(byMiner(m), EvaluationsOf(m), EvaluationsOf(m))
                           /\ LightList(Null, m, order, 1, limit).total
                                = Cardinality(EvaluationsOf(m))
                    /\ \A s \in Sites \cap Ported :
                           tile(outside(s), ExternalOf(s), ExternalOf(s))
  BY DEF SearchPagesTile
<1> DEFINE size == Cardinality(evals)
           entries == Runs \X Tasks
           Tile(pages, wanted, some) ==
               /\ EachOnOnePage(pages, wanted)
               /\ ByTheirKeys(pages, wanted, some, order.key, limit)
<1>1. size \in Nat /\ evals \in SUBSET entries BY FS_CardinalityType DEF TypeOK
<1>2. IsOrder(order, entries) BY EvaluationOrdersAre
<1> HIDE DEF size, entries
<1>3. ASSUME NEW some \in SUBSET evals, NEW wanted \in SUBSET some, NEW pages,
             DOMAIN pages = 1..(size + 1),
             \A k \in 1..(size + 1) :
                 pages[k] = {e \in wanted : e \in PageIn(some, order, k, limit)}
      PROVE  Tile(pages, wanted, some)
  <2>1. some \in SUBSET entries BY <1>1
  <2>2. IsFiniteSet(some) /\ Cardinality(some) <= size BY FS_Subset DEF size
  <2> QED BY ONLY <1>1, <1>2, <1>3, <2>1, <2>2, limit \in 1..2, PagesTurned
<1>4. ASSUME NEW some \in SUBSET evals, NEW pages, DOMAIN pages = 1..(size + 1),
             \A k \in 1..(size + 1) : pages[k] = PageIn(some, order, k, limit)
      PROVE  Tile(pages, some, some)
  <2>1. \A k \in 1..(size + 1) : pages[k] = {e \in some : e \in PageIn(some, order, k, limit)}
    BY <1>4 DEF PageIn, Cut
  <2>2. some \in SUBSET some OBVIOUS
  <2> HIDE DEF Tile
  <2> QED BY ONLY <1>3, <1>4, <2>1, <2>2
<1>5. \A r \in Runs : EntriesOf(r) = {e \in evals : e[1] = r}
  <2> SUFFICES ASSUME NEW r \in Runs PROVE EntriesOf(r) = {e \in evals : e[1] = r} OBVIOUS
  <2>1. \A e \in evals : e = <<e[1], e[2]>> /\ e[2] \in Tasks BY DEF TypeOK
  <2> QED BY <2>1 DEF EntriesOf, Evaluated
<1>6. runs \subseteq Runs BY DEF TypeOK
<1> HIDE DEF Tile
<1>7. ASSUME NEW r \in runs
      PROVE  Tile([n \in 1..(size + 1) |-> EvaluationList(r, order, n, limit)],
                  EntriesOf(r), EntriesOf(r))
  <2> DEFINE pages == [n \in 1..(size + 1) |-> EvaluationList(r, order, n, limit)]
  <2>1. EntriesOf(r) \in SUBSET evals BY <1>5, <1>6
  <2>2. \A k \in 1..(size + 1) : pages[k] = PageIn(EntriesOf(r), order, k, limit)
    BY DEF EvaluationList
  <2>3. DOMAIN pages = 1..(size + 1) OBVIOUS
  <2> HIDE DEF pages
  <2>4. Tile(pages, EntriesOf(r), EntriesOf(r)) BY ONLY <1>4, <2>1, <2>2, <2>3
  <2> QED BY <2>4 DEF pages
<1>8. ASSUME NEW r \in runs
      PROVE  Tile([n \in 1..(size + 1) |-> LightList(r, Null, order, n, limit).tasks],
                  EntriesOf(r), evals)
  <2> DEFINE pages == [n \in 1..(size + 1) |-> LightList(r, Null, order, n, limit).tasks]
  <2>1. EntriesOf(r) \in SUBSET evals /\ EntriesOf(r) = {e \in evals : e[1] = r}
    BY <1>5, <1>6
  <2>2. r # Null BY <1>6, NullIsNoRow
  <2>3. EvaluationsOf(Null) = evals BY DEF EvaluationsOf
  <2>4. \A k : LightList(r, Null, order, k, limit).tasks
                 = {e \in PageIn(evals, order, k, limit) : r \in {Null, e[1]}}
    BY <2>3 DEF LightList
  <2>5. \A k : PageIn(evals, order, k, limit) \subseteq evals BY DEF PageIn, Cut
  <2>6. \A k : LightList(r, Null, order, k, limit).tasks
                 = {e \in EntriesOf(r) : e \in PageIn(evals, order, k, limit)}
    BY <2>1, <2>2, <2>4, <2>5
  <2>7. /\ DOMAIN pages = 1..(size + 1)
        /\ \A k \in 1..(size + 1) :
               pages[k] = {e \in EntriesOf(r) : e \in PageIn(evals, order, k, limit)}
    BY <2>6
  <2>8. evals \in SUBSET evals OBVIOUS
  <2> HIDE DEF pages
  <2>9. Tile(pages, EntriesOf(r), evals) BY ONLY <1>3, <2>1, <2>7, <2>8
  <2> QED BY <2>9 DEF pages
<1>9. ASSUME NEW r \in runs
      PROVE  LET m == Miner[r] IN
             /\ Tile([n \in 1..(size + 1) |-> LightList(Null, m, order, n, limit).tasks],
                     EvaluationsOf(m), EvaluationsOf(m))
             /\ LightList(Null, m, order, 1, limit).total = Cardinality(EvaluationsOf(m))
  <2> DEFINE m == Miner[r]
             some == EvaluationsOf(m)
             pages == [n \in 1..(size + 1) |-> LightList(Null, m, order, n, limit).tasks]
  <2>1. some \in SUBSET evals BY DEF EvaluationsOf
  <2> HIDE DEF some, m
  <2>2. \A k : LightList(Null, m, order, k, limit)
                 = [tasks |-> {e \in PageIn(some, order, k, limit) : Null \in {Null, e[1]}},
                    total |-> IF PageIn(some, order, k, limit) = {} THEN 0
                              ELSE Cardinality(some)]
    BY DEF LightList, some
  <2>3. \A k : LightList(Null, m, order, k, limit).tasks = PageIn(some, order, k, limit)
    BY <2>2
  <2>4. DOMAIN pages = 1..(size + 1)
        /\ \A k \in 1..(size + 1) : pages[k] = PageIn(some, order, k, limit)
    BY <2>3
  <2>5. LightList(Null, m, order, 1, limit).total = Cardinality(some)
    <3>1. some \in SUBSET entries /\ IsFiniteSet(some) BY <1>1, <2>1, FS_Subset
    <3>2. some # {} => PageIn(some, order, 1, limit) # {}
      BY ONLY <1>2, <3>1, limit \in 1..2, PagesFill
    <3>3. some = {} => Cardinality(some) = 0 BY FS_EmptySet
    <3> QED BY <2>2, <3>2, <3>3
  <2> HIDE DEF pages
  <2>6. Tile(pages, some, some) BY ONLY <1>4, <2>1, <2>4
  <2> QED BY <2>5, <2>6 DEF pages, some, m
<1>10. ASSUME NEW s \in Sites \cap Ported
       PROVE  Tile([n \in 1..(size + 1) |-> ExternalList(s, order, n, limit)],
                   ExternalOf(s), ExternalOf(s))
  <2> DEFINE some == ExternalOf(s)
             pages == [n \in 1..(size + 1) |-> ExternalList(s, order, n, limit)]
  <2>1. some \in SUBSET evals BY DEF ExternalOf
  <2>2. \A k : ExternalList(s, order, k, limit) = PageIn(some, order, k, limit)
    BY DEF ExternalList
  <2> HIDE DEF some
  <2>3. DOMAIN pages = 1..(size + 1)
        /\ \A k \in 1..(size + 1) : pages[k] = PageIn(some, order, k, limit)
    BY <2>2
  <2> HIDE DEF pages
  <2>4. Tile(pages, some, some) BY ONLY <1>4, <2>1, <2>3
  <2> QED BY <2>4 DEF pages, some
<1>11. ASSUME NEW m \in {Miner[r] : r \in runs}
       PROVE  /\ Tile([n \in 1..(size + 1) |-> LightList(Null, m, order, n, limit).tasks],
                      EvaluationsOf(m), EvaluationsOf(m))
              /\ LightList(Null, m, order, 1, limit).total = Cardinality(EvaluationsOf(m))
  BY <1>9
<1> QED BY <1>7, <1>8, <1>10, <1>11 DEF Tile, size

(* The pages of tasks lose nothing when they are turned, judge alike and   *)
(* add up, however the requests of any number of workers interleave.       *)
THEOREM TaskPagesAlwaysAgree == OutcomeSpec => []TaskPagesAgree
<1>1. /\ TypeOK /\ IsFiniteSet(runs) /\ IsFiniteSet(evals) /\ VerdictsAgree
      /\ ValidatorPageAddsUp
      => TaskPagesAgree
  <2>1. TypeOK => runs \subseteq Runs BY DEF TypeOK
  <2> QED BY <2>1, CatalogTilesWhenFinite, SearchPagesTileWhenFinite DEF TaskPagesAgree
<1> QED BY <1>1, EvaluationsStayFinite, VerdictsAlwaysAgree, ValidatorPageAlwaysAddsUp,
           OutcomeRefinesIngestion, TypeCorrectness, PTL

============================================================================
