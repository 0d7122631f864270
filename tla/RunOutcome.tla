----------------------------- MODULE RunOutcome -----------------------------
(***************************************************************************)
(* How an agent run ends: the reason stored for a run that scores nothing, *)
(* the number of tasks it attempted and whether it has an end. The columns *)
(* are written by the transactions of AgentRunIngestion, whose actions are *)
(* extended here by what they do to these columns.                         *)
(*                                                                         *)
(* A transaction loads the row of a run before it changes it, and only     *)
(* what differs from the loaded value is written.                          *)
(***************************************************************************)
EXTENDS AgentRunIngestion, FiniteSets, Integers

CONSTANTS
    Score,      \* evaluation_score of each evaluation, in percent
    TimedOut,   \* the evaluations that score nothing because of a timeout
    Expected,   \* the number of tasks the round is configured with
    Reports     \* what finish payloads say of the runs they list

Reasons == {"none", "task_failed", "task_timeout", "over_cost_limit"}

(* A listed run has its reason and, if it is said, how many tasks it tried.*)
(* The local evaluation of a miner says how many tasks its run received,   *)
(* zero if it does not say, how many it solved, tried, and what it scored. *)
Counts == {Null} \cup Nat
Said == [reason : Reasons, attempted : Counts]
Declarations == [received : Nat, success : Nat, attempted : Counts, score : Counts]

ASSUME Scores == /\ Score \in [Runs \X Tasks -> 0..100]
                 /\ \A e \in TimedOut : Score[e] = 0
                 /\ Expected \in Nat \ {0}
                 /\ \A report \in Reports : \A r \in DOMAIN report :
                        r \in Runs /\ report[r] \in Said
                 /\ Declared \subseteq Declarations
                 /\ Null \notin Nat

(* A task list is a list.                                                  *)
ASSUME TasksAreFinite == IsFiniteSet(Tasks)

VARIABLES
    reason,     \* zero_reason of each run
    attempted,  \* tasks_attempted of each run, Null before the first finish
    ended,      \* the runs with an ended_at
    claimed,    \* the runs a finish payload gave a number of tasks
    loaded,     \* per worker: the two columns as it loaded them
    closing     \* per worker: zero_reason of its run in its transaction

columns == <<reason, attempted, ended, claimed>>
outcome == <<columns, loaded, closing>>

Nothing == [reason |-> [r \in Runs |-> "none"], attempted |-> [r \in Runs |-> Null]]

----------------------------------------------------------------------------
(* The numbers of a run that was evaluated on the tasks in seen, and those *)
(* in its statistics s: a payload that says how many tasks there were says *)
(* how many of them passed.                                                *)
Passed(e) == Score[e] > 0
TotalOf(seen) == IF Cardinality(seen) > Expected THEN Cardinality(seen) ELSE Expected
SuccessesOf(r, seen) == Cardinality({t \in seen : Passed(<<r, t>>)})

Declares(s) == s.says # Null /\ s.says.received > 0
TotalIn(s) == IF Declares(s) THEN s.says.received ELSE TotalOf(s.seen)
SuccessesIn(r, s) ==
    IF ~Declares(s) THEN SuccessesOf(r, s.seen)
    ELSE IF s.says.success < s.says.received THEN s.says.success ELSE s.says.received

(* _run_has_zero_score: by the average score or by the successes.          *)
Scored(s) == s.says # Null /\ s.says.score # Null
ScoresNothing(r, s) ==
    \/ SuccessesIn(r, s) = 0
    \/ IF Scored(s) THEN s.says.score = 0 ELSE SuccessesOf(r, s.seen) = 0

DerivedReason(r, seen) ==
    IF \E t \in seen : <<r, t>> \in TimedOut THEN "task_timeout" ELSE "task_failed"

Closed_Never(current, r, s) == current                                  \* mutant
Closed(current, r, s) ==
    IF current = "none" /\ ScoresNothing(r, s) THEN DerivedReason(r, s.seen) ELSE current

----------------------------------------------------------------------------
(* An evaluation closes its run each time: the run has an end and, while   *)
(* nothing has passed, a reason.                                           *)
InsertAndClose(w, t) ==
    LET q == request[w]
        first == q.new = {}
    IN
    /\ InsertEvaluation(w, t)
    /\ loaded' = IF first
                 THEN [loaded EXCEPT ![w] = [reason |-> reason, attempted |-> attempted]]
                 ELSE loaded
    /\ closing' = [closing EXCEPT ![w] =
                     Closed(IF first THEN reason[q.run] ELSE @, q.run, Own(Counted(q, t)))]
    /\ UNCHANGED columns

Forget(w) == loaded' = [loaded EXCEPT ![w] = Nothing] /\ closing' = [closing EXCEPT ![w] = "none"]

CommitAndClose(w) ==
    LET q == request[w] IN
    /\ CommitEvaluations(w)
    /\ reason' = IF q.new # {} /\ closing[w] # loaded[w].reason[q.run]
                 THEN [reason EXCEPT ![q.run] = closing[w]] ELSE reason
    /\ ended' = IF q.new # {} THEN ended \cup {q.run} ELSE ended
    /\ UNCHANGED <<attempted, claimed>>
    /\ Forget(w)

LoadForFinish(w) ==
    /\ FinishRuns(w)
    /\ loaded' = [loaded EXCEPT ![w] = [reason |-> reason, attempted |-> attempted]]
    /\ UNCHANGED <<columns, closing>>

(* finish_round takes the reasons its payload lists and derives one for a  *)
(* run that scores nothing and has none. It gives no run an end.           *)
FinishReason(w, r, report, local) ==
    Closed(IF r \in DOMAIN report THEN report[r].reason ELSE loaded[w].reason[r],
           r, Finished(request[w], r, local))

(* The number of tasks a run tried is the payload's where it lists the run *)
(* or its miner, and the stored one elsewhere; where there is none, or the *)
(* number is zero, all tasks count as tried.                               *)
SaidAttempted(w, r, report, local) ==
    IF r \in DOMAIN report THEN report[r].attempted
    ELSE IF Miner[r] \in DOMAIN local THEN local[Miner[r]].attempted
    ELSE loaded[w].attempted[r]

FinishAttempted(w, r, report, local) ==
    LET said == SaidAttempted(w, r, report, local) IN
    IF said \in {Null, 0} THEN TotalIn(Finished(request[w], r, local)) ELSE said

(* The numbers of tasks of a run are the payload's own.                    *)
Claims(w, r, report, local) ==
    \/ Declares(Finished(request[w], r, local))
    \/ /\ r \in DOMAIN report \/ Miner[r] \in DOMAIN local
       /\ SaidAttempted(w, r, report, local) \notin {Null, 0}

CommitFinishWith(w, report, local) ==
    LET of == request[w].of IN
    /\ CommitFinish(w, local)
    /\ reason' = [r \in Runs |->
           IF r \in of /\ FinishReason(w, r, report, local) # loaded[w].reason[r]
           THEN FinishReason(w, r, report, local) ELSE reason[r]]
    /\ attempted' = [r \in Runs |->
           IF r \in of /\ FinishAttempted(w, r, report, local) # loaded[w].attempted[r]
           THEN FinishAttempted(w, r, report, local) ELSE attempted[r]]
    /\ claimed' = claimed \cup {r \in of : Claims(w, r, report, local)}
    /\ UNCHANGED ended
    /\ Forget(w)

FailAndForget(w) == Fail(w) /\ Forget(w) /\ UNCHANGED columns

OutcomeInit ==
    /\ Init
    /\ reason = Nothing.reason /\ attempted = Nothing.attempted
    /\ ended = {} /\ claimed = {}
    /\ loaded = [w \in Workers |-> Nothing]
    /\ closing = [w \in Workers |-> "none"]

OutcomeNext ==
    \E w \in Workers :
        \/ /\ \/ \E new \in TaskSets : SetTasks(w, new)
              \/ WriteTasks(w)
              \/ \E r \in Runs :
                  \/ StartRun(w, r)
                  \/ \E t \in Tasks : AddEvaluation(w, r, t)
                  \/ \E batch \in Batches : AddEvaluationsBatch(w, r, batch)
              \/ WriteRun(w)
              \/ \E t \in Tasks : ReleaseFails(w, t) \/ SkipEvaluation(w, t)
              \/ FinishEvaluations(w)
           /\ UNCHANGED outcome
        \/ \E t \in Tasks : InsertAndClose(w, t)
        \/ CommitAndClose(w)
        \/ LoadForFinish(w)
        \/ \E report \in Reports, local \in Locals : CommitFinishWith(w, report, local)
        \/ FailAndForget(w)

OutcomeSpec == OutcomeInit /\ [][OutcomeNext]_<<vars, outcome>>

----------------------------------------------------------------------------
(* Properties                                                              *)

Quiet == \A w \in Workers : request[w] = Idle
Total(r) == IF stats[r] = Null THEN 0 ELSE TotalIn(stats[r])
Successes(r) == IF stats[r] = Null THEN 0 ELSE SuccessesIn(r, stats[r])

(* Whatever was evaluated, finished, repeated or failed before, a run with *)
(* statistics that scores nothing has a reason, also where the score is    *)
(* the payload's: "never leave 0 without reason"                           *)
(* (_derive_run_zero_reason_from_evaluations).                             *)
ZeroHasReason ==
    Quiet => \A r \in runs :
        stats[r] # Null /\ ScoresNothing(r, stats[r]) => reason[r] # "none"

=============================================================================
