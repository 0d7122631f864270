---------------------------- MODULE MCRunOutcome ----------------------------
(* Instances of RunOutcome and its views for TLC: runs 1 and 2 evaluate    *)
(* the same miner, run 3 another one.                                      *)
EXTENDS TaskViews

MCMiner == [r \in Runs |-> IF r = 3 THEN "other" ELSE "one"]

(* The first task fails in a run of the first miner, the last one times    *)
(* out in the other runs; every other evaluation passes.                   *)
CONSTANTS t1, t3
MCTimedOut == {e \in Runs \X Tasks : e[2] = t3 /\ e[1] # 2}
MCScore == [e \in Runs \X Tasks |->
               IF e \in MCTimedOut \/ (e[2] = t1 /\ e[1] # 3) THEN 0 ELSE 100]

(* A finish lists a run of each miner and leaves run 2 out.                *)
MCReports ==
    {[r \in {1, 3} |-> IF r = 1 THEN [reason |-> "none", attempted |-> Null]
                       ELSE [reason |-> "over_cost_limit", attempted |-> 1]]}

(* The first miner's run is said to have solved one of three tasks, the    *)
(* other one's to have tried none and to have scored nothing.              *)
Solved == [received |-> 3, success |-> 1, attempted |-> 3, score |-> Null]
Stopped == [received |-> 0, success |-> 0, attempted |-> 0, score |-> 0]
MCDeclared == {Solved, Stopped}
MCLocals == {<<>>, [m \in Miners |-> IF m = "one" THEN Solved ELSE Stopped]}

(* A search by the score, which many share, and one by the id; two orders  *)
(* of runs of which two share a start.                                     *)
Number(t) == CASE t = t1 -> 1 [] t = t3 -> 3 [] OTHER -> 2
MCIds == [e \in Runs \X Tasks |-> 10 * e[1] + Number(e[2])]
MCEvaluationOrders ==
    {[key |-> MCScore, tie |-> [e \in Runs \X Tasks |-> -MCIds[e]]],
     [key |-> MCIds, tie |-> MCIds]}
MCRunOrders ==
    {[key |-> [r \in Runs |-> IF r = 1 THEN 1 ELSE 0], tie |-> [r \in Runs |-> -r]],
     [key |-> [r \in Runs |-> IF r = 1 THEN 1 ELSE 0], tie |-> [r \in Runs |-> r]]}

MCUseCase == [t \in Tasks |-> IF t = t1 THEN "add" ELSE Null]
MCSite == [t \in Tasks |-> IF t = t1 THEN "books" ELSE "movies"]

=============================================================================
