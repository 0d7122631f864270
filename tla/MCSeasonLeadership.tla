------------------------ MODULE MCSeasonLeadership ------------------------
(***************************************************************************)
(* Instances of SeasonLeadership and BoardViews for TLC: validator 1 is    *)
(* the main one, and the miners are 1 and 2.                               *)
(***************************************************************************)
EXTENDS BoardViews

Bare == [reported |-> FALSE, before |-> None, candidate |-> None, after |-> None,
         dethroned |-> FALSE]
With(rewards, ranked, fields) ==
    [f \in DOMAIN Bare \cup {"rewards", "ranks"} |->
        IF f = "rewards" THEN rewards ELSE IF f = "ranks" THEN ranked
        ELSE IF f \in DOMAIN fields THEN fields[f] ELSE Bare[f]]
Pair(first, second) == [m \in Miners |-> IF m = 1 THEN first ELSE second]
Leader(m, x) == [uid |-> m, reward |-> x]

(* Nothing to rank; a payload without a summary; and one that lets 2       *)
(* dethrone 1 without beating the threshold.                               *)
MCReports == {
    With([m \in {} |-> 0], [m \in {} |-> 0], Bare),
    With(Pair(3, 1), Pair(1, 2), [reported |-> TRUE]),
    With(Pair(2, 3), Pair(2, 1), [reported |-> TRUE, before |-> Leader(1, 2), candidate |-> 2,
                                  after |-> Leader(2, 3), dethroned |-> TRUE]) }

MCRestarting == {<<1, 1>>}
=============================================================================
