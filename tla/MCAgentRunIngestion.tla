------------------------ MODULE MCAgentRunIngestion ------------------------
(* Instances of AgentRunIngestion for TLC: runs 1 and 2 evaluate the same  *)
(* miner, run 3 another one. A finish payload may say something of the     *)
(* first miner.                                                            *)
EXTENDS AgentRunIngestion, Integers

MCMiner == [r \in Runs |-> IF r = 3 THEN "other" ELSE "one"]
MCLocals == {<<>>} \cup [{"one"} -> Declared]

=============================================================================
