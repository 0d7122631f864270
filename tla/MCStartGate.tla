---------------------------- MODULE MCStartGate ----------------------------
(* Instances of StartGate for TLC: a round takes one block, or three.     *)
EXTENDS StartGate

MCRoundBlocks == [c \in Configs |-> IF c = "short" THEN 1 ELSE 3]
=============================================================================
