------------------------- MODULE MCCanonicalRounds -------------------------
(* Instances of CanonicalRounds for TLC: validator 1 is the main one, 2    *)
(* and 3 are backups with the stake below, so that 3 outranks 2.           *)
EXTENDS RoundViews

MCStake == [v \in Validators |-> IF v = 1 THEN 9 ELSE v]

=============================================================================
