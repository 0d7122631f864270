--------------------------- MODULE MCMediaStorage ---------------------------
(* Instances of MediaStorage for TLC.                                      *)
EXTENDS MediaStorage, TLC

CONSTANTS v1, v2, r1, t1

MCRunRound == r1 :> v1
MCTaskRound == t1 :> v1

=============================================================================
