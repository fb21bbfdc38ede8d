---------------------------- MODULE MCI7Pipeline ----------------------------
(* Two instances over two loads for TLC.  Of the five stages after staging   *)
(* the first and the last are kept.                                          *)
EXTENDS I7Pipeline, TLC

TwoStages == <<"features", "recommendations">>
StageReads == [features |-> {"staging"}, recommendations |-> {"features"}]
AnyInstance == Permutations(Instances)
=============================================================================
