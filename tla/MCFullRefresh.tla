---------------------------- MODULE MCFullRefresh ----------------------------
(* An item table and a schedule table read through its window, for TLC.      *)
EXTENDS FullRefresh
=============================================================================
