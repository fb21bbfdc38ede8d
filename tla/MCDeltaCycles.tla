---------------------------- MODULE MCDeltaCycles ----------------------------
(* Two workers racing for the lock, as model values for TLC.                *)
EXTENDS DeltaCycles

CONSTANTS w1, w2, pr1, pr2
=============================================================================
