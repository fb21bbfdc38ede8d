--------------------------- MODULE MCI7Approvals ---------------------------
(* A chain of two roles and two requests at once for TLC.                    *)
EXTENDS I7Approvals, TLC

TwoRoles == {"controller", "head"}
TwoSteps == <<"controller", "head">>
AnyRequest == Permutations(Requests)
=============================================================================
