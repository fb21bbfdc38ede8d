----------------------------- MODULE I7SignOff -----------------------------
(* What the approval chain promises about each recommendation row, whatever  *)
(* the requests do to each other: roles sign, and a row is released for      *)
(* manual execution in SAP only once every role of its route has signed it   *)
(* (app/initiatives/i7/recommendations/types.py, OAR_APPROVAL_CHAIN).        *)
EXTENDS FiniteSets

CONSTANTS
    Ids,      \* rows
    Roles,    \* who may sign
    Needed    \* the roles of the route

VARIABLES
    signed,   \* per row, the roles that have signed it
    final     \* the rows released for execution

Init == signed = [n \in Ids |-> {}] /\ final = {}

Release(n) == Needed \subseteq signed'[n] /\ final' = final \cup {n}
Withdraw(n) == final' = final \ {n}

\* One role signs one row, and the row may be released, or withdrawn by a
\* decision taken before.
Sign(n, role) ==
    /\ signed' = [signed EXCEPT ![n] = @ \cup {role}]
    /\ Release(n) \/ Withdraw(n) \/ UNCHANGED final

\* A decision that is not a signature.
Decide(n) ==
    /\ UNCHANGED signed
    /\ Release(n) \/ Withdraw(n)

Next == \E n \in Ids : Decide(n) \/ \E role \in Roles : Sign(n, role)

Spec == Init /\ [][Next]_<<signed, final>>
=============================================================================
