---------------------------- MODULE I7Approvals ----------------------------
(* The approval chain of one recommendation_id                               *)
(* (app/initiatives/i7/recommendations: workflow, routing, ledger,           *)
(* execution, and the writing half of oar_exclusions).  A request loads the  *)
(* newest row of the label, checks the state machine on what it loaded, and  *)
(* commits later: nothing locks the row, and the commit writes only the      *)
(* columns that differ from the loaded ones.  A regeneration adds a row      *)
(* under the same label.                                                     *)
EXTENDS Integers, Sequences, FiniteSets

CONSTANTS
    Route,       \* the roles routing.route_for gave this recommendation, in order
    Roles,       \* every ApprovalRole
    Requests,    \* requests the API serves at once
    Manual,      \* conversion_eligibility = NOT_ELIGIBLE: a manual conversion
    MaxRows,     \* bound: regenerations of the label
    MaxWork,     \* bound: regenerations and ledger entries together
    MaxEdits     \* bound: rebuilds of the figures

ASSUME ChainAssumption ==
    /\ Route \in Seq(Roles) /\ Route # <<>>
    /\ MaxRows \in Nat \ {0} /\ MaxWork \in Nat /\ MaxEdits \in Nat
    /\ Manual \in BOOLEAN

VARIABLES
    rows,     \* i7_recommendation, the rows of this label by id
    count,    \* rows written so far; the newest has this id
    ledger,   \* i7_approval_ledger, oldest first
    newest,   \* the greatest version in i7_recommendation_version
    edits,    \* committed removals, restorals and syncs; names the figures they wrote
    open,     \* per request: what it loaded and is about to commit
    raced     \* history: rows over which a request committed though they had changed since it loaded them

vars == <<rows, count, ledger, newest, edits, open, raced>>

Ids == 1..MaxRows
Statuses == {"NOT_EVALUABLE", "READY_FOR_REVIEW", "PENDING_APPROVAL", "SENT_BACK", "HELD",
             "REJECTED", "SAP_EXECUTION_PENDING", "SAP_EXECUTED"}
Unsubmitted == {"NOT_EVALUABLE", "READY_FOR_REVIEW"}
Actionable == {"PENDING_APPROVAL", "SENT_BACK"}
InChain == Actionable \cup {"HELD"}
Final == {"SAP_EXECUTION_PENDING", "SAP_EXECUTED"}
EditableStatuses == {"READY_FOR_REVIEW", "SENT_BACK"}
Syncable == EditableStatuses \cup {"NOT_EVALUABLE"}

Actions == {"APPROVE", "REJECT", "SEND_BACK", "ADJUST", "HOLD", "RELEASE_HOLD"}
RequiresComment == {"REJECT", "SEND_BACK", "ADJUST", "HOLD"}

\* One row: where it stands, its version, whether it holds all three values,
\* and which rebuild its figures come from (0: as generated).
Row == [status : Statuses, chain_index : 0..Len(Route), adjustment_count : Nat,
        current_version : Nat, valued : BOOLEAN, figures : 0..MaxEdits]

NoRow == [status |-> "NOT_EVALUABLE", chain_index |-> 0, adjustment_count |-> 0,
          current_version |-> 1, valued |-> FALSE, figures |-> 0]

\* A request that is not being served.
Idle == [what |-> "none"]
Room == count + Len(ledger) < MaxWork
Busy == {r \in Requests : open[r] # Idle}

----------------------------------------------------------------------------
(* workflow.py: pure functions of a loaded row.                              *)

HasPendingRole(row) == row.status \in InChain /\ row.chain_index < Len(Route)
PendingRole(row) == Route[row.chain_index + 1]

\* MUTANT of Valid: any role may act (the pending role is not compared).
ValidForAnyone(row, action, role, commented) ==
    /\ IF row.status = "HELD" THEN action = "RELEASE_HOLD"
       ELSE row.status \in Actionable /\ action # "RELEASE_HOLD"
    /\ HasPendingRole(row)
    /\ action \in RequiresComment => commented

\* Who may do what to a row in this state (apply_action's checks).
Valid(row, action, role, commented) ==
    /\ IF row.status = "HELD" THEN action = "RELEASE_HOLD"
       ELSE row.status \in Actionable /\ action # "RELEASE_HOLD"
    /\ HasPendingRole(row) /\ PendingRole(row) = role
    /\ action \in RequiresComment => commented

\* MUTANT of Entered: a new pass goes on where the last one stopped.
EnteredWhereLeft(row) == [row EXCEPT !.status = "PENDING_APPROVAL"]

Entered(row) == [row EXCEPT !.status = "PENDING_APPROVAL", !.chain_index = 0]

\* MUTANT of Advanced: the last role is skipped.
AdvancedTooFar(row) ==
    LET next == row.chain_index + 1 IN
    [row EXCEPT !.chain_index = next,
                !.status = IF next >= Len(Route) - 1 THEN "SAP_EXECUTION_PENDING" ELSE "PENDING_APPROVAL"]

Advanced(row) ==
    LET next == row.chain_index + 1 IN
    [row EXCEPT !.chain_index = next,
                !.status = IF next >= Len(Route) THEN "SAP_EXECUTION_PENDING" ELSE "PENDING_APPROVAL"]

\* MUTANT of SteppedBack: the first role sends back below the chain.
SteppedBelow(row) == [row EXCEPT !.status = "SENT_BACK", !.chain_index = row.chain_index - 1]

SteppedBack(row) ==
    [row EXCEPT !.status = "SENT_BACK",
                !.chain_index = IF row.chain_index > 0 THEN row.chain_index - 1 ELSE 0]

Adjusted(row) ==
    [row EXCEPT !.status = "PENDING_APPROVAL",
                !.adjustment_count = row.adjustment_count + 1,
                !.current_version = row.current_version + 1]

ApplyAction(row, action) ==
    CASE action = "APPROVE" -> Advanced(row)
      [] action = "REJECT" -> [row EXCEPT !.status = "REJECTED"]
      [] action = "SEND_BACK" -> SteppedBack(row)
      [] action = "HOLD" -> [row EXCEPT !.status = "HELD"]
      [] action = "RELEASE_HOLD" -> [row EXCEPT !.status = "PENDING_APPROVAL"]
      [] action = "ADJUST" -> Adjusted(row)

----------------------------------------------------------------------------
Init ==
    /\ rows \in [Ids -> {NoRow}] /\ count = 0
    /\ ledger = <<>> /\ newest = 0 /\ edits = 0
    /\ open = [r \in Requests |-> Idle] /\ raced = {}

\* generate_recommendations writes a row for new upstream runs.
Generate ==
    /\ count < MaxRows /\ Room
    /\ \E evaluable, valued \in BOOLEAN :
        /\ valued => evaluable
        /\ rows' = [rows EXCEPT ![count + 1] =
                [NoRow EXCEPT !.status = IF evaluable THEN "READY_FOR_REVIEW" ELSE "NOT_EVALUABLE",
                              !.valued = valued]]
    /\ count' = count + 1
    /\ UNCHANGED <<ledger, newest, edits, open, raced>>

\* A request loads the newest row and passes its checks: it now holds the row
\* as loaded, the row it means to store, and its ledger entry's action and role.
Load(r, what, role, new) ==
    /\ open[r] = Idle /\ Room
    /\ open' = [open EXCEPT ![r] =
        [what |-> what, role |-> role, row |-> count, seen |-> rows[count], new |-> new, edits |-> edits]]
    /\ UNCHANGED <<rows, count, ledger, newest, edits, raced>>

Submit(r) ==
    /\ count > 0
    /\ LET row == rows[count]
           reopening == Manual /\ row.status = "REJECTED" IN
        /\ reopening \/ row.status = "READY_FOR_REVIEW"
        /\ Manual => row.valued
        /\ Load(r, IF reopening THEN "RESUBMIT" ELSE "SUBMIT", Route[1], Entered(row))

RejectBeforeSubmission(r, commented) ==
    /\ count > 0 /\ commented
    /\ rows[count].status = "READY_FOR_REVIEW"
    /\ Load(r, "DECLINE", Route[1], [rows[count] EXCEPT !.status = "REJECTED", !.chain_index = 0])

Act(r, action, role, commented) ==
    /\ count > 0
    /\ Valid(rows[count], action, role, commented)
    /\ Load(r, action, role, ApplyAction(rows[count], action))

\* record_execution_evidence with EXECUTED; it writes no ledger entry.
ReportExecution(r) ==
    /\ count > 0
    /\ rows[count].status = "SAP_EXECUTION_PENDING"
    /\ Load(r, "EXECUTED", Route[1], [rows[count] EXCEPT !.status = "SAP_EXECUTED"])

\* MUTANT of EditFigures: removals are allowed in any state.
EditAnytime(r, valued) ==
    /\ count > 0 /\ edits < MaxEdits
    /\ Load(r, "EDIT", Route[1], [rows[count] EXCEPT !.valued = valued])

\* exclude_donor or restore_donor: the recalculation leaves an estimate, or it
\* is refused.  Its figures and version are settled when it commits.
EditFigures(r, valued) ==
    /\ count > 0 /\ edits < MaxEdits
    /\ rows[count].status \in EditableStatuses
    /\ Load(r, "EDIT", Route[1], [rows[count] EXCEPT !.valued = valued])

\* sync_recommendations: an unsubmitted row out of line with its target.
SyncFigures(r, evaluable, valued) ==
    /\ count > 0 /\ edits < MaxEdits /\ (valued => evaluable)
    /\ LET row == rows[count] IN
        /\ row.status \in Syncable
        /\ Load(r, "SYNC", Route[1],
                [row EXCEPT !.valued = valued,
                            !.status = IF row.status = "SENT_BACK" THEN row.status
                                       ELSE IF evaluable THEN "READY_FOR_REVIEW" ELSE "NOT_EVALUABLE"])

\* The UPDATE a commit sends: the columns that differ from the loaded ones.
DirtyWrite(now, seen, new) ==
    [c \in DOMAIN now |-> IF new[c] = seen[c] THEN now[c] ELSE new[c]]

\* What every commit over a row does, whoever changed it meanwhile.
Store(r, new) ==
    LET job == open[r] IN
    /\ rows' = [rows EXCEPT ![job.row] = DirtyWrite(rows[job.row], job.seen, new)]
    /\ raced' = IF rows[job.row] = job.seen THEN raced ELSE raced \cup {job.row}
    /\ open' = [open EXCEPT ![r] = Idle]
    /\ UNCHANGED count

\* MUTANT of Entry: the previous status is read after the new one is set.
EntryReadLate(job) ==
    [row |-> job.row, version |-> job.seen.current_version, role |-> job.role,
     action |-> IF job.what = "DECLINE" THEN "REJECT" ELSE job.what,
     previous |-> job.new.status, new |-> job.new.status, figures |-> job.seen.figures]

Entry(job) ==
    [row |-> job.row, version |-> job.seen.current_version, role |-> job.role,
     action |-> IF job.what = "DECLINE" THEN "REJECT" ELSE job.what,
     previous |-> job.seen.status, new |-> job.new.status, figures |-> job.seen.figures]

\* Commit of a submission, a rejection or an approval action: row and ledger
\* entry in one transaction.
CommitAction(r) ==
    /\ r \in Busy /\ open[r].what \in Actions \cup {"SUBMIT", "RESUBMIT", "DECLINE"}
    /\ Room
    /\ Store(r, open[r].new)
    /\ ledger' = Append(ledger, Entry(open[r]))
    /\ UNCHANGED <<newest, edits>>

CommitExecution(r) ==
    /\ r \in Busy /\ open[r].what = "EXECUTED"
    /\ Store(r, open[r].new)
    /\ UNCHANGED <<ledger, newest, edits>>

\* MUTANT of SnapshotVersion: the snapshot takes the version before.
SnapshotBefore(seen) ==
    IF seen.current_version > newest THEN seen.current_version - 1 ELSE newest + 1

\* The next free snapshot number of the label (refresh_recommendation).
SnapshotVersion(seen) ==
    IF seen.current_version > newest THEN seen.current_version ELSE newest + 1

\* Commit of a rebuild: a snapshot of the old figures, the new ones, and the
\* version after the snapshot.  A removal or restoral first checks that nobody
\* changed the exclusions since it read them.
CommitFigures(r) ==
    /\ r \in Busy /\ open[r].what \in {"EDIT", "SYNC"} /\ edits < MaxEdits
    /\ open[r].what = "EDIT" => open[r].edits = edits
    /\ LET snapshot == SnapshotVersion(open[r].seen) IN
        /\ newest' = snapshot
        /\ Store(r, [open[r].new EXCEPT !.figures = edits + 1, !.current_version = snapshot + 1])
    /\ edits' = edits + 1
    /\ UNCHANGED ledger

\* EXCLUSIONS_CHANGED, a failed commit, a client that went away: rolled back.
Drop(r) ==
    /\ r \in Busy
    /\ open' = [open EXCEPT ![r] = Idle]
    /\ UNCHANGED <<rows, count, ledger, newest, edits, raced>>

Next ==
    \/ Generate
    \/ \E r \in Requests :
        \/ Submit(r)
        \/ ReportExecution(r)
        \/ CommitAction(r)
        \/ CommitExecution(r)
        \/ CommitFigures(r)
        \/ Drop(r)
        \/ \E valued \in BOOLEAN :
            \/ EditFigures(r, valued)
            \/ \E evaluable \in BOOLEAN : SyncFigures(r, evaluable, valued)
        \/ \E commented \in BOOLEAN :
            \/ RejectBeforeSubmission(r, commented)
            \/ \E action \in Actions, role \in Roles : Act(r, action, role, commented)

Spec == Init /\ [][Next]_vars

----------------------------------------------------------------------------
Jobs == [what : Actions \cup {"SUBMIT", "RESUBMIT", "DECLINE", "EXECUTED", "EDIT", "SYNC"},
         role : Roles, row : Ids, seen : Row, new : Row, edits : 0..MaxEdits]
Entries == [row : Ids, version : Nat, role : Roles, action : Actions \cup {"SUBMIT", "RESUBMIT"},
            previous : Statuses, new : Statuses, figures : 0..MaxEdits]

\* Every row, entry and open request is one the code can hold
\* (app/models/i7_recommendation.py).
TypeOK ==
    /\ rows \in [Ids -> Row] /\ count \in 0..MaxRows
    /\ ledger \in Seq(Entries) /\ count + Len(ledger) <= MaxWork
    /\ newest \in Nat /\ edits \in 0..MaxEdits
    /\ open \in [Requests -> Jobs \cup {Idle}]
    /\ raced \subseteq Ids

Of(n) == {i \in 1..Len(ledger) : ledger[i].row = n}
ApprovedBy(n, role) ==
    \E i \in 1..Len(ledger) : ledger[i].row = n /\ ledger[i].action = "APPROVE" /\ ledger[i].role = role

\* No row awaits execution in SAP unless every role of its route has an APPROVE
\* in the ledger for that very row, however requests interleave
\* (workflow._advance: "no step may be skipped or auto-advance", types.py:168).
FinalSigned ==
    \A n \in Ids : rows[n].status \in Final =>
        \A k \in 1..Len(Route) : ApprovedBy(n, Route[k])

\* The rows and their ledger implement I7SignOff: signatures are the ledger's
\* approvals, released rows the ones past final approval.
SignOff == INSTANCE I7SignOff WITH
    Ids <- Ids, Roles <- Roles, Needed <- {Route[k] : k \in 1..Len(Route)},
    signed <- [n \in Ids |-> {role \in Roles : ApprovedBy(n, role)}],
    final <- {n \in Ids : rows[n].status \in Final}

\* Every step of the API, raced or not, is a signature or a decision of
\* I7SignOff (ledger.apply_approval_action, workflow._advance).
SignsOff == SignOff!Spec

\* When no request committed over a change it had not seen, a row that awaits
\* execution has every role's APPROVE in the pass that led there, and each
\* role's last word in that pass is that APPROVE: nothing held, adjusted or
\* sent back was left unanswered (workflow.apply_action).
LastWord ==
    \A n \in Ids \ raced : rows[n].status \in Final =>
        \E start \in Of(n) :
            /\ ledger[start].action \in {"SUBMIT", "RESUBMIT"}
            /\ \A i \in Of(n) : i > start => ledger[i].action \notin {"SUBMIT", "RESUBMIT"}
            /\ \A k \in 1..Len(Route) :
                \E i \in Of(n) :
                    /\ i > start /\ ledger[i].role = Route[k] /\ ledger[i].action = "APPROVE"
                    /\ \A j \in Of(n) : j > i => ledger[j].role # Route[k]

Settled(i) == ledger[i].action \in {"SUBMIT", "RESUBMIT", "SEND_BACK"}

\* When nothing raced, every action taken since the row was last submitted or
\* sent back was taken on the figures the row now shows, once it is out of
\* reach of an edit (oar_exclusions._require_editable: "its numbers are what an
\* approver signed").
SignedFigures ==
    \A n \in Ids \ raced : rows[n].status \notin Syncable =>
        \A i \in Of(n) :
            (ledger[i].action # "SEND_BACK" /\ \A j \in Of(n) : j > i => ~Settled(j)) =>
                ledger[i].figures = rows[n].figures

\* The two changes of status that leave no ledger entry, though ledger.py:5-6
\* says there is none: a rebuild moves an unsubmitted row between its two
\* statuses (oar_exclusions.py:214), and a report of execution, which leaves a
\* row of its own kind, ends a row past final approval (execution.py:54).
Unentered(before, after) ==
    \/ before \in Unsubmitted /\ after \in Unsubmitted
    \/ before = "SAP_EXECUTION_PENDING" /\ after = "SAP_EXECUTED"

\* When nothing raced, those are the only two: a row no entry names is still
\* unsubmitted, each entry starts in the status the one before it ended in, and
\* the row stands where its last entry ended, or was then reported executed
\* (ledger.apply_approval_action; each entry names the status it was taken in).
LedgerTells ==
    \A n \in Ids \ raced :
        /\ Of(n) = {} => rows[n].status \in Unsubmitted
        /\ \A i, j \in Of(n) : (i < j /\ \A k \in Of(n) : k <= i \/ k >= j) =>
            ledger[j].previous = ledger[i].new
        /\ \A i \in Of(n) : (\A k \in Of(n) : k <= i) =>
            rows[n].status = ledger[i].new \/ Unentered(ledger[i].new, rows[n].status)

\* When nothing raced, a version number in the ledger names one set of figures
\* of the row (refresh_recommendation moves current_version with every rebuild).
VersionNames ==
    \A n \in Ids \ raced : \A i, j \in Of(n) :
        ledger[i].version = ledger[j].version => ledger[i].figures = ledger[j].figures
=============================================================================
