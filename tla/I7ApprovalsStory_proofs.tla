---------------------- MODULE I7ApprovalsStory_proofs ----------------------
(* Proofs about I7Approvals over rows no request raced on: what the ledger   *)
(* tells of such a row is its story, for every route and any number of       *)
(* requests.  Races on other rows of the label are all allowed.              *)
EXTENDS I7Approvals_proofs

Actual == Actions \cup {"SUBMIT", "RESUBMIT", "DECLINE"}

\* What a request means to store, by the rule of the operation it serves.
Moves(job) ==
    LET seen == job.seen
        new == job.new IN
    \/ /\ job.what \in {"SUBMIT", "RESUBMIT"} /\ seen.status \in {"READY_FOR_REVIEW", "REJECTED"}
       /\ new = Entered(seen)
    \/ /\ job.what = "DECLINE" /\ seen.status = "READY_FOR_REVIEW"
       /\ new = [seen EXCEPT !.status = "REJECTED", !.chain_index = 0]
    \/ /\ job.what \in Actions
       /\ \E commented \in BOOLEAN : Valid(seen, job.what, job.role, commented)
       /\ new = ApplyAction(seen, job.what)
    \/ /\ job.what = "EXECUTED" /\ seen.status = "SAP_EXECUTION_PENDING"
       /\ new = [seen EXCEPT !.status = "SAP_EXECUTED"]
    \/ /\ job.what \in {"EDIT", "SYNC"} /\ seen.status \in Syncable
       /\ \E valued \in BOOLEAN, status \in Syncable :
            /\ status = "SENT_BACK" <=> seen.status = "SENT_BACK"
            /\ new = [seen EXCEPT !.valued = valued, !.status = status]

JobsMove == \A r \in Busy : Moves(open[r]) /\ open[r].row <= count
EntriesNumbered == \A i \in 1..Len(ledger) : ledger[i].row <= count

\* The row's version has moved past every figure it no longer shows.
Versioned(n) ==
    /\ \A i \in Of(n) :
        /\ ledger[i].version <= rows[n].current_version
        /\ ledger[i].version = rows[n].current_version => ledger[i].figures = rows[n].figures
    /\ \A i, j \in Of(n) : ledger[i].version = ledger[j].version => ledger[i].figures = ledger[j].figures

\* An action that no later submission or send-back has settled.
Live(n, i) == ledger[i].action # "SEND_BACK" /\ \A j \in Of(n) : j > i => ~Settled(j)

\* While an action is live its figures stand and cannot be edited.
Standing(n) ==
    \A i \in Of(n) : Live(n, i) => rows[n].status \notin Syncable /\ ledger[i].figures = rows[n].figures

\* The entries of the row follow on each other, and no entry ends unsubmitted.
Tells(n) ==
    /\ Of(n) = {} => rows[n].status \in Unsubmitted
    /\ \A i \in Of(n) : ledger[i].new \notin Unsubmitted
    /\ \A i, j \in Of(n) : (i < j /\ \A k \in Of(n) : k <= i \/ k >= j) =>
        ledger[j].previous = ledger[i].new
    /\ \A i \in Of(n) : (\A k \in Of(n) : k <= i) =>
        rows[n].status = ledger[i].new \/ Unentered(ledger[i].new, rows[n].status)

\* The last word of a role since a submission is its approval.
Answered(n, start, role) ==
    \E i \in Of(n) :
        /\ i > start /\ ledger[i].role = role /\ ledger[i].action = "APPROVE"
        /\ \A j \in Of(n) : j > i => ledger[j].role # role

\* The pass a row is in, or was released by: every role below its place in the
\* chain that is not to be asked again has approved last.
Pass(n) ==
    /\ rows[n].status \in Final => rows[n].chain_index = Len(Route)
    /\ rows[n].status \in InChain \cup Final =>
        \E start \in Of(n) :
            /\ ledger[start].action \in {"SUBMIT", "RESUBMIT"}
            /\ \A i \in Of(n) : i > start => ledger[i].action \notin {"SUBMIT", "RESUBMIT"}
            /\ \A k \in 1..rows[n].chain_index :
                \/ \E m \in (rows[n].chain_index + 1)..Len(Route) : Route[m] = Route[k]
                \/ Answered(n, start, Route[k])

Story(n) == Versioned(n) /\ Standing(n) /\ Tells(n) /\ Pass(n)
Stories == \A n \in Ids \ raced : Story(n)
SInv == JobsMove /\ EntriesNumbered /\ Stories
----------------------------------------------------------------------------
(* The operations on a row, and the entries of a row.                        *)

\* What a commit that writes a ledger entry does to the row it was decided on.
Carries(what, role, seen, new) ==
    /\ new.figures = seen.figures /\ new.current_version >= seen.current_version
    /\ what \in {"SUBMIT", "RESUBMIT"} => new.status = "PENDING_APPROVAL" /\ new.chain_index = 0
    /\ what \in {"DECLINE", "REJECT"} => new.status = "REJECTED"
    /\ what \in {"SUBMIT", "RESUBMIT", "DECLINE"} => seen.status \in {"READY_FOR_REVIEW", "REJECTED"}
    /\ what \in Actions =>
        seen.status \in InChain /\ seen.chain_index < Len(Route) /\ role = Route[seen.chain_index + 1]
    /\ what = "APPROVE" =>
        /\ new.chain_index = seen.chain_index + 1
        /\ new.status \in {"PENDING_APPROVAL", "SAP_EXECUTION_PENDING"}
        /\ new.status \in Final => seen.chain_index + 1 = Len(Route)
    /\ what = "SEND_BACK" =>
        /\ new.status = "SENT_BACK"
        /\ new.chain_index = IF seen.chain_index > 0 THEN seen.chain_index - 1 ELSE 0
    /\ what \in {"HOLD", "RELEASE_HOLD", "ADJUST"} =>
        new.chain_index = seen.chain_index /\ new.status \in {"HELD", "PENDING_APPROVAL"}

LEMMA ActionFacts ==
    ASSUME NEW seen \in Row, NEW action \in Actions, NEW role, NEW commented,
           Valid(seen, action, role, commented)
    PROVE  Carries(action, role, seen, ApplyAction(seen, action))
<1>1. /\ seen.chain_index \in Nat /\ seen.chain_index < Len(Route) /\ role = Route[seen.chain_index + 1]
      /\ seen.status \in InChain /\ Len(Route) \in Nat
  BY RouteFacts DEF Valid, HasPendingRole, PendingRole, Row, InChain
<1>2. seen.current_version \in Nat
  BY DEF Row
<1>3. PICK new : new = ApplyAction(seen, action)
  OBVIOUS
<1>4. CASE action = "APPROVE"
  <2>1. /\ new.chain_index = seen.chain_index + 1 /\ new.figures = seen.figures
        /\ new.current_version = seen.current_version
        /\ new.status = IF seen.chain_index + 1 >= Len(Route) THEN "SAP_EXECUTION_PENDING" ELSE "PENDING_APPROVAL"
    BY <1>3, <1>4 DEF ApplyAction, Advanced, Row
  <2> QED
    BY <1>1, <1>2, <1>3, <1>4, <2>1 DEF Carries, Final
<1>5. CASE action = "SEND_BACK"
  <2>1. /\ new.chain_index = IF seen.chain_index > 0 THEN seen.chain_index - 1 ELSE 0
        /\ new.figures = seen.figures /\ new.current_version = seen.current_version
        /\ new.status = "SENT_BACK"
    BY <1>3, <1>5 DEF ApplyAction, SteppedBack, Row
  <2> QED
    BY <1>1, <1>2, <1>3, <1>5, <2>1 DEF Carries
<1>6. CASE action = "ADJUST"
  <2>1. /\ new.chain_index = seen.chain_index /\ new.figures = seen.figures
        /\ new.current_version = seen.current_version + 1 /\ new.status = "PENDING_APPROVAL"
    BY <1>3, <1>6 DEF ApplyAction, Adjusted, Row
  <2> QED
    BY <1>1, <1>2, <1>3, <1>6, <2>1 DEF Carries
<1>7. CASE action \in {"REJECT", "HOLD", "RELEASE_HOLD"}
  <2>1. PICK status \in {"REJECTED", "HELD", "PENDING_APPROVAL"} :
            /\ new = [seen EXCEPT !.status = status]
            /\ action = "REJECT" => status = "REJECTED"
            /\ action # "REJECT" => status \in {"HELD", "PENDING_APPROVAL"}
    BY <1>3, <1>7 DEF ApplyAction
  <2>2. /\ new.chain_index = seen.chain_index /\ new.figures = seen.figures
        /\ new.current_version = seen.current_version /\ new.status = status
    BY <2>1 DEF Row
  <2> QED
    BY <1>1, <1>2, <1>3, <1>7, <2>1, <2>2 DEF Carries
<1> QED
  BY <1>4, <1>5, <1>6, <1>7 DEF Actions

LEMMA MoveFacts ==
    ASSUME NEW job \in Jobs, job.what \in Actual, Moves(job)
    PROVE  Carries(job.what, job.role, job.seen, job.new)
<1>1. PICK seen \in Row, new \in Row, what \in Actual :
          seen = job.seen /\ new = job.new /\ what = job.what
  BY DEF Jobs
<1>2. seen.current_version \in Nat
  BY DEF Row
<1>3. CASE what \in {"SUBMIT", "RESUBMIT"}
  <2>1. new = Entered(seen) /\ seen.status \in {"READY_FOR_REVIEW", "REJECTED"}
    BY <1>1, <1>3 DEF Moves, Actions
  <2>2. /\ new.figures = seen.figures /\ new.current_version = seen.current_version
        /\ new.chain_index = 0 /\ new.status = "PENDING_APPROVAL"
    BY <2>1 DEF Entered, Row
  <2> QED
    BY <1>1, <1>2, <1>3, <2>1, <2>2 DEF Carries, Actions
<1>4. CASE what = "DECLINE"
  <2>1. new = [seen EXCEPT !.status = "REJECTED", !.chain_index = 0] /\ seen.status = "READY_FOR_REVIEW"
    BY <1>1, <1>4 DEF Moves, Actions
  <2>2. /\ new.figures = seen.figures /\ new.current_version = seen.current_version
        /\ new.status = "REJECTED"
    BY <2>1 DEF Row
  <2> QED
    BY <1>1, <1>2, <1>4, <2>1, <2>2 DEF Carries, Actions
<1>5. CASE what \in Actions
  <2>1. PICK commented \in BOOLEAN : Valid(seen, what, job.role, commented)
    BY <1>1, <1>5 DEF Moves, Actions
  <2>2. new = ApplyAction(seen, what)
    BY <1>1, <1>5 DEF Moves, Actions
  <2>3. Carries(what, job.role, seen, new)
    BY <1>5, <2>1, <2>2, ActionFacts
  <2> QED
    BY <1>1, <2>3
<1> QED
  BY <1>1, <1>3, <1>4, <1>5 DEF Actual

\* An entry more, and where it is in the ledger.
LEMMA OfAppend ==
    ASSUME ledger \in Seq(Entries), NEW e \in Entries, ledger' = Append(ledger, e), NEW n
    PROVE  /\ Len(ledger) \in Nat
           /\ \A i \in Of(n) : i \in 1..Len(ledger) /\ ledger'[i] = ledger[i]
           /\ ledger'[Len(ledger) + 1] = e
           /\ e.row = n => Of(n)' = Of(n) \cup {Len(ledger) + 1}
           /\ e.row # n => Of(n)' = Of(n)
<1>1. /\ Len(ledger') = Len(ledger) + 1 /\ Len(ledger) \in Nat
      /\ \A i \in 1..Len(ledger) : ledger'[i] = ledger[i]
      /\ ledger'[Len(ledger) + 1] = e
  BY AppendProperties
<1>2. 1..Len(ledger') = 1..Len(ledger) \cup {Len(ledger) + 1}
  BY <1>1
<1> QED
  BY <1>1, <1>2 DEF Of

LEMMA OfSame ==
    ASSUME UNCHANGED ledger, NEW n
    PROVE  Of(n)' = Of(n) /\ \A i \in Of(n) : ledger'[i] = ledger[i]
BY DEF Of
----------------------------------------------------------------------------
(* Every request follows the rule of its operation.                          *)

RulesHeld == JobsMove /\ EntriesNumbered

\* The ledger and the row numbers move on together.
LEMMA RulesKept ==
    ASSUME IInv, RulesHeld, count' \in Nat, count' >= count,
           \A r \in Busy' : open'[r] = open[r] /\ r \in Busy,
           UNCHANGED ledger \/ \E e \in Entries : ledger' = Append(ledger, e) /\ e.row <= count
    PROVE  RulesHeld'
<1>1. count \in Nat /\ ledger \in Seq(Entries)
  BY ChainAssumption DEF IInv, TypeOK
<1>2. \A i \in 1..Len(ledger) : ledger[i].row \in Nat
  <2> SUFFICES ASSUME NEW i \in 1..Len(ledger) PROVE ledger[i].row \in Nat
    OBVIOUS
  <2>1. ledger[i] \in Entries
    BY <1>1, ElementOfSeq
  <2> QED
    BY <2>1 DEF Entries, Ids
<1>3. JobsMove'
  <2> SUFFICES ASSUME NEW r \in Busy' PROVE Moves(open'[r]) /\ open'[r].row <= count'
    BY DEF JobsMove
  <2>1. r \in Busy /\ open'[r] = open[r] /\ Moves(open[r]) /\ open[r].row <= count
    BY DEF RulesHeld, JobsMove
  <2>2. open[r].row \in Int
    BY <2>1, JobFacts DEF Ids
  <2> QED
    BY <1>1, <2>1, <2>2
<1>4. EntriesNumbered'
  <2> SUFFICES ASSUME NEW i \in 1..Len(ledger') PROVE ledger'[i].row <= count'
    BY DEF EntriesNumbered
  <2>1. CASE UNCHANGED ledger
    <3>1. ledger[i].row <= count /\ ledger[i].row \in Nat
      BY <1>2, <2>1 DEF RulesHeld, EntriesNumbered
    <3> QED
      BY <1>1, <2>1, <3>1
  <2>2. ASSUME NEW e \in Entries, ledger' = Append(ledger, e), e.row <= count PROVE ledger'[i].row <= count'
    <3>1. /\ Len(ledger') = Len(ledger) + 1 /\ Len(ledger) \in Nat
          /\ \A j \in 1..Len(ledger) : ledger'[j] = ledger[j]
          /\ ledger'[Len(ledger) + 1] = e
      BY <1>1, <2>2, AppendProperties
    <3>2. CASE i \in 1..Len(ledger)
      <4>1. ledger'[i] = ledger[i] /\ ledger[i].row <= count /\ ledger[i].row \in Nat
        BY <1>2, <3>1, <3>2 DEF RulesHeld, EntriesNumbered
      <4> QED
        BY <1>1, <4>1
    <3>3. CASE i = Len(ledger) + 1
      BY <1>1, <2>2, <3>1, <3>3 DEF Entries, Ids
    <3> QED
      BY <3>1, <3>2, <3>3
  <2> QED
    BY <2>1, <2>2
<1> QED
  BY <1>3, <1>4 DEF RulesHeld

LEMMA LoadRules ==
    ASSUME IInv, RulesHeld, NEW r \in Requests, NEW what, NEW role, NEW new, count > 0,
           Load(r, what, role, new),
           Moves([what |-> what, role |-> role, row |-> count, seen |-> rows[count],
                  new |-> new, edits |-> edits])
    PROVE  RulesHeld'
<1>1. PICK job : job = [what |-> what, role |-> role, row |-> count, seen |-> rows[count],
                        new |-> new, edits |-> edits]
  OBVIOUS
<1>2. open' = [open EXCEPT ![r] = job] /\ UNCHANGED <<rows, count, ledger, newest, edits, raced>>
  BY <1>1 DEF Load
<1>3. Moves(job) /\ job.row = count /\ count \in Int
  BY <1>1 DEF IInv, TypeOK
<1>4. JobsMove'
  <2> SUFFICES ASSUME NEW q \in Busy' PROVE Moves(open'[q]) /\ open'[q].row <= count'
    BY DEF JobsMove
  <2>1. open'[q] = job \/ (open'[q] = open[q] /\ q \in Busy)
    BY <1>2 DEF Busy, IInv, TypeOK
  <2> QED
    BY <1>2, <1>3, <2>1 DEF RulesHeld, JobsMove
<1>5. EntriesNumbered'
  BY <1>2 DEF RulesHeld, EntriesNumbered
<1> QED
  BY <1>4, <1>5 DEF RulesHeld

LEMMA LoadSteps ==
    ASSUME IInv, RulesHeld, NEW r \in Requests,
           \/ Submit(r) \/ ReportExecution(r)
           \/ \E valued \in BOOLEAN :
                \/ EditFigures(r, valued)
                \/ \E evaluable \in BOOLEAN : SyncFigures(r, evaluable, valued)
           \/ \E commented \in BOOLEAN :
                \/ RejectBeforeSubmission(r, commented)
                \/ \E action \in Actions, role \in Roles : Act(r, action, role, commented)
    PROVE  RulesHeld' /\ UNCHANGED <<rows, ledger, count, raced>>
<1>0. ASSUME NEW what, NEW role, NEW new, Load(r, what, role, new)
      PROVE  UNCHANGED <<rows, ledger, count, raced>>
  BY <1>0 DEF Load
<1>1. CASE Submit(r)
  <2>1. PICK what \in {"SUBMIT", "RESUBMIT"} :
            /\ count > 0 /\ Load(r, what, Route[1], Entered(rows[count]))
            /\ rows[count].status \in {"READY_FOR_REVIEW", "REJECTED"}
    BY <1>1 DEF Submit
  <2>2. Moves([what |-> what, role |-> Route[1], row |-> count, seen |-> rows[count],
               new |-> Entered(rows[count]), edits |-> edits])
    BY <2>1 DEF Moves
  <2> QED
    BY <1>0, <2>1, <2>2, LoadRules
<1>2. CASE ReportExecution(r)
  <2>1. PICK new : new = [rows[count] EXCEPT !.status = "SAP_EXECUTED"]
    OBVIOUS
  <2>2. count > 0 /\ Load(r, "EXECUTED", Route[1], new) /\ rows[count].status = "SAP_EXECUTION_PENDING"
    BY <1>2, <2>1 DEF ReportExecution
  <2>3. Moves([what |-> "EXECUTED", role |-> Route[1], row |-> count, seen |-> rows[count],
               new |-> new, edits |-> edits])
    BY <2>1, <2>2 DEF Moves
  <2> QED
    BY <1>0, <2>2, <2>3, LoadRules
<1>3. ASSUME NEW valued \in BOOLEAN, EditFigures(r, valued)
      PROVE  RulesHeld' /\ UNCHANGED <<rows, ledger, count, raced>>
  <2>1. PICK new : new = [rows[count] EXCEPT !.valued = valued]
    OBVIOUS
  <2>2. count > 0 /\ Load(r, "EDIT", Route[1], new) /\ rows[count].status \in Syncable
    BY <1>3, <2>1 DEF EditFigures, Syncable
  <2>3. new = [rows[count] EXCEPT !.valued = valued, !.status = rows[count].status]
    <3>1. rows[count] \in Row
      BY <2>2, CountFacts
    <3> QED
      BY <2>1, <3>1 DEF Row
  <2>4. Moves([what |-> "EDIT", role |-> Route[1], row |-> count, seen |-> rows[count],
               new |-> new, edits |-> edits])
    BY <2>2, <2>3 DEF Moves
  <2> QED
    BY <1>0, <2>2, <2>4, LoadRules
<1>4. ASSUME NEW evaluable \in BOOLEAN, NEW valued \in BOOLEAN, SyncFigures(r, evaluable, valued)
      PROVE  RulesHeld' /\ UNCHANGED <<rows, ledger, count, raced>>
  <2>1. PICK status \in Syncable :
            /\ status = IF rows[count].status = "SENT_BACK" THEN rows[count].status
                        ELSE IF evaluable THEN "READY_FOR_REVIEW" ELSE "NOT_EVALUABLE"
            /\ status = "SENT_BACK" <=> rows[count].status = "SENT_BACK"
    BY DEF Syncable, EditableStatuses
  <2>2. PICK new : new = [rows[count] EXCEPT !.valued = valued, !.status = status]
    OBVIOUS
  <2>3. count > 0 /\ Load(r, "SYNC", Route[1], new) /\ rows[count].status \in Syncable
    BY <1>4, <2>1, <2>2 DEF SyncFigures
  <2>4. Moves([what |-> "SYNC", role |-> Route[1], row |-> count, seen |-> rows[count],
               new |-> new, edits |-> edits])
    BY <2>1, <2>2, <2>3 DEF Moves
  <2> QED
    BY <1>0, <2>3, <2>4, LoadRules
<1>5. ASSUME NEW commented \in BOOLEAN, RejectBeforeSubmission(r, commented)
      PROVE  RulesHeld' /\ UNCHANGED <<rows, ledger, count, raced>>
  <2>1. PICK new : new = [rows[count] EXCEPT !.status = "REJECTED", !.chain_index = 0]
    OBVIOUS
  <2>2. count > 0 /\ Load(r, "DECLINE", Route[1], new) /\ rows[count].status = "READY_FOR_REVIEW"
    BY <1>5, <2>1 DEF RejectBeforeSubmission
  <2>3. Moves([what |-> "DECLINE", role |-> Route[1], row |-> count, seen |-> rows[count],
               new |-> new, edits |-> edits])
    BY <2>1, <2>2 DEF Moves
  <2> QED
    BY <1>0, <2>2, <2>3, LoadRules
<1>6. ASSUME NEW commented \in BOOLEAN, NEW action \in Actions, NEW role \in Roles,
             Act(r, action, role, commented)
      PROVE  RulesHeld' /\ UNCHANGED <<rows, ledger, count, raced>>
  <2>1. PICK new : new = ApplyAction(rows[count], action)
    OBVIOUS
  <2>2. count > 0 /\ Load(r, action, role, new) /\ Valid(rows[count], action, role, commented)
    BY <1>6, <2>1 DEF Act
  <2>3. Moves([what |-> action, role |-> role, row |-> count, seen |-> rows[count],
               new |-> new, edits |-> edits])
    BY <2>1, <2>2 DEF Moves
  <2> QED
    BY <1>0, <2>2, <2>3, LoadRules
<1> QED
  BY <1>1, <1>2, <1>3, <1>4, <1>5, <1>6
----------------------------------------------------------------------------
(* What a step may do to a row on which no request has raced.                *)

Same(n) == rows'[n] = rows[n] /\ Of(n)' = Of(n) /\ \A i \in Of(n) : ledger'[i] = ledger[i]
Fresh(n) == Of(n)' = {} /\ rows'[n].status \in Unsubmitted

\* An action is taken on the row as it stands, and entered.
Acted(n) ==
    \E e \in Entries, what \in Actual :
        /\ ledger' = Append(ledger, e) /\ e.row = n
        /\ e.action = IF what = "DECLINE" THEN "REJECT" ELSE what
        /\ e.version = rows[n].current_version /\ e.figures = rows[n].figures
        /\ e.previous = rows[n].status /\ e.new = rows'[n].status
        /\ Carries(what, e.role, rows[n], rows'[n])

\* The figures are rebuilt, or the execution is reported: no entry.
Amended(n) ==
    /\ UNCHANGED ledger /\ rows'[n].chain_index = rows[n].chain_index
    /\ \/ /\ rows[n].status \in Syncable /\ rows'[n].status \in Syncable
          /\ rows'[n].status = "SENT_BACK" <=> rows[n].status = "SENT_BACK"
          /\ rows'[n].current_version > rows[n].current_version
       \/ /\ rows[n].status = "SAP_EXECUTION_PENDING" /\ rows'[n].status = "SAP_EXECUTED"
          /\ rows'[n].current_version = rows[n].current_version
          /\ rows'[n].figures = rows[n].figures

Clean(n) == n \notin raced /\ (Same(n) \/ Fresh(n) \/ Acted(n) \/ Amended(n))

\* A commit over the row it loaded stores what it means to store.
LEMMA CleanWrite ==
    ASSUME NEW seen \in Row, NEW new \in Row
    PROVE  DirtyWrite(seen, seen, new) = new
<1> DEFINE columns == {"status", "chain_index", "adjustment_count", "current_version", "valued", "figures"}
<1>1. DOMAIN seen = columns /\ DOMAIN new = columns /\ new = [c \in columns |-> new[c]]
  BY DEF Row
<1>2. DirtyWrite(seen, seen, new) = [c \in columns |-> IF new[c] = seen[c] THEN seen[c] ELSE new[c]]
  BY <1>1 DEF DirtyWrite
<1>3. \A c \in columns : (IF new[c] = seen[c] THEN seen[c] ELSE new[c]) = new[c]
  OBVIOUS
<1> HIDE DEF columns
<1> QED
  BY <1>1, <1>2, <1>3

LEMMA StoreFacts ==
    ASSUME IInv, RulesHeld, NEW r \in Busy, NEW new \in Row, Store(r, new)
    PROVE  /\ count' = count /\ raced \subseteq raced'
           /\ \A q \in Busy' : open'[q] = open[q] /\ q \in Busy
           /\ \A n \in Ids : n # open[r].row => rows'[n] = rows[n]
           /\ open[r].row \notin raced' => rows[open[r].row] = open[r].seen /\ rows'[open[r].row] = new
<1>1. open[r].row \in Ids /\ open[r].seen \in Row /\ r \in Requests
  BY JobFacts
<1>2. /\ rows' = [rows EXCEPT ![open[r].row] = DirtyWrite(rows[open[r].row], open[r].seen, new)]
      /\ raced' = IF rows[open[r].row] = open[r].seen THEN raced ELSE raced \cup {open[r].row}
      /\ open' = [open EXCEPT ![r] = Idle] /\ count' = count
  BY DEF Store
<1>3. \A q \in Busy' : open'[q] = open[q] /\ q \in Busy
  BY <1>2 DEF Busy, IInv, TypeOK
<1>4. open[r].row \notin raced' => rows[open[r].row] = open[r].seen /\ rows'[open[r].row] = new
  BY <1>1, <1>2, CleanWrite DEF IInv, TypeOK
<1> QED
  BY <1>1, <1>2, <1>3, <1>4 DEF IInv, TypeOK

LEMMA CommitActionClean ==
    ASSUME IInv, RulesHeld, NEW r \in Requests, CommitAction(r)
    PROVE  RulesHeld' /\ \A n \in Ids \ raced' : Clean(n)
<1>1. /\ r \in Busy /\ open[r].what \in Actual /\ Store(r, open[r].new)
      /\ ledger' = Append(ledger, Entry(open[r]))
  BY DEF CommitAction, Actual
<1>2. PICK job \in Jobs : job = open[r]
  BY <1>1, JobFacts
<1>3. Moves(job) /\ job.row <= count /\ job.seen \in Row /\ job.new \in Row /\ job.row \in Ids
  BY <1>1, <1>2, JobFacts DEF RulesHeld, JobsMove
<1>4. PICK e \in Entries : e = Entry(job) /\ e.row = job.row /\ e.role = job.role
  BY <1>1, <1>2, EntryFacts DEF Actual
<1>5. /\ ledger \in Seq(Entries) /\ ledger' = Append(ledger, e) /\ e.row <= count /\ count \in Nat
  BY <1>1, <1>2, <1>3, <1>4 DEF IInv, TypeOK
<1>6. /\ count' = count /\ raced \subseteq raced'
      /\ \A q \in Busy' : open'[q] = open[q] /\ q \in Busy
      /\ \A n \in Ids : n # job.row => rows'[n] = rows[n]
      /\ job.row \notin raced' => rows[job.row] = job.seen /\ rows'[job.row] = job.new
  BY <1>1, <1>2, <1>3, StoreFacts
<1>7. RulesHeld'
  BY <1>5, <1>6, RulesKept
<1>8. ASSUME NEW n \in Ids \ raced' PROVE Clean(n)
  <2>1. CASE n = job.row
    <3>1. Carries(job.what, job.role, job.seen, job.new)
      BY <1>1, <1>2, <1>3, MoveFacts
    <3>2. /\ e.action = IF job.what = "DECLINE" THEN "REJECT" ELSE job.what
          /\ e.version = job.seen.current_version /\ e.figures = job.seen.figures
          /\ e.previous = job.seen.status /\ e.new = job.new.status
      BY <1>4 DEF Entry
    <3>3. rows[n] = job.seen /\ rows'[n] = job.new
      BY <1>6, <2>1
    <3>4. Acted(n)
      BY <1>1, <1>2, <1>4, <1>5, <2>1, <3>1, <3>2, <3>3 DEF Acted
    <3> QED
      BY <1>6, <3>4 DEF Clean
  <2>2. CASE n # job.row
    <3>1. Of(n)' = Of(n) /\ \A i \in Of(n) : ledger'[i] = ledger[i]
      BY <1>4, <1>5, <2>2, OfAppend
    <3> QED
      BY <1>6, <2>2, <3>1 DEF Clean, Same
  <2> QED
    BY <2>1, <2>2
<1> QED
  BY <1>7, <1>8

\* A commit without an entry amends its row.
LEMMA AmendClean ==
    ASSUME IInv, RulesHeld, NEW r \in Busy, NEW new \in Row, Store(r, new), UNCHANGED ledger,
           open[r].row \notin raced' /\ rows[open[r].row] = open[r].seen
                /\ rows'[open[r].row] = new => Amended(open[r].row)
    PROVE  RulesHeld' /\ \A n \in Ids \ raced' : Clean(n)
<1>1. /\ count' = count /\ raced \subseteq raced'
      /\ \A q \in Busy' : open'[q] = open[q] /\ q \in Busy
      /\ \A n \in Ids : n # open[r].row => rows'[n] = rows[n]
      /\ open[r].row \notin raced' => rows[open[r].row] = open[r].seen /\ rows'[open[r].row] = new
  BY StoreFacts
<1>2. count \in Nat
  BY DEF IInv, TypeOK
<1>3. RulesHeld'
  BY <1>1, <1>2, RulesKept
<1>4. ASSUME NEW n \in Ids \ raced' PROVE Clean(n)
  <2>1. CASE n = open[r].row
    BY <1>1, <2>1 DEF Clean
  <2>2. CASE n # open[r].row
    BY <1>1, <2>2, OfSame DEF Clean, Same
  <2> QED
    BY <2>1, <2>2
<1> QED
  BY <1>3, <1>4

LEMMA CommitExecutionClean ==
    ASSUME IInv, RulesHeld, NEW r \in Requests, CommitExecution(r)
    PROVE  RulesHeld' /\ \A n \in Ids \ raced' : Clean(n)
<1>1. r \in Busy /\ open[r].what = "EXECUTED" /\ Store(r, open[r].new) /\ UNCHANGED ledger
  BY DEF CommitExecution
<1>2. PICK job \in Jobs : job = open[r]
  BY <1>1, JobFacts
<1>3. job.seen \in Row /\ job.new \in Row /\ Moves(job)
  BY <1>1, <1>2, JobFacts DEF RulesHeld, JobsMove
<1>4. job.seen.status = "SAP_EXECUTION_PENDING" /\ job.new = [job.seen EXCEPT !.status = "SAP_EXECUTED"]
  BY <1>1, <1>2, <1>3 DEF Moves, Actions
<1>5. /\ job.new.status = "SAP_EXECUTED" /\ job.new.chain_index = job.seen.chain_index
      /\ job.new.current_version = job.seen.current_version /\ job.new.figures = job.seen.figures
  BY <1>3, <1>4 DEF Row
<1>6. rows[job.row] = job.seen /\ rows'[job.row] = job.new => Amended(job.row)
  BY <1>1, <1>4, <1>5 DEF Amended
<1> QED
  BY <1>1, <1>2, <1>3, <1>6, AmendClean

LEMMA CommitFiguresClean ==
    ASSUME IInv, RulesHeld, NEW r \in Requests, CommitFigures(r)
    PROVE  RulesHeld' /\ \A n \in Ids \ raced' : Clean(n)
<1>1. PICK snapshot : snapshot = SnapshotVersion(open[r].seen)
  OBVIOUS
<1>2. PICK job \in Jobs : job = open[r]
  BY JobFacts DEF CommitFigures
<1>3. PICK new : new = [job.new EXCEPT !.figures = edits + 1, !.current_version = snapshot + 1]
  OBVIOUS
<1>4. /\ r \in Busy /\ job.what \in {"EDIT", "SYNC"} /\ edits < MaxEdits
      /\ Store(r, new) /\ UNCHANGED ledger
  BY <1>1, <1>2, <1>3 DEF CommitFigures
<1>5. job.seen \in Row /\ job.new \in Row /\ Moves(job)
  BY <1>2, <1>4, JobFacts DEF RulesHeld, JobsMove
<1>6. snapshot \in Nat /\ snapshot >= job.seen.current_version /\ edits + 1 \in 0..MaxEdits
      /\ job.seen.current_version \in Nat
  <2>1. newest \in Nat /\ edits \in 0..MaxEdits
    BY DEF IInv, TypeOK
  <2>2. job.seen.current_version \in Nat
    BY <1>5 DEF Row
  <2> QED
    BY <1>1, <1>2, <1>4, <2>1, <2>2, ChainAssumption DEF SnapshotVersion
<1>7. PICK valued \in BOOLEAN, status \in Syncable :
        /\ job.seen.status \in Syncable
        /\ status = "SENT_BACK" <=> job.seen.status = "SENT_BACK"
        /\ job.new = [job.seen EXCEPT !.valued = valued, !.status = status]
  BY <1>4, <1>5 DEF Moves, Actions
<1>8. job.new.status = status /\ job.new.chain_index = job.seen.chain_index
  BY <1>5, <1>7 DEF Row
<1>9. /\ new \in Row /\ new.status = status /\ new.chain_index = job.seen.chain_index
      /\ new.current_version > job.seen.current_version
  <2>1. snapshot + 1 \in Nat /\ snapshot + 1 > job.seen.current_version
    BY <1>6
  <2> QED
    BY <1>3, <1>5, <1>6, <1>8, <2>1 DEF Row
<1>10. rows[job.row] = job.seen /\ rows'[job.row] = new => Amended(job.row)
  BY <1>4, <1>7, <1>9 DEF Amended
<1> QED
  BY <1>2, <1>4, <1>9, <1>10, AmendClean

LEMMA GenerateClean ==
    ASSUME IInv, RulesHeld, Generate
    PROVE  RulesHeld' /\ \A n \in Ids \ raced' : Clean(n)
<1>1. count \in Nat /\ count' = count + 1 /\ UNCHANGED <<ledger, open, raced>>
  BY ChainAssumption DEF IInv, TypeOK, Generate
<1>2. RulesHeld'
  BY <1>1, RulesKept DEF Busy
<1>3. ASSUME NEW n \in Ids \ raced' PROVE Clean(n)
  <2>1. CASE n = count + 1
    <3>1. Of(n) = {}
      <4>1. \A i \in 1..Len(ledger) : ledger[i].row <= count
        BY DEF RulesHeld, EntriesNumbered
      <4> QED
        BY <1>1, <2>1, <4>1 DEF Of
    <3>2. rows'[n].status \in Unsubmitted
      BY <2>1, NoRowFacts DEF Generate, IInv, TypeOK, Unsubmitted, Row
    <3> QED
      BY <1>1, <3>1, <3>2, OfSame DEF Clean, Fresh
  <2>2. CASE n # count + 1
    <3>1. rows'[n] = rows[n]
      BY <2>2 DEF Generate, IInv, TypeOK
    <3> QED
      BY <1>1, <3>1, OfSame DEF Clean, Same
  <2> QED
    BY <2>1, <2>2
<1> QED
  BY <1>2, <1>3

\* Every step is one of these to every row it does not race on.
LEMMA StepClean ==
    ASSUME IInv, RulesHeld, [Next]_vars
    PROVE  RulesHeld' /\ \A n \in Ids \ raced' : Clean(n)
<1>0. ASSUME UNCHANGED <<rows, ledger, raced>>
      PROVE  \A n \in Ids \ raced' : Clean(n)
  BY <1>0, OfSame DEF Clean, Same
<1>1. CASE Generate
  BY <1>1, GenerateClean
<1>2. CASE \E r \in Requests : CommitAction(r) \/ CommitExecution(r) \/ CommitFigures(r)
  BY <1>2, CommitActionClean, CommitExecutionClean, CommitFiguresClean
<1>3. ASSUME NEW r \in Requests, Drop(r)
      PROVE  RulesHeld' /\ \A n \in Ids \ raced' : Clean(n)
  <2>1. UNCHANGED <<rows, count, ledger, raced>> /\ count \in Nat
        /\ \A q \in Busy' : open'[q] = open[q] /\ q \in Busy
    BY <1>3 DEF Drop, Busy, IInv, TypeOK
  <2> QED
    BY <1>0, <2>1, RulesKept
<1>4. CASE UNCHANGED vars
  <2>1. UNCHANGED <<rows, count, ledger, open, raced>> /\ count \in Nat
    BY <1>4 DEF vars, IInv, TypeOK
  <2> QED
    BY <1>0, <2>1, RulesKept DEF Busy
<1>5. ASSUME NEW r \in Requests,
             \/ Submit(r) \/ ReportExecution(r)
             \/ \E valued \in BOOLEAN :
                  \/ EditFigures(r, valued)
                  \/ \E evaluable \in BOOLEAN : SyncFigures(r, evaluable, valued)
             \/ \E commented \in BOOLEAN :
                  \/ RejectBeforeSubmission(r, commented)
                  \/ \E action \in Actions, role \in Roles : Act(r, action, role, commented)
      PROVE  RulesHeld' /\ \A n \in Ids \ raced' : Clean(n)
  BY <1>0, <1>5, LoadSteps
<1> QED
  BY <1>1, <1>2, <1>3, <1>4, <1>5 DEF Next
----------------------------------------------------------------------------
(* The story of a row goes on with every step that does not race on it.      *)

RowsTyped(n) == /\ rows[n] \in Row /\ rows'[n] \in Row
                /\ rows[n].current_version \in Nat /\ rows'[n].current_version \in Nat

\* The entries of a row before and after one is added, the last at m.
Added(n, m, e) ==
    /\ Of(n)' = Of(n) \cup {m} /\ ledger'[m] = e
    /\ \A i \in Of(n) : i < m /\ i \in Nat /\ ledger'[i] = ledger[i]

LEMMA TypesOfRow ==
    ASSUME IInv, IInv', NEW n \in Ids
    PROVE  RowsTyped(n)
<1>1. rows[n] \in Row /\ rows'[n] \in Row
  BY DEF IInv, TypeOK
<1> QED
  BY <1>1 DEF RowsTyped, Row

LEMMA TypesOfEntries ==
    ASSUME IInv, NEW n
    PROVE  \A i \in Of(n) : i \in Nat /\ ledger[i] \in Entries /\ ledger[i].version \in Nat
<1> SUFFICES ASSUME NEW i \in Of(n)
             PROVE  i \in Nat /\ ledger[i] \in Entries /\ ledger[i].version \in Nat
  OBVIOUS
<1>1. i \in 1..Len(ledger) /\ ledger \in Seq(Entries)
  BY DEF Of, IInv, TypeOK
<1>2. ledger[i] \in Entries /\ i \in Nat
  BY <1>1, ElementOfSeq
<1> QED
  BY <1>2 DEF Entries

LEMMA ActedFacts ==
    ASSUME IInv, NEW n, Acted(n)
    PROVE  \E m \in Nat, e \in Entries, what \in Actual :
              /\ Added(n, m, e)
              /\ e.action = IF what = "DECLINE" THEN "REJECT" ELSE what
              /\ e.version = rows[n].current_version /\ e.figures = rows[n].figures
              /\ e.previous = rows[n].status /\ e.new = rows'[n].status
              /\ Carries(what, e.role, rows[n], rows'[n])
<1>1. PICK e \in Entries, what \in Actual :
        /\ ledger' = Append(ledger, e) /\ e.row = n
        /\ e.action = IF what = "DECLINE" THEN "REJECT" ELSE what
        /\ e.version = rows[n].current_version /\ e.figures = rows[n].figures
        /\ e.previous = rows[n].status /\ e.new = rows'[n].status
        /\ Carries(what, e.role, rows[n], rows'[n])
  BY DEF Acted
<1>2. ledger \in Seq(Entries)
  BY DEF IInv, TypeOK
<1>3. PICK m : m = Len(ledger) + 1
  OBVIOUS
<1>4. m \in Nat /\ Added(n, m, e)
  <2>1. /\ Of(n)' = Of(n) \cup {m} /\ ledger'[m] = e /\ Len(ledger) \in Nat
        /\ \A i \in Of(n) : i \in 1..Len(ledger) /\ ledger'[i] = ledger[i]
    BY <1>1, <1>2, <1>3, OfAppend
  <2> QED
    BY <1>3, <2>1 DEF Added
<1> QED
  BY <1>1, <1>4

LEMMA VersionedKept ==
    ASSUME IInv, IInv', NEW n \in Ids, Clean(n), Versioned(n)
    PROVE  Versioned(n)'
<1>0. RowsTyped(n)
  BY TypesOfRow
<1>1. \A i \in Of(n) : i \in Nat /\ ledger[i].version \in Nat
  BY TypesOfEntries
<1>2. CASE Same(n)
  BY <1>2 DEF Same, Versioned
<1>3. CASE Fresh(n)
  BY <1>3 DEF Fresh, Versioned
<1>4. CASE Acted(n)
  <2>1. PICK m \in Nat, e \in Entries, what \in Actual :
          /\ Added(n, m, e)
          /\ e.version = rows[n].current_version /\ e.figures = rows[n].figures
          /\ Carries(what, e.role, rows[n], rows'[n])
    BY <1>4, ActedFacts
  <2>2. /\ rows'[n].figures = rows[n].figures
        /\ rows'[n].current_version >= rows[n].current_version
    BY <2>1 DEF Carries
  <2>3. ASSUME NEW i \in Of(n)'
        PROVE  /\ ledger'[i].version <= rows[n].current_version /\ ledger'[i].version \in Nat
               /\ ledger'[i].version = rows[n].current_version => ledger'[i].figures = rows[n].figures
    <3>1. CASE i = m
      BY <1>0, <2>1, <3>1 DEF Added, RowsTyped
    <3>2. CASE i \in Of(n)
      BY <1>1, <2>1, <3>2 DEF Added, Versioned
    <3> QED
      BY <2>1, <2>3, <3>1, <3>2 DEF Added
  <2>4. ASSUME NEW i \in Of(n)', NEW j \in Of(n)', ledger'[i].version = ledger'[j].version
        PROVE  ledger'[i].figures = ledger'[j].figures
    <3>1. CASE i = m \/ j = m
      BY <2>1, <2>3, <2>4, <3>1 DEF Added
    <3>2. CASE i \in Of(n) /\ j \in Of(n)
      BY <2>1, <2>4, <3>2 DEF Added, Versioned
    <3> QED
      BY <2>1, <2>4, <3>1, <3>2 DEF Added
  <2>5. ASSUME NEW i \in Of(n)'
        PROVE  /\ ledger'[i].version <= rows'[n].current_version
               /\ ledger'[i].version = rows'[n].current_version => ledger'[i].figures = rows'[n].figures
    <3>1. /\ ledger'[i].version <= rows[n].current_version /\ ledger'[i].version \in Nat
          /\ ledger'[i].version = rows[n].current_version => ledger'[i].figures = rows[n].figures
      BY <2>3, <2>5
    <3>2. rows[n].current_version \in Nat /\ rows'[n].current_version \in Nat
      BY <1>0 DEF RowsTyped
    <3> QED
      BY <2>2, <3>1, <3>2
  <2> QED
    BY <2>4, <2>5 DEF Versioned
<1>5. CASE Amended(n)
  <2>1. Of(n)' = Of(n) /\ \A i \in Of(n) : ledger'[i] = ledger[i]
    BY <1>5, OfSame DEF Amended
  <2>2. \/ rows'[n].current_version > rows[n].current_version
        \/ rows'[n].current_version = rows[n].current_version /\ rows'[n].figures = rows[n].figures
    BY <1>5 DEF Amended
  <2> QED
    BY <1>0, <1>1, <2>1, <2>2 DEF RowsTyped, Versioned
<1> QED
  BY <1>2, <1>3, <1>4, <1>5 DEF Clean

LEMMA StandingKept ==
    ASSUME IInv, NEW n \in Ids, Clean(n), Standing(n)
    PROVE  Standing(n)'
<1>1. CASE Same(n)
  BY <1>1 DEF Same, Standing, Live, Settled
<1>2. CASE Fresh(n)
  BY <1>2 DEF Fresh, Standing
<1>3. CASE Acted(n)
  <2>1. PICK m \in Nat, e \in Entries, what \in Actual :
          /\ Added(n, m, e)
          /\ e.action = IF what = "DECLINE" THEN "REJECT" ELSE what
          /\ e.figures = rows[n].figures
          /\ Carries(what, e.role, rows[n], rows'[n])
    BY <1>3, ActedFacts
  <2>2. rows'[n].figures = rows[n].figures /\ m \in Of(n)'
    BY <2>1 DEF Carries, Added
  <2>3. what # "SEND_BACK" => rows'[n].status \notin Syncable
    BY <2>1 DEF Carries, Actual, Actions, Syncable, EditableStatuses
  <2> SUFFICES ASSUME NEW i \in Of(n)', Live(n, i)'
               PROVE  rows'[n].status \notin Syncable /\ ledger'[i].figures = rows'[n].figures
    BY DEF Standing
  <2>4. ledger'[i].action # "SEND_BACK" /\ \A j \in Of(n)' : j > i => ~Settled(j)'
    BY DEF Live
  <2>5. CASE i = m
    BY <2>1, <2>2, <2>3, <2>4, <2>5 DEF Added
  <2>6. CASE i \in Of(n)
    <3>1. i < m /\ i \in Nat /\ ledger'[i] = ledger[i]
      BY <2>1, <2>6 DEF Added
    <3>2. ~Settled(m)' /\ ledger'[m] = e
      BY <2>1, <2>2, <2>4, <3>1 DEF Added
    <3>3. what # "SEND_BACK"
      BY <2>1, <3>2 DEF Settled
    <3>4. Live(n, i)
      BY <2>1, <2>4, <3>1 DEF Live, Added, Settled
    <3> QED
      BY <2>2, <2>3, <2>6, <3>1, <3>3, <3>4 DEF Standing
  <2> QED
    BY <2>1, <2>5, <2>6 DEF Added
<1>4. CASE Amended(n)
  <2>1. Of(n)' = Of(n) /\ \A i \in Of(n) : ledger'[i] = ledger[i]
    BY <1>4, OfSame DEF Amended
  <2>2. \A i \in Of(n) : Live(n, i)' => Live(n, i)
    BY <2>1 DEF Live, Settled
  <2>3. \/ rows[n].status \in Syncable
        \/ rows'[n].status \notin Syncable /\ rows'[n].figures = rows[n].figures
    BY <1>4 DEF Amended, Syncable, EditableStatuses
  <2> QED
    BY <2>1, <2>2, <2>3 DEF Standing
<1> QED
  BY <1>1, <1>2, <1>3, <1>4 DEF Clean

LEMMA TellsKept ==
    ASSUME IInv, NEW n \in Ids, Clean(n), Tells(n)
    PROVE  Tells(n)'
<1>1. CASE Same(n)
  BY <1>1 DEF Same, Tells
<1>2. CASE Fresh(n)
  BY <1>2 DEF Fresh, Tells
<1>3. CASE Acted(n)
  <2>1. PICK m \in Nat, e \in Entries, what \in Actual :
          /\ Added(n, m, e) /\ e.previous = rows[n].status /\ e.new = rows'[n].status
          /\ Carries(what, e.role, rows[n], rows'[n])
    BY <1>3, ActedFacts
  <2>2. e.new \notin Unsubmitted
    BY <2>1 DEF Carries, Actual, Actions, Unsubmitted
  <2>3. rows[n].status \in {"READY_FOR_REVIEW", "REJECTED"} \cup InChain
    BY <2>1 DEF Carries, Actual
  <2>4. ASSUME NEW i \in Of(n), \A k \in Of(n) : k <= i
        PROVE  rows[n].status = ledger[i].new
    <3>1. ~Unentered(ledger[i].new, rows[n].status)
      BY <2>3 DEF Tells, Unentered, InChain, Actionable
    <3> QED
      BY <2>4, <3>1 DEF Tells
  <2>5. ASSUME NEW i \in Of(n)', NEW j \in Of(n)', i < j, \A k \in Of(n)' : k <= i \/ k >= j
        PROVE  ledger'[j].previous = ledger'[i].new
    <3>1. i \in Of(n)
      <4>1. CASE i = m /\ j \in Of(n)
        BY <2>1, <2>5, <4>1 DEF Added
      <4> QED
        BY <2>1, <2>5, <4>1 DEF Added
    <3>2. CASE j \in Of(n)
      <4>1. \A k \in Of(n) : k <= i \/ k >= j
        BY <2>1, <2>5 DEF Added
      <4> QED
        BY <2>1, <2>5, <3>1, <3>2, <4>1 DEF Added, Tells
    <3>3. CASE j = m
      <4>1. \A k \in Of(n) : k <= i
        BY <2>1, <2>5, <3>3 DEF Added
      <4> QED
        BY <2>1, <2>4, <3>1, <3>3, <4>1 DEF Added
    <3> QED
      BY <2>1, <2>5, <3>2, <3>3 DEF Added
  <2>6. ASSUME NEW i \in Of(n)', \A k \in Of(n)' : k <= i
        PROVE  rows'[n].status = ledger'[i].new
    <3>1. i = m
      BY <2>1, <2>6 DEF Added
    <3> QED
      BY <2>1, <3>1 DEF Added
  <2>7. Of(n)' # {} /\ \A i \in Of(n)' : ledger'[i].new \notin Unsubmitted
    BY <2>1, <2>2 DEF Added, Tells
  <2> QED
    BY <2>5, <2>6, <2>7 DEF Tells
<1>4. CASE Amended(n)
  <2>1. Of(n)' = Of(n) /\ \A i \in Of(n) : ledger'[i] = ledger[i]
    BY <1>4, OfSame DEF Amended
  <2>2. rows[n].status \in Unsubmitted => rows'[n].status \in Unsubmitted
    BY <1>4 DEF Amended, Syncable, EditableStatuses, Unsubmitted
  <2>3. ASSUME NEW i \in Of(n), \A k \in Of(n) : k <= i
        PROVE  rows'[n].status = ledger[i].new \/ Unentered(ledger[i].new, rows'[n].status)
    <3>1. /\ rows[n].status = ledger[i].new \/ Unentered(ledger[i].new, rows[n].status)
          /\ ledger[i].new \notin Unsubmitted
      BY <2>3 DEF Tells
    <3> QED
      BY <1>4, <3>1 DEF Amended, Unentered, Syncable, EditableStatuses, Unsubmitted
  <2> QED
    BY <2>1, <2>2, <2>3 DEF Tells
<1> QED
  BY <1>1, <1>2, <1>3, <1>4 DEF Clean

\* An approval stands until its role acts again.
LEMMA AnsweredKept ==
    ASSUME NEW n, NEW m \in Nat, NEW e, Added(n, m, e), NEW start, NEW role, role # e.role,
           Answered(n, start, role)
    PROVE  Answered(n, start, role)'
<1>1. PICK i \in Of(n) :
        /\ i > start /\ ledger[i].role = role /\ ledger[i].action = "APPROVE"
        /\ \A j \in Of(n) : j > i => ledger[j].role # role
  BY DEF Answered
<1>2. i \in Of(n)' /\ ledger'[i] = ledger[i]
  BY <1>1 DEF Added
<1>3. \A j \in Of(n)' : j > i => ledger'[j].role # role
  BY <1>1 DEF Added
<1> QED
  BY <1>1, <1>2, <1>3 DEF Answered

\* The pass goes on with every action but a submission and a rejection.
LEMMA PassGoesOn ==
    ASSUME IInv, IInv', NEW n \in Ids, Pass(n), NEW m \in Nat, NEW e \in Entries,
           NEW what \in Actions \ {"REJECT"}, Added(n, m, e), e.action = what,
           Carries(what, e.role, rows[n], rows'[n])
    PROVE  \E start \in Of(n)' :
            /\ ledger'[start].action \in {"SUBMIT", "RESUBMIT"}
            /\ \A i \in Of(n)' : i > start => ledger'[i].action \notin {"SUBMIT", "RESUBMIT"}
            /\ \A k \in 1..rows'[n].chain_index :
                \/ \E a \in (rows'[n].chain_index + 1)..Len(Route) : Route[a] = Route[k]
                \/ Answered(n, start, Route[k])'
<1>1. PICK c, new : c = rows[n].chain_index /\ new = rows'[n].chain_index
  OBVIOUS
<1>2. c \in Nat /\ new \in Nat /\ Len(Route) \in Nat
  <2>1. rows[n] \in Row /\ rows'[n] \in Row
    BY TypesOfRow DEF RowsTyped
  <2> QED
    BY <1>1, <2>1, RouteFacts DEF Row
<1>3. /\ rows[n].status \in InChain /\ c < Len(Route) /\ e.role = Route[c + 1]
      /\ what = "APPROVE" => new = c + 1
      /\ what = "SEND_BACK" => new = IF c > 0 THEN c - 1 ELSE 0
      /\ what \in {"HOLD", "RELEASE_HOLD", "ADJUST"} => new = c
  BY <1>1 DEF Carries
<1>4. PICK start \in Of(n) :
        /\ ledger[start].action \in {"SUBMIT", "RESUBMIT"}
        /\ \A i \in Of(n) : i > start => ledger[i].action \notin {"SUBMIT", "RESUBMIT"}
        /\ \A k \in 1..c :
            \/ \E a \in (c + 1)..Len(Route) : Route[a] = Route[k]
            \/ Answered(n, start, Route[k])
  <2>1. rows[n].status \in InChain \cup Final
    BY <1>3
  <2> QED
    BY <1>1, <2>1 DEF Pass
<1>5. start \in Of(n)' /\ start < m /\ start \in Nat /\ ledger'[start] = ledger[start]
  BY DEF Added
<1>6. \A i \in Of(n)' : i > start => ledger'[i].action \notin {"SUBMIT", "RESUBMIT"}
  BY <1>4 DEF Added, Actions
<1>7. what = "APPROVE" => Answered(n, start, e.role)'
  <2>1. m \in Of(n)' /\ ledger'[m] = e /\ \A j \in Of(n)' : ~(j > m)
    BY DEF Added
  <2> QED
    BY <1>5, <2>1 DEF Answered
<1>8. ASSUME NEW k \in 1..new
      PROVE  \/ \E a \in (new + 1)..Len(Route) : Route[a] = Route[k]
             \/ Answered(n, start, Route[k])'
  <2>1. CASE Route[k] = Route[c + 1]
    <3>1. CASE what = "APPROVE"
      BY <1>3, <1>7, <2>1, <3>1
    <3>2. CASE what # "APPROVE"
      <4>1. c + 1 \in (new + 1)..Len(Route)
        BY <1>2, <1>3, <1>8, <3>2 DEF Actions
      <4> QED
        BY <2>1, <4>1
    <3> QED
      BY <3>1, <3>2
  <2>2. CASE Route[k] # Route[c + 1]
    <3>1. k \in 1..c
      <4>1. k # c + 1
        BY <2>2
      <4> QED
        BY <1>2, <1>3, <4>1 DEF Actions
    <3>2. ASSUME NEW a \in (c + 1)..Len(Route), Route[a] = Route[k]
          PROVE  a \in (new + 1)..Len(Route)
      <4>1. a # c + 1
        BY <2>2, <3>2
      <4>2. new <= c + 1
        BY <1>2, <1>3 DEF Actions
      <4> QED
        BY <1>2, <4>1, <4>2
    <3>3. CASE Answered(n, start, Route[k])
      BY <1>3, <2>2, <3>3, AnsweredKept
    <3> QED
      BY <1>4, <3>1, <3>2, <3>3
  <2> QED
    BY <2>1, <2>2
<1> QED
  BY <1>1, <1>4, <1>5, <1>6, <1>8

LEMMA PassKept ==
    ASSUME IInv, IInv', NEW n \in Ids, Clean(n), Pass(n)
    PROVE  Pass(n)'
<1>1. CASE Same(n)
  BY <1>1 DEF Same, Pass, Answered
<1>2. CASE Fresh(n)
  BY <1>2 DEF Fresh, Pass, Unsubmitted, InChain, Actionable, Final
<1>3. CASE Acted(n)
  <2>1. PICK m \in Nat, e \in Entries, what \in Actual :
          /\ Added(n, m, e)
          /\ e.action = IF what = "DECLINE" THEN "REJECT" ELSE what
          /\ Carries(what, e.role, rows[n], rows'[n])
    BY <1>3, ActedFacts
  <2>2. CASE what \in {"SUBMIT", "RESUBMIT"}
    <3>1. rows'[n].status = "PENDING_APPROVAL" /\ rows'[n].chain_index = 0
      BY <2>1, <2>2 DEF Carries
    <3>2. /\ m \in Of(n)' /\ ledger'[m].action \in {"SUBMIT", "RESUBMIT"}
          /\ \A i \in Of(n)' : ~(i > m)
      BY <2>1, <2>2 DEF Added
    <3> QED
      BY <3>1, <3>2 DEF Pass, Final
  <2>3. CASE what \in {"DECLINE", "REJECT"}
    <3>1. rows'[n].status = "REJECTED"
      BY <2>1, <2>3 DEF Carries
    <3> QED
      BY <3>1 DEF Pass, InChain, Actionable, Final
  <2>4. CASE what \in Actions \ {"REJECT"}
    <3>1. e.action = what
      BY <2>1, <2>4 DEF Actions
    <3>2. rows'[n].status \in Final => rows'[n].chain_index = Len(Route)
      BY <2>1, <2>4 DEF Carries, Actions, Final
    <3> QED
      BY <2>1, <2>4, <3>1, <3>2, PassGoesOn DEF Pass
  <2> QED
    BY <2>2, <2>3, <2>4 DEF Actual
<1>4. CASE Amended(n)
  <2>1. Of(n)' = Of(n) /\ \A i \in Of(n) : ledger'[i] = ledger[i]
    BY <1>4, OfSame DEF Amended
  <2>2. /\ rows'[n].status \in InChain \cup Final => rows[n].status \in InChain \cup Final
        /\ rows'[n].status \in Final => rows[n].status \in Final
        /\ rows'[n].chain_index = rows[n].chain_index
    BY <1>4 DEF Amended, Syncable, EditableStatuses, InChain, Actionable, Final
  <2> QED
    BY <2>1, <2>2 DEF Pass, Answered
<1> QED
  BY <1>1, <1>2, <1>3, <1>4 DEF Clean
----------------------------------------------------------------------------
LEMMA InitStories == Init => SInv
<1> SUFFICES ASSUME Init PROVE SInv
  OBVIOUS
<1>1. Busy = {}
  BY DEF Init, Busy
<1>2. 1..Len(ledger) = {} /\ \A n : Of(n) = {}
  BY DEF Init, Of
<1>3. ASSUME NEW n \in Ids PROVE Story(n)
  <2>1. rows[n].status = "NOT_EVALUABLE"
    BY <1>3 DEF Init, NoRow
  <2> QED
    BY <1>2, <2>1 DEF Story, Versioned, Standing, Tells, Pass, Unsubmitted, InChain, Actionable, Final
<1> QED
  BY <1>1, <1>2, <1>3 DEF SInv, JobsMove, EntriesNumbered, Stories

LEMMA NextStories ==
    ASSUME IInv, IInv', SInv, [Next]_vars
    PROVE  SInv'
<1>1. RulesHeld' /\ \A n \in Ids \ raced' : Clean(n)
  BY StepClean DEF SInv, RulesHeld
<1>2. ASSUME NEW n \in Ids \ raced' PROVE Story(n)'
  <2>1. Clean(n) /\ Story(n)
    BY <1>1, <1>2 DEF Clean, SInv, Stories
  <2> QED
    BY <2>1, VersionedKept, StandingKept, TellsKept, PassKept DEF Story
<1> QED
  BY <1>1, <1>2 DEF SInv, RulesHeld, Stories

LEMMA InductiveStories == Spec => []SInv
<1>1. IInv /\ IInv' /\ SInv /\ [Next]_vars => SInv'
  BY NextStories
<1> QED
  BY InitStories, Inductive, <1>1, PTL DEF Spec

\* When nothing raced, a version number in the ledger names one set of figures
\* of its row, through any number of adjustments and rebuilds
\* (oar_exclusions, refresh_recommendation: current_version).
THEOREM VersionsName == Spec => []VersionNames
<1>1. SInv => VersionNames
  BY DEF SInv, Stories, Story, Versioned, VersionNames
<1> QED
  BY InductiveStories, <1>1, PTL

\* When nothing raced, what an approver signed since the last submission or
\* send-back are the figures the row shows (oar_exclusions._require_editable).
THEOREM FiguresSigned == Spec => []SignedFigures
<1>1. SInv => SignedFigures
  BY DEF SInv, Stories, Story, Standing, Live, SignedFigures
<1> QED
  BY InductiveStories, <1>1, PTL

\* When nothing raced, the entries of a row follow on each other and lead to
\* its status; only a rebuild before submission and a report of execution after
\* final approval move it without an entry (ledger.py, apply_approval_action).
THEOREM LedgerFollows == Spec => []LedgerTells
<1>1. SInv => LedgerTells
  BY DEF SInv, Stories, Story, Tells, LedgerTells
<1> QED
  BY InductiveStories, <1>1, PTL

\* When nothing raced, a row that awaits execution has, in the pass that led
\* there, the APPROVE of every role of its route as that role's last word, for
\* routes of any length and with a role that comes back
\* (workflow.apply_action, workflow._advance).
THEOREM LastWordApproves == Spec => []LastWord
<1>1. SInv => LastWord
  <2> SUFFICES ASSUME SInv, NEW n \in Ids \ raced, rows[n].status \in Final
               PROVE  \E start \in Of(n) :
                        /\ ledger[start].action \in {"SUBMIT", "RESUBMIT"}
                        /\ \A i \in Of(n) : i > start => ledger[i].action \notin {"SUBMIT", "RESUBMIT"}
                        /\ \A k \in 1..Len(Route) : Answered(n, start, Route[k])
    BY DEF LastWord, Answered
  <2>1. Pass(n) /\ rows[n].chain_index = Len(Route)
    BY DEF SInv, Stories, Story, Pass
  <2>2. PICK start \in Of(n) :
            /\ ledger[start].action \in {"SUBMIT", "RESUBMIT"}
            /\ \A i \in Of(n) : i > start => ledger[i].action \notin {"SUBMIT", "RESUBMIT"}
            /\ \A k \in 1..Len(Route) :
                \/ \E m \in (Len(Route) + 1)..Len(Route) : Route[m] = Route[k]
                \/ Answered(n, start, Route[k])
    BY <2>1 DEF Pass
  <2>3. (Len(Route) + 1)..Len(Route) = {}
    BY RouteFacts
  <2> QED
    BY <2>2, <2>3
<1> QED
  BY InductiveStories, <1>1, PTL
=============================================================================
