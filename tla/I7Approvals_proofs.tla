------------------------ MODULE I7Approvals_proofs ------------------------
(* Proofs about I7Approvals for every route and any number of requests that  *)
(* race over a row: types, the release only of rows every role approved, and *)
(* that the API implements I7SignOff.                                        *)
EXTENDS I7Approvals, SequenceTheorems, TLAPS

Signatories == {Route[k] : k \in 1..Len(Route)}
Writes == Actions \cup {"SUBMIT", "RESUBMIT", "DECLINE", "EXECUTED", "EDIT", "SYNC"}

\* What a request means to store is reached from what it loaded by one rule.
Proper(job) ==
    /\ job.what = "APPROVE" =>
        /\ job.seen.chain_index < Len(Route) /\ job.role = Route[job.seen.chain_index + 1]
        /\ job.new.chain_index = job.seen.chain_index + 1
        /\ job.new.status \in Final => job.new.chain_index = Len(Route)
    /\ job.what # "APPROVE" =>
        /\ job.new.chain_index <= job.seen.chain_index
        /\ job.new.status \in Final => job.seen.status \in Final

\* A row copy, stored or loaded, that the ledger backs: every role below its
\* chain_index approved row n, and all of them if it is past final approval.
Backed(n, row) ==
    /\ \A k \in 1..row.chain_index : ApprovedBy(n, Route[k])
    /\ row.status \in Final => \A k \in 1..Len(Route) : ApprovedBy(n, Route[k])

RowsBacked == \A n \in Ids : Backed(n, rows[n])
JobsBacked == \A r \in Busy : Proper(open[r]) /\ Backed(open[r].row, open[r].seen)

IInv == TypeOK /\ RowsBacked /\ JobsBacked

----------------------------------------------------------------------------
(* Facts about the route and the pure functions.                             *)

LEMMA RouteFacts ==
    /\ Len(Route) \in Nat /\ Len(Route) >= 1
    /\ \A k \in 1..Len(Route) : Route[k] \in Roles
    /\ 0 \in 0..Len(Route)
<1>1. Route \in Seq(Roles) /\ Route # <<>>
  BY ChainAssumption
<1>2. Len(Route) \in Nat /\ Len(Route) # 0
  BY <1>1
<1>3. \A k \in 1..Len(Route) : Route[k] \in Roles
  BY <1>1
<1> QED
  BY <1>2, <1>3

\* What each action makes of a row is a row again.
LEMMA ApplyType ==
    ASSUME NEW row \in Row, NEW action \in Actions, NEW role, NEW commented,
           Valid(row, action, role, commented)
    PROVE  ApplyAction(row, action) \in Row
<1>1. row.chain_index + 1 \in 0..Len(Route) /\ row.chain_index \in Nat
  BY RouteFacts DEF Valid, HasPendingRole, Row
<1>2. Advanced(row) \in Row
  BY <1>1 DEF Advanced, Row, Statuses
<1>3. SteppedBack(row) \in Row
  <2>1. (IF row.chain_index > 0 THEN row.chain_index - 1 ELSE 0) \in 0..Len(Route)
    BY <1>1, RouteFacts
  <2> QED
    BY <2>1 DEF SteppedBack, Row, Statuses
<1>4. Adjusted(row) \in Row
  <2>1. row.adjustment_count + 1 \in Nat /\ row.current_version + 1 \in Nat
    BY DEF Row
  <2> QED
    BY <2>1 DEF Adjusted, Row, Statuses
<1>5. /\ [row EXCEPT !.status = "REJECTED"] \in Row
      /\ [row EXCEPT !.status = "HELD"] \in Row
      /\ [row EXCEPT !.status = "PENDING_APPROVAL"] \in Row
  BY DEF Row, Statuses
<1> QED
  BY <1>2, <1>3, <1>4, <1>5 DEF ApplyAction, Actions

\* Only an approval moves a row up its chain or past it.
LEMMA ApplyProper ==
    ASSUME NEW row \in Row, NEW action \in Actions, NEW role, NEW commented,
           Valid(row, action, role, commented)
    PROVE  LET new == ApplyAction(row, action) IN
           /\ action = "APPROVE" =>
                /\ row.chain_index < Len(Route) /\ role = Route[row.chain_index + 1]
                /\ new.chain_index = row.chain_index + 1
                /\ new.status \in Final => new.chain_index = Len(Route)
           /\ action # "APPROVE" =>
                new.chain_index <= row.chain_index /\ new.status \notin Final
<1>1. row.chain_index \in Nat /\ row.chain_index < Len(Route) /\ role = Route[row.chain_index + 1]
  BY RouteFacts DEF Valid, HasPendingRole, PendingRole, Row
<1>2. CASE action = "APPROVE"
  <2>1. ApplyAction(row, action) = Advanced(row)
    BY <1>2 DEF ApplyAction
  <2>2. Advanced(row).chain_index = row.chain_index + 1
    BY DEF Advanced, Row
  <2>3. Advanced(row).status \in Final => row.chain_index + 1 >= Len(Route)
    BY DEF Advanced, Row, Final
  <2> QED
    BY <1>1, <1>2, <2>1, <2>2, <2>3, RouteFacts
<1>3. CASE action = "REJECT"
  BY <1>1, <1>3 DEF ApplyAction, Row, Final
<1>4. CASE action = "SEND_BACK"
  <2>1. ApplyAction(row, action) = SteppedBack(row)
    BY <1>4 DEF ApplyAction
  <2>2. SteppedBack(row).chain_index <= row.chain_index /\ SteppedBack(row).status = "SENT_BACK"
    BY <1>1 DEF SteppedBack, Row
  <2> QED
    BY <1>4, <2>1, <2>2 DEF Final
<1>5. CASE action = "HOLD"
  BY <1>1, <1>5 DEF ApplyAction, Row, Final
<1>6. CASE action = "RELEASE_HOLD"
  BY <1>1, <1>6 DEF ApplyAction, Row, Final
<1>7. CASE action = "ADJUST"
  <2>1. ApplyAction(row, action) = Adjusted(row)
    BY <1>7 DEF ApplyAction
  <2>2. Adjusted(row).chain_index = row.chain_index /\ Adjusted(row).status = "PENDING_APPROVAL"
    BY DEF Adjusted, Row
  <2> QED
    BY <1>1, <1>7, <2>1, <2>2 DEF Final
<1> QED
  BY <1>2, <1>3, <1>4, <1>5, <1>6, <1>7 DEF Actions

\* A column write keeps a row a row, and each column is the stored or the new.
LEMMA DirtyFacts ==
    ASSUME NEW now \in Row, NEW seen \in Row, NEW new \in Row
    PROVE  LET w == DirtyWrite(now, seen, new) IN
           /\ w \in Row
           /\ w.chain_index = now.chain_index \/ w.chain_index = new.chain_index
           /\ w.status = now.status \/ w.status = new.status
<1>1. DOMAIN now = {"status", "chain_index", "adjustment_count", "current_version", "valued", "figures"}
  BY DEF Row
<1> DEFINE w == DirtyWrite(now, seen, new)
<1>2. w = [c \in {"status", "chain_index", "adjustment_count", "current_version", "valued", "figures"} |->
            IF new[c] = seen[c] THEN now[c] ELSE new[c]]
  BY <1>1 DEF DirtyWrite
<1>3. /\ w.status = now.status \/ w.status = new.status
      /\ w.chain_index = now.chain_index \/ w.chain_index = new.chain_index
      /\ w.adjustment_count = now.adjustment_count \/ w.adjustment_count = new.adjustment_count
      /\ w.current_version = now.current_version \/ w.current_version = new.current_version
      /\ w.valued = now.valued \/ w.valued = new.valued
      /\ w.figures = now.figures \/ w.figures = new.figures
  BY <1>2
<1>4. w \in Row
  <2>1. /\ w.status \in Statuses /\ w.chain_index \in 0..Len(Route)
        /\ w.adjustment_count \in Nat /\ w.current_version \in Nat
        /\ w.figures \in 0..MaxEdits
    BY <1>3 DEF Row
  <2>2. w.valued \in BOOLEAN
    <3>1. now.valued \in BOOLEAN /\ new.valued \in BOOLEAN
      BY DEF Row
    <3> QED
      BY <1>3, <3>1
  <2>3. w = [status |-> w.status, chain_index |-> w.chain_index, adjustment_count |-> w.adjustment_count,
             current_version |-> w.current_version, valued |-> w.valued, figures |-> w.figures]
    BY <1>2
  <2> HIDE DEF w
  <2> QED
    BY <2>1, <2>2, <2>3 DEF Row
<1> QED
  BY <1>3, <1>4

\* A row copy that is already what it will be, or moved by a write, is a row.
LEMMA NoRowFacts == NoRow \in Row /\ NoRow.status = "NOT_EVALUABLE" /\ NoRow.chain_index = 0
<1>1. 0 \in 0..MaxEdits
  BY ChainAssumption
<1> QED
  BY <1>1, RouteFacts DEF NoRow, Row, Statuses

LEMMA EnteredType ==
    ASSUME NEW row \in Row
    PROVE  /\ Entered(row) \in Row
           /\ Entered(row).chain_index = 0 /\ Entered(row).status = "PENDING_APPROVAL"
BY RouteFacts DEF Entered, Row, Statuses

\* Idle is no job.
LEMMA IdleNoJob == Idle \notin Jobs
BY DEF Idle, Jobs

----------------------------------------------------------------------------
(* Approvals are never lost: the ledger only grows.                          *)

LEMMA ApprovalsKept ==
    ASSUME NEW e \in Entries, ledger \in Seq(Entries), ledger' = Append(ledger, e),
           NEW n, NEW role
    PROVE  ApprovedBy(n, role)' <=>
              ApprovedBy(n, role) \/ (e.row = n /\ e.action = "APPROVE" /\ e.role = role)
<1>1. /\ Len(ledger') = Len(ledger) + 1 /\ Len(ledger) \in Nat
      /\ \A i \in 1..Len(ledger) : ledger'[i] = ledger[i]
      /\ ledger'[Len(ledger) + 1] = e
  BY AppendProperties
<1>2. ApprovedBy(n, role) => ApprovedBy(n, role)'
  BY <1>1 DEF ApprovedBy
<1>3. (e.row = n /\ e.action = "APPROVE" /\ e.role = role) => ApprovedBy(n, role)'
  <2>1. Len(ledger) + 1 \in 1..Len(ledger')
    BY <1>1
  <2> QED
    BY <1>1, <2>1 DEF ApprovedBy
<1>4. ApprovedBy(n, role)' => ApprovedBy(n, role) \/ (e.row = n /\ e.action = "APPROVE" /\ e.role = role)
  <2> SUFFICES ASSUME NEW i \in 1..Len(ledger'), ledger'[i].row = n, ledger'[i].action = "APPROVE",
                      ledger'[i].role = role
               PROVE  ApprovedBy(n, role) \/ (e.row = n /\ e.action = "APPROVE" /\ e.role = role)
    BY DEF ApprovedBy
  <2>1. CASE i \in 1..Len(ledger)
    BY <1>1, <2>1 DEF ApprovedBy
  <2>2. CASE i = Len(ledger) + 1
    BY <1>1, <2>2
  <2> QED
    BY <1>1, <2>1, <2>2
<1> QED
  BY <1>2, <1>3, <1>4

LEMMA ApprovalsSame ==
    ASSUME UNCHANGED ledger, NEW n, NEW role
    PROVE  ApprovedBy(n, role)' <=> ApprovedBy(n, role)
BY DEF ApprovedBy

----------------------------------------------------------------------------
(* Init, then the steps: loading a request, committing one, the others.      *)

LEMMA InitIInv == Init => IInv
<1> SUFFICES ASSUME Init PROVE IInv
  OBVIOUS
<1>1. TypeOK
  <2>1. rows \in [Ids -> Row] /\ count \in 0..MaxRows /\ edits \in 0..MaxEdits /\ newest \in Nat
    BY NoRowFacts, ChainAssumption DEF Init
  <2>2. ledger \in Seq(Entries) /\ Len(ledger) = 0
    BY DEF Init
  <2>3. count + Len(ledger) <= MaxWork
    BY <2>2, ChainAssumption DEF Init
  <2>4. open \in [Requests -> Jobs \cup {Idle}] /\ raced \subseteq Ids
    BY DEF Init
  <2> QED
    BY <2>1, <2>2, <2>3, <2>4 DEF TypeOK
<1>2. RowsBacked
  <2>1. \A n \in Ids : rows[n] = NoRow
    BY DEF Init
  <2>2. NoRow.status \notin Final
    BY NoRowFacts DEF Final
  <2> QED
    BY <2>1, <2>2, NoRowFacts DEF RowsBacked, Backed
<1>3. JobsBacked
  BY DEF JobsBacked, Busy, Init
<1> QED
  BY <1>1, <1>2, <1>3 DEF IInv

\* Loading the newest row keeps everything, if the new row follows a rule.
LEMMA LoadIInv ==
    ASSUME IInv, NEW r \in Requests, NEW what \in Writes, NEW role \in Roles, NEW new \in Row,
           count > 0, Load(r, what, role, new),
           Proper([what |-> what, role |-> role, row |-> count, seen |-> rows[count],
                   new |-> new, edits |-> edits])
    PROVE  IInv' /\ UNCHANGED <<rows, ledger>>
<1> DEFINE job == [what |-> what, role |-> role, row |-> count, seen |-> rows[count],
                   new |-> new, edits |-> edits]
<1>1. job \in Jobs
  <2>1. count \in Ids /\ rows[count] \in Row /\ edits \in 0..MaxEdits
    BY ChainAssumption DEF IInv, TypeOK, Ids
  <2> QED
    BY <2>1 DEF Jobs, Writes
<1>2. open' = [open EXCEPT ![r] = job] /\ UNCHANGED <<rows, count, ledger, newest, edits, raced>>
  BY DEF Load
<1>3. TypeOK'
  <2>1. open' \in [Requests -> Jobs \cup {Idle}]
    BY <1>1, <1>2 DEF IInv, TypeOK
  <2> HIDE DEF job
  <2> QED
    BY <1>2, <2>1 DEF IInv, TypeOK
<1>4. RowsBacked'
  BY <1>2, ApprovalsSame DEF IInv, RowsBacked, Backed
<1>5. JobsBacked'
  <2> SUFFICES ASSUME NEW q \in Busy' PROVE (Proper(open[q]) /\ Backed(open[q].row, open[q].seen))'
    BY DEF JobsBacked
  <2>1. q \in Requests /\ open'[q] # Idle
    BY DEF Busy
  <2>2. CASE q = r
    <3>1. open'[q] = job
      BY <1>2, <2>1, <2>2 DEF IInv, TypeOK
    <3>a. count \in Ids
      BY ChainAssumption DEF IInv, TypeOK, Ids
    <3>b. job.row = count /\ job.seen = rows[count]
      OBVIOUS
    <3>c. Proper(job)
      OBVIOUS
    <3>2. Proper(job) /\ job.row = count /\ job.seen = rows[count] /\ count \in Ids
      BY <3>a, <3>b, <3>c
    <3>3. Backed(count, rows[count])
      BY <3>2 DEF IInv, RowsBacked
    <3>4. Backed(job.row, job.seen)
      BY <3>2, <3>3
    <3> HIDE DEF job
    <3>5. \A n, row : Backed(n, row) => Backed(n, row)'
      BY <1>2, ApprovalsSame DEF Backed
    <3> QED
      BY <3>1, <3>2, <3>4, <3>5 DEF Proper, Backed
  <2>3. CASE q # r
    <3>1. open'[q] = open[q] /\ q \in Busy
      BY <1>2, <2>1, <2>3 DEF IInv, TypeOK, Busy
    <3>2. Proper(open[q]) /\ Backed(open[q].row, open[q].seen)
      BY <3>1 DEF IInv, JobsBacked
    <3> QED
      BY <1>2, <3>1, <3>2 DEF Proper, Backed, ApprovedBy
  <2> QED
    BY <2>2, <2>3
<1> QED
  BY <1>2, <1>3, <1>4, <1>5 DEF IInv

\* What the ledger backs, a longer ledger backs.
LEMMA BackedKept ==
    ASSUME ledger \in Seq(Entries),
           UNCHANGED ledger \/ \E e \in Entries : ledger' = Append(ledger, e)
    PROVE  \A n, row : Backed(n, row) => Backed(n, row)'
<1>1. \A n, role : ApprovedBy(n, role) => ApprovedBy(n, role)'
  BY ApprovalsKept, ApprovalsSame
<1> QED
  BY <1>1 DEF Backed

\* A job and the row it is about.
LEMMA JobFacts ==
    ASSUME IInv, NEW r \in Busy
    PROVE  /\ r \in Requests /\ open[r] \in Jobs /\ open[r].row \in Ids
           /\ open[r].seen \in Row /\ open[r].new \in Row /\ open[r].role \in Roles
           /\ rows[open[r].row] \in Row
           /\ Proper(open[r]) /\ Backed(open[r].row, open[r].seen)
<1>1. r \in Requests /\ open[r] \in Jobs
  BY DEF IInv, TypeOK, Busy
<1>2. open[r].row \in Ids /\ open[r].seen \in Row /\ open[r].new \in Row /\ open[r].role \in Roles
  BY <1>1 DEF Jobs
<1> QED
  BY <1>1, <1>2 DEF IInv, TypeOK, JobsBacked

\* The same of a set of signatories.
BackedBy(signed, row) ==
    /\ \A k \in 1..row.chain_index : Route[k] \in signed
    /\ row.status \in Final => \A k \in 1..Len(Route) : Route[k] \in signed

\* A row backed by its signatories stays so by what a commit writes over it.
LEMMA WriteBacked ==
    ASSUME NEW signed, NEW now \in Row, NEW seen \in Row, NEW new \in Row, NEW job,
           BackedBy(signed, now), BackedBy(signed, seen),
           Proper(job), job.seen = seen,
           new.chain_index = job.new.chain_index, new.status = job.new.status,
           job.what = "APPROVE" => job.role \in signed
    PROVE  BackedBy(signed, DirtyWrite(now, seen, new))
<1> DEFINE w == DirtyWrite(now, seen, new)
<1>1. /\ w \in Row
      /\ w.chain_index = now.chain_index \/ w.chain_index = new.chain_index
      /\ w.status = now.status \/ w.status = new.status
  BY DirtyFacts
<1>2. /\ now.chain_index \in Nat /\ seen.chain_index \in Nat /\ new.chain_index \in Nat
      /\ new.chain_index <= Len(Route)
  BY RouteFacts DEF Row
<1>3. \A k \in 1..new.chain_index : Route[k] \in signed
  <2>1. CASE job.what = "APPROVE"
    <3>1. new.chain_index = seen.chain_index + 1 /\ job.role = Route[seen.chain_index + 1]
      BY <2>1 DEF Proper
    <3>2. \A k \in 1..seen.chain_index : Route[k] \in signed
      BY DEF BackedBy
    <3> QED
      BY <1>2, <2>1, <3>1, <3>2
  <2>2. CASE job.what # "APPROVE"
    BY <1>2, <2>2 DEF Proper, BackedBy
  <2> QED
    BY <2>1, <2>2
<1>4. new.status \in Final => \A k \in 1..Len(Route) : Route[k] \in signed
  <2>1. CASE job.what = "APPROVE"
    BY <1>3, <2>1 DEF Proper
  <2>2. CASE job.what # "APPROVE"
    BY <2>2 DEF Proper, BackedBy
  <2> QED
    BY <2>1, <2>2
<1>5. \A k \in 1..w.chain_index : Route[k] \in signed
  BY <1>1, <1>3 DEF BackedBy
<1>6. w.status \in Final => \A k \in 1..Len(Route) : Route[k] \in signed
  BY <1>1, <1>4 DEF BackedBy
<1> QED
  BY <1>5, <1>6 DEF BackedBy

\* A commit keeps rows and the other requests' copies backed.
LEMMA StoreIInv ==
    ASSUME IInv, NEW r \in Busy, NEW new \in Row, Store(r, new),
           new.chain_index = open[r].new.chain_index, new.status = open[r].new.status,
           UNCHANGED ledger \/ \E e \in Entries : ledger' = Append(ledger, e),
           \A n, role : (open[r].what = "APPROVE" /\ n = open[r].row /\ role = open[r].role) =>
                            ApprovedBy(n, role)'
    PROVE  /\ rows' \in [Ids -> Row] /\ open' \in [Requests -> Jobs \cup {Idle}]
           /\ raced' \subseteq Ids /\ count' = count
           /\ RowsBacked' /\ JobsBacked'
<1> DEFINE job == open[r]
<1>1. /\ r \in Requests /\ job.row \in Ids /\ job.seen \in Row /\ rows[job.row] \in Row
      /\ Proper(job) /\ Backed(job.row, job.seen)
  BY JobFacts
<1>2. \A n, row : Backed(n, row) => Backed(n, row)'
  BY BackedKept DEF IInv, TypeOK
<1>3. /\ rows' = [rows EXCEPT ![job.row] = DirtyWrite(rows[job.row], job.seen, new)]
      /\ open' = [open EXCEPT ![r] = Idle] /\ count' = count
  BY DEF Store
<1>4. DirtyWrite(rows[job.row], job.seen, new) \in Row
  BY <1>1, DirtyFacts
<1>5. rows' \in [Ids -> Row] /\ open' \in [Requests -> Jobs \cup {Idle}] /\ raced' \subseteq Ids
  BY <1>1, <1>3, <1>4 DEF IInv, TypeOK, Store
<1>6. RowsBacked'
  <2> SUFFICES ASSUME NEW n \in Ids PROVE Backed(n, rows[n])'
    BY DEF RowsBacked, Ids
  <2>1. CASE n = job.row
    <3>0. PICK j : j = job
      OBVIOUS
    <3>1. PICK seen \in Row, now \in Row : seen = job.seen /\ now = rows[job.row] /\ j = job
      BY <1>1, <3>0
    <3>2. Backed(n, now) /\ Backed(n, seen)
      BY <1>1, <2>1, <3>1 DEF IInv, RowsBacked
    <3>3. Backed(n, now)' /\ Backed(n, seen)'
      BY <1>2, <3>2
    <3>4. j.what = "APPROVE" => ApprovedBy(n, j.role)'
      BY <2>1, <3>1
    <3>s. PICK signed \in SUBSET Roles : \A role \in Roles : role \in signed <=> ApprovedBy(n, role)'
      <4> DEFINE S == {role \in Roles : ApprovedBy(n, role)'}
      <4>1. S \in SUBSET Roles
        OBVIOUS
      <4>2. \A role \in Roles : role \in S <=> ApprovedBy(n, role)'
        OBVIOUS
      <4> HIDE DEF S
      <4> QED
        BY <4>1, <4>2
    <3>r. \A k \in 1..Len(Route) : Route[k] \in signed <=> ApprovedBy(n, Route[k])'
      BY <3>s, RouteFacts
    <3>t. \A row \in Row : Backed(n, row)' <=> BackedBy(signed, row)
      <4> SUFFICES ASSUME NEW row \in Row PROVE Backed(n, row)' <=> BackedBy(signed, row)
        OBVIOUS
      <4>1. \A k \in 1..row.chain_index : k \in 1..Len(Route)
        <5>1. row.chain_index \in 0..Len(Route)
          BY DEF Row
        <5> QED
          BY <5>1, RouteFacts
      <4> QED
        BY <3>r, <4>1 DEF Backed, BackedBy
    <3>u. j.what = "APPROVE" => j.role \in signed
      BY <1>1, <3>1, <3>4, <3>s, JobFacts
    <3>v. BackedBy(signed, now) /\ BackedBy(signed, seen)
      BY <3>3, <3>t
    <3>5. Proper(j) /\ j.seen = seen /\ new.chain_index = j.new.chain_index /\ new.status = j.new.status
      BY <1>1, <3>1
    <3>6. BackedBy(signed, DirtyWrite(now, seen, new))
      BY <3>u, <3>v, <3>5, WriteBacked
    <3>7. rows'[n] = DirtyWrite(now, seen, new) /\ rows'[n] \in Row
      BY <1>1, <1>3, <1>4, <2>1, <3>1 DEF IInv, TypeOK
    <3> QED
      BY <3>6, <3>7, <3>t
  <2>2. CASE n # job.row
    BY <1>1, <1>2, <1>3, <2>2 DEF IInv, TypeOK, RowsBacked
  <2> QED
    BY <2>1, <2>2
<1>7. JobsBacked'
  <2> SUFFICES ASSUME NEW q \in Busy' PROVE (Proper(open[q]) /\ Backed(open[q].row, open[q].seen))'
    BY DEF JobsBacked
  <2>1. q \in Requests /\ q # r /\ open'[q] = open[q] /\ q \in Busy
    BY <1>1, <1>3 DEF Busy, IInv, TypeOK
  <2>2. Proper(open[q]) /\ Backed(open[q].row, open[q].seen)
    BY <2>1 DEF IInv, JobsBacked
  <2> QED
    BY <1>2, <2>1, <2>2 DEF Proper, Backed
<1> QED
  BY <1>3, <1>5, <1>6, <1>7

----------------------------------------------------------------------------
(* One lemma per action.  Each also says what I7SignOff needs: the ledger is *)
(* left alone or gains one entry about the row the commit writes.            *)

\* How a step may touch rows and ledger.
Quiet == UNCHANGED <<rows, ledger>>
Decision == \E n \in Ids :
    /\ \A m \in Ids \ {n} : rows'[m] = rows[m]
    /\ UNCHANGED ledger \/ \E e \in Entries : e.row = n /\ ledger' = Append(ledger, e)

LEMMA CountFacts ==
    ASSUME IInv, count > 0
    PROVE  count \in Ids /\ rows[count] \in Row /\ rows[count].chain_index \in Nat
BY ChainAssumption, RouteFacts DEF IInv, TypeOK, Ids, Row

LEMMA GenerateStep == IInv /\ Generate => IInv' /\ Decision
<1> SUFFICES ASSUME IInv, Generate PROVE IInv' /\ Decision
  OBVIOUS
<1>1. count + 1 \in Ids /\ count' = count + 1 /\ count' \in 0..MaxRows
      /\ UNCHANGED <<ledger, newest, edits, open, raced>>
  BY ChainAssumption DEF IInv, TypeOK, Generate, Ids
<1>2. PICK row \in Row : /\ rows' = [rows EXCEPT ![count + 1] = row]
                         /\ row.status \notin Final /\ row.chain_index = 0
  <2>1. PICK evaluable, valued \in BOOLEAN :
            rows' = [rows EXCEPT ![count + 1] =
                [NoRow EXCEPT !.status = IF evaluable THEN "READY_FOR_REVIEW" ELSE "NOT_EVALUABLE",
                              !.valued = valued]]
    BY DEF Generate
  <2> DEFINE row == [NoRow EXCEPT !.status = IF evaluable THEN "READY_FOR_REVIEW" ELSE "NOT_EVALUABLE",
                                  !.valued = valued]
  <2>2. row \in Row /\ row.status \notin Final /\ row.chain_index = 0
    BY NoRowFacts DEF Row, NoRow, Statuses, Final
  <2>3. rows' = [rows EXCEPT ![count + 1] = row]
    BY <2>1
  <2> HIDE DEF row
  <2> QED
    BY <2>2, <2>3
<1>3. TypeOK'
  <2>1. Len(ledger) \in Nat /\ count + 1 + Len(ledger) <= MaxWork
    BY ChainAssumption DEF Generate, Room, IInv, TypeOK
  <2> QED
    BY <1>1, <1>2, <2>1 DEF IInv, TypeOK
<1>4. RowsBacked'
  <2>1. \A n, any : Backed(n, any) => Backed(n, any)'
    BY <1>1, BackedKept DEF IInv, TypeOK
  <2>2. \A n : Backed(n, row)
    BY <1>2 DEF Backed
  <2> QED
    BY <1>1, <1>2, <2>1, <2>2 DEF IInv, TypeOK, RowsBacked
<1>5. JobsBacked'
  <2>1. \A n, any : Backed(n, any) => Backed(n, any)'
    BY <1>1, BackedKept DEF IInv, TypeOK
  <2> QED
    BY <1>1, <2>1 DEF IInv, JobsBacked, Busy, Proper
<1>6. Decision
  BY <1>1, <1>2 DEF Decision, IInv, TypeOK
<1> QED
  BY <1>3, <1>4, <1>5, <1>6 DEF IInv

\* A request that enters, edits or reports leaves chain_index where it was or
\* at the first role, and never ends the chain.
LEMMA PlainProper ==
    ASSUME NEW what \in Writes, what # "APPROVE", NEW role, NEW row \in Ids, NEW seen \in Row,
           NEW new \in Row, NEW e,
           new.chain_index <= seen.chain_index,
           new.status \in Final => seen.status \in Final
    PROVE  Proper([what |-> what, role |-> role, row |-> row, seen |-> seen, new |-> new, edits |-> e])
BY DEF Proper

LEMMA SubmitStep == ASSUME IInv, NEW r \in Requests, Submit(r) PROVE IInv' /\ Quiet
<1> DEFINE what == IF Manual /\ rows[count].status = "REJECTED" THEN "RESUBMIT" ELSE "SUBMIT"
<1>1. count > 0 /\ Load(r, what, Route[1], Entered(rows[count]))
  BY DEF Submit
<1>2. /\ count \in Ids /\ rows[count] \in Row /\ Route[1] \in Roles /\ what \in Writes /\ what # "APPROVE"
      /\ Entered(rows[count]) \in Row /\ Entered(rows[count]).chain_index <= rows[count].chain_index
      /\ Entered(rows[count]).status \notin Final
  BY <1>1, CountFacts, RouteFacts, EnteredType DEF Writes, Final
<1>3. Proper([what |-> what, role |-> Route[1], row |-> count, seen |-> rows[count],
              new |-> Entered(rows[count]), edits |-> edits])
  BY <1>2, PlainProper
<1> HIDE DEF what
<1> QED
  BY <1>1, <1>2, <1>3, LoadIInv DEF Quiet

LEMMA RejectStep ==
    ASSUME IInv, NEW r \in Requests, NEW commented, RejectBeforeSubmission(r, commented) PROVE IInv' /\ Quiet
<1> DEFINE new == [rows[count] EXCEPT !.status = "REJECTED", !.chain_index = 0]
<1>1. count > 0 /\ Load(r, "DECLINE", Route[1], new)
  BY DEF RejectBeforeSubmission
<1>2. /\ count \in Ids /\ rows[count] \in Row /\ Route[1] \in Roles /\ "DECLINE" \in Writes
      /\ rows[count].chain_index \in Nat
  BY <1>1, CountFacts, RouteFacts DEF Writes
<1>3. new \in Row /\ new.chain_index <= rows[count].chain_index /\ new.status \notin Final
  <2>1. "REJECTED" \in Statuses /\ "REJECTED" \notin Final
    BY DEF Statuses, Final
  <2>2. new \in Row /\ new.chain_index = 0 /\ new.status = "REJECTED"
    BY <1>2, <2>1, RouteFacts DEF Row
  <2> HIDE DEF new
  <2> QED
    BY <1>2, <2>1, <2>2
<1> HIDE DEF new
<1>4. Proper([what |-> "DECLINE", role |-> Route[1], row |-> count, seen |-> rows[count],
              new |-> new, edits |-> edits])
  BY <1>2, <1>3, PlainProper
<1> QED
  BY <1>1, <1>2, <1>3, <1>4, LoadIInv DEF Quiet

LEMMA ActStep ==
    ASSUME IInv, NEW r \in Requests, NEW action \in Actions, NEW role \in Roles, NEW commented,
           Act(r, action, role, commented)
    PROVE  IInv' /\ Quiet
<1>1. /\ count > 0 /\ Valid(rows[count], action, role, commented)
      /\ Load(r, action, role, ApplyAction(rows[count], action))
  BY DEF Act
<1>2. /\ count \in Ids /\ rows[count] \in Row /\ action \in Writes
      /\ ApplyAction(rows[count], action) \in Row
  BY <1>1, CountFacts, ApplyType DEF Writes
<1>3. Proper([what |-> action, role |-> role, row |-> count, seen |-> rows[count],
              new |-> ApplyAction(rows[count], action), edits |-> edits])
  BY <1>1, <1>2, ApplyProper DEF Proper
<1> QED
  BY <1>1, <1>2, <1>3, LoadIInv DEF Quiet

LEMMA ReportStep == ASSUME IInv, NEW r \in Requests, ReportExecution(r) PROVE IInv' /\ Quiet
<1> DEFINE new == [rows[count] EXCEPT !.status = "SAP_EXECUTED"]
<1>1. count > 0 /\ Load(r, "EXECUTED", Route[1], new) /\ rows[count].status \in Final
  BY DEF ReportExecution, Final
<1>2. /\ count \in Ids /\ rows[count] \in Row /\ Route[1] \in Roles /\ "EXECUTED" \in Writes
      /\ rows[count].chain_index \in Nat
  BY <1>1, CountFacts, RouteFacts DEF Writes
<1>3. new \in Row /\ new.chain_index <= rows[count].chain_index
  BY <1>2, RouteFacts DEF Row, Statuses
<1> HIDE DEF new
<1>4. Proper([what |-> "EXECUTED", role |-> Route[1], row |-> count, seen |-> rows[count],
              new |-> new, edits |-> edits])
  BY <1>1, <1>2, <1>3, PlainProper
<1> QED
  BY <1>1, <1>2, <1>3, <1>4, LoadIInv DEF Quiet

LEMMA EditStep ==
    ASSUME IInv, NEW r \in Requests, NEW valued \in BOOLEAN, EditFigures(r, valued) PROVE IInv' /\ Quiet
<1> DEFINE new == [rows[count] EXCEPT !.valued = valued]
<1>1. count > 0 /\ Load(r, "EDIT", Route[1], new)
  BY DEF EditFigures
<1>2. /\ count \in Ids /\ rows[count] \in Row /\ Route[1] \in Roles /\ "EDIT" \in Writes
      /\ rows[count].chain_index \in Nat
  BY <1>1, CountFacts, RouteFacts DEF Writes
<1>3. new \in Row /\ new.chain_index <= rows[count].chain_index /\ new.status = rows[count].status
  BY <1>2 DEF Row
<1> HIDE DEF new
<1>4. Proper([what |-> "EDIT", role |-> Route[1], row |-> count, seen |-> rows[count],
              new |-> new, edits |-> edits])
  BY <1>2, <1>3, PlainProper
<1> QED
  BY <1>1, <1>2, <1>3, <1>4, LoadIInv DEF Quiet

LEMMA SyncStep ==
    ASSUME IInv, NEW r \in Requests, NEW evaluable \in BOOLEAN, NEW valued \in BOOLEAN,
           SyncFigures(r, evaluable, valued)
    PROVE  IInv' /\ Quiet
<1> DEFINE new == [rows[count] EXCEPT !.valued = valued,
                            !.status = IF rows[count].status = "SENT_BACK" THEN rows[count].status
                                       ELSE IF evaluable THEN "READY_FOR_REVIEW" ELSE "NOT_EVALUABLE"]
<1>1. count > 0 /\ Load(r, "SYNC", Route[1], new) /\ rows[count].status \in Syncable
  BY DEF SyncFigures
<1>2. /\ count \in Ids /\ rows[count] \in Row /\ Route[1] \in Roles /\ "SYNC" \in Writes
      /\ rows[count].chain_index \in Nat
  BY <1>1, CountFacts, RouteFacts DEF Writes
<1>3. new \in Row /\ new.chain_index <= rows[count].chain_index /\ new.status \notin Final
  <2> DEFINE st == IF rows[count].status = "SENT_BACK" THEN rows[count].status
                   ELSE IF evaluable THEN "READY_FOR_REVIEW" ELSE "NOT_EVALUABLE"
  <2>1. st \in Statuses /\ st \notin Final
    BY DEF Statuses, Final
  <2>2. new = [rows[count] EXCEPT !.valued = valued, !.status = st]
    OBVIOUS
  <2> HIDE DEF st, new
  <2>3. new \in Row /\ new.chain_index = rows[count].chain_index /\ new.status = st
    BY <1>2, <2>1, <2>2 DEF Row
  <2> QED
    BY <1>2, <2>1, <2>3
<1> HIDE DEF new
<1>4. Proper([what |-> "SYNC", role |-> Route[1], row |-> count, seen |-> rows[count],
              new |-> new, edits |-> edits])
  BY <1>2, <1>3, PlainProper
<1> QED
  BY <1>1, <1>2, <1>3, <1>4, LoadIInv DEF Quiet

\* The ledger entry of a job.
LEMMA EntryFacts ==
    ASSUME NEW job \in Jobs, job.what \in Actions \cup {"SUBMIT", "RESUBMIT", "DECLINE"}
    PROVE  /\ Entry(job) \in Entries /\ Entry(job).row = job.row /\ Entry(job).role = job.role
           /\ Entry(job).action = "APPROVE" <=> job.what = "APPROVE"
<1> DEFINE a == IF job.what = "DECLINE" THEN "REJECT" ELSE job.what
<1>1. a \in Actions \cup {"SUBMIT", "RESUBMIT"} /\ (a = "APPROVE" <=> job.what = "APPROVE")
  BY DEF Actions
<1>2. /\ job.row \in Ids /\ job.role \in Roles
      /\ job.seen.current_version \in Nat /\ job.seen.status \in Statuses
      /\ job.new.status \in Statuses /\ job.seen.figures \in 0..MaxEdits
  BY DEF Jobs, Row
<1>3. Entry(job) = [row |-> job.row, version |-> job.seen.current_version, role |-> job.role,
                    action |-> a, previous |-> job.seen.status, new |-> job.new.status,
                    figures |-> job.seen.figures]
  BY DEF Entry
<1> HIDE DEF a
<1> QED
  BY <1>1, <1>2, <1>3 DEF Entries

\* A commit touches only the row of its job.
LEMMA StoreOnlyRow ==
    ASSUME IInv, NEW r \in Busy, NEW new \in Row, Store(r, new)
    PROVE  \A m \in Ids : m # open[r].row => rows'[m] = rows[m]
BY DEF Store, IInv, TypeOK

LEMMA CommitActionStep == ASSUME IInv, NEW r \in Requests, CommitAction(r) PROVE IInv' /\ Decision
<1>1. /\ r \in Busy /\ open[r].what \in Actions \cup {"SUBMIT", "RESUBMIT", "DECLINE"}
      /\ Store(r, open[r].new) /\ ledger' = Append(ledger, Entry(open[r]))
      /\ UNCHANGED <<newest, edits>> /\ count + Len(ledger) < MaxWork
  BY DEF CommitAction, Room
<1>2. open[r] \in Jobs /\ open[r].row \in Ids /\ open[r].new \in Row /\ open[r].role \in Roles
  BY <1>1, JobFacts
<1>3. PICK e \in Entries : /\ e = Entry(open[r]) /\ e.row = open[r].row /\ e.role = open[r].role
                           /\ e.action = "APPROVE" <=> open[r].what = "APPROVE"
  BY <1>1, <1>2, EntryFacts
<1>4. ledger \in Seq(Entries) /\ ledger' = Append(ledger, e)
  <2>1. ledger \in Seq(Entries)
    BY DEF IInv, TypeOK
  <2>2. ledger' = Append(ledger, e)
    BY <1>1, <1>3
  <2> QED
    BY <2>1, <2>2
<1>5. \A n, role : (open[r].what = "APPROVE" /\ n = open[r].row /\ role = open[r].role) =>
            ApprovedBy(n, role)'
  BY <1>3, <1>4, ApprovalsKept
<1>6. /\ rows' \in [Ids -> Row] /\ open' \in [Requests -> Jobs \cup {Idle}]
      /\ raced' \subseteq Ids /\ count' = count /\ RowsBacked' /\ JobsBacked'
  BY <1>1, <1>2, <1>4, <1>5, StoreIInv
<1>7. ledger' \in Seq(Entries) /\ Len(ledger') = Len(ledger) + 1 /\ Len(ledger) \in Nat
  BY <1>4, AppendProperties
<1>8. TypeOK'
  <2>1. count' + Len(ledger') <= MaxWork
    BY <1>1, <1>6, <1>7, ChainAssumption DEF IInv, TypeOK
  <2> QED
    BY <1>1, <1>6, <1>7, <2>1 DEF IInv, TypeOK
<1>9. Decision
  <2>1. \A m \in Ids \ {open[r].row} : rows'[m] = rows[m]
    BY <1>1, <1>2, StoreOnlyRow
  <2>2. \E x \in Entries : x.row = open[r].row /\ ledger' = Append(ledger, x)
    BY <1>3, <1>4
  <2>3. open[r].row \in Ids
    BY <1>2
  <2> QED
    BY <2>1, <2>2, <2>3 DEF Decision
<1> QED
  BY <1>6, <1>8, <1>9 DEF IInv

LEMMA CommitExecutionStep == ASSUME IInv, NEW r \in Requests, CommitExecution(r) PROVE IInv' /\ Decision
<1>1. /\ r \in Busy /\ open[r].what = "EXECUTED" /\ Store(r, open[r].new)
      /\ UNCHANGED <<ledger, newest, edits>>
  BY DEF CommitExecution
<1>2. open[r].row \in Ids /\ open[r].new \in Row
  BY <1>1, JobFacts
<1>3. /\ rows' \in [Ids -> Row] /\ open' \in [Requests -> Jobs \cup {Idle}]
      /\ raced' \subseteq Ids /\ count' = count /\ RowsBacked' /\ JobsBacked'
  BY <1>1, <1>2, StoreIInv
<1>4. TypeOK'
  BY <1>1, <1>3 DEF IInv, TypeOK
<1>5. Decision
  BY <1>1, <1>2, StoreOnlyRow DEF Decision
<1> QED
  BY <1>3, <1>4, <1>5 DEF IInv

LEMMA CommitFiguresStep == ASSUME IInv, NEW r \in Requests, CommitFigures(r) PROVE IInv' /\ Decision
<1> DEFINE new == [open[r].new EXCEPT !.figures = edits + 1,
                                      !.current_version = SnapshotVersion(open[r].seen) + 1]
<1>1. /\ r \in Busy /\ open[r].what \in {"EDIT", "SYNC"} /\ edits < MaxEdits
      /\ newest' = SnapshotVersion(open[r].seen) /\ Store(r, new)
      /\ edits' = edits + 1 /\ UNCHANGED ledger
  BY DEF CommitFigures
<1>2. open[r].row \in Ids /\ open[r].new \in Row /\ open[r].seen \in Row
  BY <1>1, JobFacts
<1>3. SnapshotVersion(open[r].seen) \in Nat /\ edits + 1 \in 0..MaxEdits
  <2>1. newest \in Nat /\ edits + 1 \in 0..MaxEdits
    BY <1>1, ChainAssumption DEF IInv, TypeOK
  <2>2. open[r].seen.current_version \in Nat
    BY <1>2 DEF Row
  <2> QED
    BY <2>1, <2>2 DEF SnapshotVersion
<1>4. /\ new \in Row /\ new.chain_index = open[r].new.chain_index /\ new.status = open[r].new.status
  <2>1. SnapshotVersion(open[r].seen) + 1 \in Nat
    BY <1>3
  <2> QED
    BY <1>2, <1>3, <2>1 DEF Row
<1>5. open[r].what # "APPROVE"
  BY <1>1
<1> HIDE DEF new
<1>6. /\ rows' \in [Ids -> Row] /\ open' \in [Requests -> Jobs \cup {Idle}]
      /\ raced' \subseteq Ids /\ count' = count /\ RowsBacked' /\ JobsBacked'
  BY <1>1, <1>2, <1>4, <1>5, StoreIInv
<1>7. TypeOK'
  BY <1>1, <1>3, <1>6 DEF IInv, TypeOK
<1>8. Decision
  BY <1>1, <1>2, <1>4, StoreOnlyRow DEF Decision
<1> QED
  BY <1>6, <1>7, <1>8 DEF IInv

LEMMA DropStep == ASSUME IInv, NEW r \in Requests, Drop(r) PROVE IInv' /\ Quiet
<1>1. open' = [open EXCEPT ![r] = Idle] /\ UNCHANGED <<rows, count, ledger, newest, edits, raced>>
  BY DEF Drop
<1>2. \A n, row : Backed(n, row) => Backed(n, row)'
  BY <1>1, BackedKept DEF IInv, TypeOK
<1>3. TypeOK'
  BY <1>1 DEF IInv, TypeOK
<1>4. RowsBacked'
  BY <1>1, <1>2 DEF IInv, RowsBacked
<1>5. JobsBacked'
  <2> SUFFICES ASSUME NEW q \in Busy' PROVE (Proper(open[q]) /\ Backed(open[q].row, open[q].seen))'
    BY DEF JobsBacked
  <2>1. open'[q] = open[q] /\ q \in Busy
    BY <1>1 DEF Busy, IInv, TypeOK
  <2> QED
    BY <1>2, <2>1 DEF Proper, IInv, JobsBacked
<1> QED
  BY <1>1, <1>3, <1>4, <1>5 DEF IInv, Quiet

\* Every step keeps the invariant and is quiet or one decision about one row.
LEMMA NextIInv == IInv /\ [Next]_vars => IInv' /\ (Quiet \/ Decision)
<1> SUFFICES ASSUME IInv, [Next]_vars PROVE IInv' /\ (Quiet \/ Decision)
  OBVIOUS
<1>1. CASE Generate
  BY <1>1, GenerateStep
<1>2. CASE \E r \in Requests : Submit(r) \/ ReportExecution(r) \/ Drop(r)
  BY <1>2, SubmitStep, ReportStep, DropStep
<1>3. CASE \E r \in Requests : CommitAction(r) \/ CommitExecution(r) \/ CommitFigures(r)
  BY <1>3, CommitActionStep, CommitExecutionStep, CommitFiguresStep
<1>4. CASE \E r \in Requests, valued \in BOOLEAN :
              EditFigures(r, valued) \/ \E evaluable \in BOOLEAN : SyncFigures(r, evaluable, valued)
  BY <1>4, EditStep, SyncStep
<1>5. CASE \E r \in Requests, commented \in BOOLEAN :
              \/ RejectBeforeSubmission(r, commented)
              \/ \E action \in Actions, role \in Roles : Act(r, action, role, commented)
  BY <1>5, RejectStep, ActStep
<1>6. CASE UNCHANGED vars
  <2>1. \A n, row : Backed(n, row) => Backed(n, row)'
    BY <1>6, BackedKept DEF IInv, TypeOK, vars
  <2>2. TypeOK'
    BY <1>6 DEF IInv, TypeOK, vars
  <2>3. RowsBacked'
    BY <1>6, <2>1 DEF IInv, RowsBacked, vars
  <2>4. JobsBacked'
    BY <1>6, <2>1 DEF IInv, JobsBacked, Busy, Proper, vars
  <2> QED
    BY <1>6, <2>2, <2>3, <2>4 DEF IInv, Quiet, vars
<1> QED
  BY <1>1, <1>2, <1>3, <1>4, <1>5, <1>6 DEF Next

----------------------------------------------------------------------------
LEMMA Inductive == Spec => []IInv
<1>1. IInv /\ [Next]_vars => IInv'
  BY NextIInv
<1> QED
  BY InitIInv, <1>1, PTL DEF Spec

\* Rows, ledger and open requests always have the types the code gives them
\* (app/models/i7_recommendation.py), for every route.
THEOREM ApprovalTypes == Spec => []TypeOK
<1>1. IInv => TypeOK
  BY DEF IInv
<1> QED
  BY Inductive, <1>1, PTL

\* Whatever requests race over a row, it awaits execution in SAP only if every
\* role of its route has approved that row (workflow._advance).
THEOREM FinalApproved == Spec => []FinalSigned
<1>1. IInv => FinalSigned
  BY DEF IInv, RowsBacked, Backed, FinalSigned
<1> QED
  BY Inductive, <1>1, PTL

----------------------------------------------------------------------------
(* The refinement: signatures are the ledger's approvals.                    *)

Signatures == [n \in Ids |-> {role \in Roles : ApprovedBy(n, role)}]
Released == {n \in Ids : rows[n].status \in Final}
Needs == {Route[k] : k \in 1..Len(Route)}

LEMMA InitSignOff == Init => SignOff!Init
<1> SUFFICES ASSUME Init PROVE Signatures = [n \in Ids |-> {}] /\ Released = {}
  BY DEF SignOff!Init, Signatures, Released
<1>1. \A n, role : ~ApprovedBy(n, role)
  BY DEF ApprovedBy, Init
<1>2. \A n \in Ids : rows[n].status \notin Final
  BY NoRowFacts DEF Init, Final
<1> QED
  BY <1>1, <1>2 DEF Signatures, Released

\* A decision about one row is a step of I7SignOff.
LEMMA DecisionSigns ==
    ASSUME IInv, IInv', Decision
    PROVE  SignOff!Next
<1>1. PICK n \in Ids :
        /\ \A m \in Ids \ {n} : rows'[m] = rows[m]
        /\ UNCHANGED ledger \/ \E e \in Entries : e.row = n /\ ledger' = Append(ledger, e)
  BY DEF Decision
<1>2. \A m \in Ids \ {n} : m \in Released' <=> m \in Released
  BY <1>1 DEF Released, Ids
<1>3. Released \subseteq Ids /\ Released' \subseteq Ids
  BY DEF Released, Ids
<1>4. (Needs \subseteq Signatures'[n] /\ Released' = Released \cup {n}) \/ Released' = Released \ {n}
  <2>1. CASE n \in Released'
    <3>1. Released' = Released \cup {n}
      BY <1>2, <1>3, <2>1
    <3>2. \A k \in 1..Len(Route) : ApprovedBy(n, Route[k])'
      BY <2>1 DEF Released, IInv, RowsBacked, Backed, Ids
    <3>3. Needs \subseteq Signatures'[n]
      BY <3>2, RouteFacts DEF Needs, Signatures, Ids
    <3> QED
      BY <3>1, <3>3
  <2>2. CASE n \notin Released'
    BY <1>2, <1>3, <2>2
  <2> QED
    BY <2>1, <2>2
<1>5. Signatures' = Signatures
        \/ \E role \in Roles : Signatures' = [Signatures EXCEPT ![n] = @ \cup {role}]
  <2>1. CASE UNCHANGED ledger
    <3>1. \A m, role : ApprovedBy(m, role)' <=> ApprovedBy(m, role)
      BY <2>1, ApprovalsSame
    <3> QED
      BY <3>1 DEF Signatures, Ids
  <2>2. CASE \E e \in Entries : e.row = n /\ ledger' = Append(ledger, e)
    <3>1. PICK e \in Entries : e.row = n /\ ledger' = Append(ledger, e)
      BY <2>2
    <3>2. \A m, role : ApprovedBy(m, role)' <=>
             ApprovedBy(m, role) \/ (e.row = m /\ e.action = "APPROVE" /\ e.role = role)
      BY <3>1, ApprovalsKept DEF IInv, TypeOK
    <3>3. e.role \in Roles
      BY DEF Entries
    <3>4. CASE e.action = "APPROVE"
      <4>1. \A m \in Ids : Signatures'[m] = IF m = n THEN Signatures[m] \cup {e.role} ELSE Signatures[m]
        BY <3>1, <3>2, <3>3, <3>4 DEF Signatures, Ids
      <4>2. Signatures' = [Signatures EXCEPT ![n] = @ \cup {e.role}]
        BY <4>1 DEF Signatures, Ids
      <4> QED
        BY <3>3, <4>2
    <3>5. CASE e.action # "APPROVE"
      BY <3>2, <3>5 DEF Signatures, Ids
    <3> QED
      BY <3>4, <3>5
  <2> QED
    BY <1>1, <2>1, <2>2
<1> QED
  <2>1. CASE Signatures' = Signatures
    <3>1. SignOff!Decide(n)
      BY <1>4, <2>1 DEF SignOff!Decide, SignOff!Release, SignOff!Withdraw, Signatures, Released, Needs
    <3> QED
      BY <3>1 DEF SignOff!Next
  <2>2. CASE \E role \in Roles : Signatures' = [Signatures EXCEPT ![n] = @ \cup {role}]
    <3>1. PICK role \in Roles : Signatures' = [Signatures EXCEPT ![n] = @ \cup {role}]
      BY <2>2
    <3>2. SignOff!Sign(n, role)
      BY <1>4, <3>1 DEF SignOff!Sign, SignOff!Release, SignOff!Withdraw, Signatures, Released, Needs
    <3> QED
      BY <3>2 DEF SignOff!Next
  <2> QED
    BY <1>5, <2>1, <2>2

\* The approval API, whatever requests race in it, implements I7SignOff: a row
\* is released for SAP only once every role of its route has signed it.
THEOREM ImplementsSignOff == Spec => SignsOff
<1>1. IInv /\ IInv' /\ [Next]_vars => [SignOff!Next]_<<Signatures, Released>>
  <2> SUFFICES ASSUME IInv, IInv', [Next]_vars PROVE [SignOff!Next]_<<Signatures, Released>>
    OBVIOUS
  <2>1. CASE Quiet
    <3>1. \A m, role : ApprovedBy(m, role)' <=> ApprovedBy(m, role)
      BY <2>1, ApprovalsSame DEF Quiet
    <3>2. Signatures' = Signatures
      BY <3>1 DEF Signatures, Ids
    <3>3. Released' = Released
      BY <2>1 DEF Released, Quiet, Ids
    <3> QED
      BY <3>2, <3>3
  <2>2. CASE Decision
    BY <2>2, DecisionSigns
  <2> QED
    BY <2>1, <2>2, NextIInv
<1> QED
  BY <1>1, InitSignOff, Inductive, PTL DEF Spec, SignsOff, SignOff!Spec, Signatures, Released
=============================================================================
