------------------------------ MODULE CsvExtract ------------------------------
(* Extracts of one SAP table over the CSV route (app/ingest: csv_pull,       *)
(* csv_receipt, csv_load, csv_delta, and app/api/events/csv_upload.py).  The *)
(* nightly sweep asks for the whole table, the hourly CSV delta for a        *)
(* window; SAP pushes the rows in chunks that name their table and nothing   *)
(* else, several uploads are landed at once, silence is the only sign of an  *)
(* end, and what reconciled replaces the raw table.                          *)
EXTENDS Integers, Sequences, FiniteSets

CONSTANTS
    NumParts,     \* chunks the whole table is cut into
    Window,       \* the parts whose rows a windowed increment brings
    MaxLanding,   \* bound: uploads of this table landed at once
    MaxRequests,  \* bound: requests ever made
    MaxFaults     \* bound: rare events: lost, repeated or very late chunks, silent jobs,
                  \* failed calls, kills, and two fires that check before either asks

Parts == 1..NumParts
Procs == {"sweep", "delta"}
Requests == 1..MaxRequests

ASSUME ExtractAssumption ==
    /\ NumParts \in Nat \ {0} /\ Window \subseteq Parts /\ Window # {}
    /\ MaxLanding \in Nat \ {0} /\ MaxRequests \in Nat /\ MaxFaults \in Nat

VARIABLES
    exact,    \* the table's Reconcile: EXACT (master data) or BOUNDED
    reqs,     \* csv_extract_request, in the order they were fired
    unsent,   \* unsent[r]: chunks of r SAP has still to push
    landing,  \* uploads being landed
    file,     \* file[r]: how often each part is in r's file; 0 names the unattributed one
    job,      \* per process: where it is, and the request it fired or loads
    raw,      \* the raw table: how often it holds each part
    mixed,    \* history: requests whose file or count took a chunk it should not have
    faults

vars == <<exact, reqs, unsent, landing, file, job, raw, mixed, faults>>
sap == <<exact, unsent>>
receipt == <<landing, file, mixed>>

NoKey == -1
Folders == {0} \cup Requests
NoRows == [k \in Parts |-> 0]
AllRows == [k \in Parts |-> 1]
Fired == 1..Len(reqs)
Open == {r \in Fired : reqs[r].status = "open"}
Closed == {r \in Fired : reqs[r].status # "open"}
Idle == [pc |-> "idle", req |-> 0]
Go(p, pc, r) == job' = [job EXCEPT ![p] = [pc |-> pc, req |-> r]]
Fault == faults < MaxFaults /\ faults' = faults + 1

Init ==
    /\ exact \in BOOLEAN
    /\ reqs = <<>> /\ unsent = [r \in Requests |-> {}]
    /\ landing = {} /\ file = [f \in Folders |-> NoRows] /\ mixed = {}
    /\ job = [p \in Procs |-> Idle]
    /\ raw = AllRows
    /\ faults = 0

----------------------------------------------------------------------------
(* One upload: receive_csv, _land, record_chunk. *)

\* _open_request_id: the newest request of the table still open, 0 for none.
Collecting(f) ==
    \/ f \in Open /\ \A o \in Open : o <= f
    \/ f = 0 /\ Open = {}

\* The body has arrived.  The worker process has slots for its uploads, but one
\* that has waited for a slot goes ahead without, so any number may be landed at
\* once.  landing_keys, which takes a failed query for "no open request", and the
\* look for the header that says whether the file has been begun.
Receive(r, k) ==
    /\ k \in unsent[r] /\ Cardinality(landing) < MaxLanding
    /\ unsent' = [unsent EXCEPT ![r] = @ \ {k}]
    /\ \E f \in Folders : \E begun \in BOOLEAN :
        /\ \/ Collecting(f) /\ UNCHANGED faults
           \/ f = 0 /\ Open # {} /\ Fault
        /\ begun <=> file[f] # NoRows
        /\ landing' = landing \cup
               {[of |-> r, part |-> k, to |-> f, begun |-> begun, by |-> 0, saw |-> 0, step |-> "put"]}
    /\ UNCHANGED <<exact, reqs, file, mixed, job, raw>>

\* What the file of a request should not be given: a chunk of another request, one
\* it holds already, or a beginning when it has been begun.
Mixes(l) ==
    /\ l.to \in Requests
    /\ \/ l.to # l.of
       \/ IF l.begun THEN file[l.to][l.part] > 0 ELSE file[l.to] # NoRows

\* A first chunk writes the file, a later one is appended to it.
Put(l) ==
    /\ l \in landing /\ l.step = "put"
    /\ file' = IF l.begun THEN [file EXCEPT ![l.to][l.part] = @ + 1]
               ELSE [file EXCEPT ![l.to] = [NoRows EXCEPT ![l.part] = 1]]
    /\ mixed' = IF Mixes(l) THEN mixed \cup {l.to} ELSE mixed
    /\ landing' = (landing \ {l}) \cup {[l EXCEPT !.step = "count"]}
    /\ UNCHANGED <<sap, reqs, job, raw, faults>>

\* record_chunk is not told the folder: it looks the open request up again
\* ... and reads that request's totals,
Look(l) ==
    /\ l \in landing /\ l.step = "count"
    /\ \E f \in Folders :
        /\ Collecting(f)
        /\ mixed' = IF f \in {0, l.to} THEN mixed ELSE mixed \cup {f}
        /\ landing' = (landing \ {l}) \cup
               IF f = 0 THEN {} ELSE {[l EXCEPT !.by = f, !.saw = reqs[f].got, !.step = "add"]}
    /\ UNCHANGED <<sap, reqs, file, job, raw, faults>>

\* which it writes back one chunk higher, naming the file if none is named.
Add(l) ==
    /\ l \in landing /\ l.step = "add"
    /\ reqs' = [reqs EXCEPT ![l.by].got = l.saw + 1,
                            ![l.by].key = IF @ = NoKey THEN l.to ELSE @]
    /\ landing' = landing \ {l}
    /\ UNCHANGED <<sap, file, mixed, job, raw, faults>>

\* The sender disconnects, storage refuses the write, or the tally fails:
\* logged, and SAP gets its answer regardless.
LandFails(l) ==
    /\ l \in landing /\ Fault
    /\ landing' = landing \ {l}
    /\ UNCHANGED <<sap, reqs, file, mixed, job, raw>>

\* SAP's push was answered too late, and the chunk comes again.
Resend(r, k) ==
    /\ r \in Open /\ k \in Parts \ unsent[r] /\ file[r][k] > 0 /\ Fault
    /\ unsent' = [unsent EXCEPT ![r] = @ \cup {k}]
    /\ UNCHANGED <<exact, reqs, receipt, job, raw>>

----------------------------------------------------------------------------
(* Requests: fire, wait_for, _judge. *)

\* MUTANT of Verdict: every count is a ceiling.
VerdictCeiling(q) ==
    IF q.got = 0 THEN "timeout"
    ELSE IF ~q.counted \/ q.got <= NumParts THEN "complete" ELSE "failed"

\* _judge and _verdict, once a clock has run out: nothing came; nothing to
\* compare with; a whole extract of an EXACT table; a count that is a ceiling.
Verdict(q) ==
    IF q.got = 0 THEN "timeout"
    ELSE IF \/ ~q.counted
            \/ exact /\ ~q.window /\ q.got = NumParts
            \/ (~exact \/ q.window) /\ q.got <= NumParts
         THEN "complete" ELSE "failed"

\* The clocks are longer than SAP's pauses, and than the steps between a fire
\* and its tag: nothing of r is on its way.
Quiet(r) ==
    /\ unsent[r] = {} /\ \A l \in landing : r \notin {l.of, l.to, l.by}
    /\ job["delta"] # [pc |-> "tag", req |-> r]

\* MUTANT of Close: numbered after the requests ever fired.
CloseAfterFired(r, status) ==
    reqs' = [reqs EXCEPT ![r].status = status, ![r].closed = Cardinality(Fired) + 1]

\* closed orders the requests by completed_at.
Close(r, status) ==
    reqs' = [reqs EXCEPT ![r].status = status, ![r].closed = Cardinality(Closed) + 1]

\* MUTANT of Judge: only the clock that starts at the first chunk is kept.
JudgeArrived(r) ==
    /\ r \in Open /\ Quiet(r) /\ reqs[r].got > 0
    /\ Close(r, Verdict(reqs[r]))

Judge(r) ==
    /\ r \in Open /\ Quiet(r)
    /\ Close(r, Verdict(reqs[r]))

\* SAP pauses for longer than the clock of a request somebody waits for.
JudgeEarly(p) ==
    /\ job[p].pc = "wait" /\ job[p].req \in Open /\ ~Quiet(job[p].req) /\ Fault
    /\ Close(job[p].req, Verdict(reqs[job[p].req]))
    /\ UNCHANGED <<sap, receipt, job, raw>>

\* wait_for_clear before a sweep, on the request that has been open longest.
Clear ==
    /\ job["sweep"].pc = "idle"
    /\ \E r \in Open : (\A o \in Open : r <= o) /\ Judge(r)
    /\ UNCHANGED <<sap, receipt, job, raw, faults>>

\* The way is clear and the sweep begins; this table's turn may come much later.
Begin ==
    /\ job["sweep"].pc = "idle" /\ Open = {}
    /\ Go("sweep", "fire", 0)
    /\ UNCHANGED <<sap, reqs, receipt, raw, faults>>

\* Others kept the way blocked past wait_for_clear's own limit: nothing is fired,
\* and what waits to be loaded is loaded.
GiveUp ==
    /\ job["sweep"].pc = "idle" /\ Open # {} /\ Fault
    /\ Go("sweep", "load", 0)
    /\ UNCHANGED <<sap, reqs, receipt, raw>>

\* fire: refused while a request of the table is open, which ends the sweep's
\* pull and the delta's turn.
Check(p) ==
    IF Open # {} THEN Go(p, IF p = "sweep" THEN "load" ELSE "idle", 0)
    ELSE Len(reqs) < MaxRequests /\ Go(p, "count", 0)

Fire(p) ==
    /\ job[p].pc = IF p = "sweep" THEN "fire" ELSE "idle"
    /\ Check(p)
    /\ IF \E q \in Procs \ {p} : job[q].pc = "count" THEN Fault ELSE UNCHANGED faults
    /\ UNCHANGED <<sap, reqs, receipt, raw>>

NewRequest(p, counted) ==
    [kind |-> IF p = "sweep" THEN "whole" ELSE "window", status |-> "open", window |-> FALSE,
     counted |-> counted, got |-> 0, key |-> NoKey, loaded |-> FALSE, closed |-> 0]

\* $count has answered, or not, and the row is committed, whoever fired in the
\* meantime; SAP acknowledges and pushes the rows, or acknowledges and never does.
Ask(p) ==
    /\ job[p].pc = "count" /\ Len(reqs) < MaxRequests
    /\ \E counted \in BOOLEAN : reqs' = Append(reqs, NewRequest(p, counted))
    /\ \/ /\ unsent' = [unsent EXCEPT ![Len(reqs) + 1] = IF p = "sweep" THEN Parts ELSE Window]
          /\ UNCHANGED faults
       \/ Fault /\ UNCHANGED unsent
    /\ Go(p, IF p = "sweep" THEN "wait" ELSE "tag", Len(reqs) + 1)
    /\ UNCHANGED <<exact, receipt, raw>>

\* The trigger call fails: the request is closed at once.
AskFails(p) ==
    /\ job[p].pc = "count" /\ Len(reqs) < MaxRequests /\ Fault
    /\ reqs' = Append(reqs, [NewRequest(p, FALSE) EXCEPT !.status = "failed", !.closed = Cardinality(Closed) + 1])
    /\ Go(p, IF p = "sweep" THEN "load" ELSE "idle", 0)
    /\ UNCHANGED <<sap, receipt, raw>>

\* _tag_increment, after the fire.
Tag ==
    /\ job["delta"].pc = "tag"
    /\ reqs' = [reqs EXCEPT ![job["delta"].req].window = TRUE]
    /\ Go("delta", "wait", job["delta"].req)
    /\ UNCHANGED <<sap, receipt, raw, faults>>

Wait(p) ==
    /\ job[p].pc = "wait" /\ Judge(job[p].req)
    /\ UNCHANGED <<sap, receipt, job, raw, faults>>

\* abandon_open, by an operator.
Abandon(r) ==
    /\ r \in Open /\ Fault
    /\ Close(r, "failed")
    /\ UNCHANGED <<sap, receipt, job, raw>>

----------------------------------------------------------------------------
(* The nightly load, and the delta's merge. *)

Collected ==
    /\ job["sweep"].pc = "wait" /\ job["sweep"].req \in Closed
    /\ Go("sweep", "load", 0)
    /\ UNCHANGED <<sap, reqs, receipt, raw, faults>>

Waiting == {r \in Fired : reqs[r].status = "complete" /\ ~reqs[r].loaded}
Newest(r) == r \in Waiting /\ \A q \in Waiting : reqs[q].closed <= reqs[r].closed

\* load_table refuses a window: it would replace the table by it.
Loadable(r) == ~reqs[r].window

\* load_table of the newest reconciled extract nobody has loaded.
Load ==
    /\ job["sweep"].pc = "load"
    /\ \E r \in Fired :
        /\ Newest(r) /\ Loadable(r)
        /\ raw' = file[reqs[r].key]
        /\ Go("sweep", "mark", r)
    /\ UNCHANGED <<sap, reqs, receipt, faults>>

\* Nothing to load, or the newest is a window and refused.
LoadNothing ==
    /\ job["sweep"].pc = "load"
    /\ \A r \in Fired : ~(Newest(r) /\ Loadable(r))
    /\ Go("sweep", "idle", 0)
    /\ UNCHANGED <<sap, reqs, receipt, raw, faults>>

\* merge_increment by key, or no rows to merge.
Merge ==
    /\ job["delta"].pc = "wait" /\ job["delta"].req \in Closed
    /\ IF reqs[job["delta"].req].status = "complete"
       THEN Go("delta", "mark", job["delta"].req) ELSE Go("delta", "idle", 0)
    /\ UNCHANGED <<sap, reqs, receipt, raw, faults>>

\* _mark_loaded, a commit of its own.
MarkLoaded(p) ==
    /\ job[p].pc = "mark"
    /\ reqs' = [reqs EXCEPT ![job[p].req].loaded = TRUE]
    /\ Go(p, "idle", 0)
    /\ UNCHANGED <<sap, receipt, raw, faults>>

\* The process dies, or the step it is at fails for good.
Kill(p) ==
    /\ job[p].pc # "idle" /\ Fault
    /\ Go(p, "idle", 0)
    /\ UNCHANGED <<sap, reqs, receipt, raw>>

----------------------------------------------------------------------------
Upload ==
    \/ \E r \in Requests, k \in Parts : Receive(r, k)
    \/ \E l \in landing : Put(l) \/ Look(l) \/ Add(l)

Sweep ==
    \/ Clear \/ Fire("sweep") \/ Ask("sweep") \/ AskFails("sweep") \/ Wait("sweep")
    \/ Collected \/ Load \/ LoadNothing \/ MarkLoaded("sweep")

Delta == Ask("delta") \/ AskFails("delta") \/ Tag \/ Wait("delta") \/ Merge \/ MarkLoaded("delta")

Next ==
    \/ Upload
    \/ \E r \in Requests, k \in Parts : Resend(r, k)
    \/ \E l \in landing : LandFails(l)
    \/ Sweep \/ Begin \/ GiveUp
    \/ Delta \/ Fire("delta")
    \/ \E p \in Procs : JudgeEarly(p) \/ Kill(p)
    \/ \E r \in Requests : Abandon(r)

Spec == Init /\ [][Next]_vars

\* SAP pushes what it announced, uploads are landed, and both loops go on with
\* what they have begun.
Fairness == WF_vars(Upload) /\ WF_vars(Sweep) /\ WF_vars(Delta)

FairSpec == Spec /\ Fairness

----------------------------------------------------------------------------
(* Properties. *)

TypeOK ==
    /\ exact \in BOOLEAN
    /\ reqs \in Seq([kind : {"whole", "window"}, status : {"open", "complete", "failed", "timeout"},
                     window : BOOLEAN, counted : BOOLEAN, got : Nat, key : Folders \cup {NoKey},
                     loaded : BOOLEAN, closed : 0..MaxRequests])
    /\ Len(reqs) <= MaxRequests
    /\ unsent \in [Requests -> SUBSET Parts]
    /\ landing \subseteq [of : Requests, part : Parts, to : Folders, begun : BOOLEAN,
                        by : Folders, saw : Nat, step : {"put", "count", "add"}]
    /\ file \in [Folders -> [Parts -> Nat]] /\ mixed \subseteq Requests
    /\ job \in [Procs -> [pc : {"idle", "fire", "count", "tag", "wait", "load", "mark"}, req : Folders]]
    /\ raw \in [Parts -> Nat]
    /\ faults \in 0..MaxFaults

\* "A short file means chunks were lost and loading it would look complete and
\* not be" (csv_pull.py): the file of a reconciled whole extract of an EXACT
\* table holds every chunk once.
IsWhole(r) == reqs[r].status = "complete" /\ reqs[r].kind = "whole" /\ exact /\ reqs[r].counted
CompleteIsWhole == \A r \in Fired : IsWhole(r) => file[reqs[r].key] = AllRows

\* The code does not give that: a file may be begun twice, take a chunk again or
\* one of another request, and a chunk may be counted for a request whose file it
\* did not go into.  Where none of these happened to a request, its verdict is
\* right, whatever was lost, failed, was killed, counted side by side with
\* another chunk or judged early.
WholeFile == \A r \in Fired : IsWhole(r) /\ r \notin mixed => file[reqs[r].key] = AllRows

\* "A genuinely stuck request still ends the sweep rather than holding it open
\* for ever" (csv_pull.py): whoever fired them, whether SAP answered them or not, and
\* also when the waiter was killed, the requests that block a table are all closed in
\* the end, and it can be asked for again.
Unblocked == Open # {} ~> Open = {}
=============================================================================
