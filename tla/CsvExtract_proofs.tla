--------------------------- MODULE CsvExtract_proofs ---------------------------
(* Proofs about the CSV extracts of one table, for any number of chunks,     *)
(* uploads at once, requests and rare events.                                *)
EXTENDS CsvExtract, FiniteSetTheorems, SequenceTheorems, TLAPS

Rows == [kind : {"whole", "window"}, status : {"open", "complete", "failed", "timeout"},
         window : BOOLEAN, counted : BOOLEAN, got : Nat, key : Folders \cup {NoKey},
         loaded : BOOLEAN, closed : 0..MaxRequests]

Uploads == [of : Requests, part : Parts, to : Folders, begun : BOOLEAN,
            by : Folders, saw : Nat, step : {"put", "count", "add"}]

Jobs == [pc : {"idle", "fire", "count", "tag", "wait", "load", "mark"}, req : Folders]

\* A process that waits for, tags or loads a request has one.
JobsFired == \A p \in Procs : job[p].pc \in {"tag", "wait", "mark"} => job[p].req \in Fired

\* An upload is added to the totals of a request.
AddsToFired == \A l \in landing : l.step = "add" => l.by \in Fired

\* What has counted a chunk, and so what reconciled, has named the file of it.
NamesFile(q) == q.got > 0 \/ q.status = "complete" => q.key # NoKey
Named == \A r \in Fired : NamesFile(reqs[r])

IInv == TypeOK /\ JobsFired /\ AddsToFired /\ Named

----------------------------------------------------------------------------
(* The table of requests. *)

LEMMA RequestFacts ==
    ASSUME TypeOK
    PROVE  /\ reqs \in Seq(Rows) /\ Len(reqs) \in Nat /\ Fired \subseteq Requests
           /\ Open \subseteq Fired /\ \A r \in Fired : reqs[r] \in Rows
<1>1. reqs \in Seq(Rows) /\ Len(reqs) <= MaxRequests
  BY DEF TypeOK, Rows
<1>2. Len(reqs) \in Nat /\ \A r \in 1..Len(reqs) : reqs[r] \in Rows
  BY <1>1, LenProperties, ElementOfSeq
<1> QED
  BY <1>1, <1>2, ExtractAssumption DEF Fired, Open, Requests

\* One row is written.
LEMMA UpdateFacts ==
    ASSUME TypeOK, Named, NEW r \in Fired, NEW q \in Rows, NamesFile(q), reqs' = [reqs EXCEPT ![r] = q]
    PROVE  reqs' \in Seq(Rows) /\ Len(reqs') <= MaxRequests /\ Fired' = Fired /\ Named'
<1>1. /\ reqs' \in Seq(Rows) /\ Len(reqs') = Len(reqs)
      /\ \A i \in 1..Len(reqs) : reqs'[i] = IF i = r THEN q ELSE reqs[i]
  BY RequestFacts, ExceptSeq DEF Fired
<1>2. Fired' = Fired /\ Len(reqs') <= MaxRequests
  BY <1>1 DEF Fired, TypeOK
<1>3. Named'
  <2> SUFFICES ASSUME NEW i \in Fired PROVE NamesFile(reqs[i])'
    BY <1>2 DEF Named
  <2>1. reqs'[i] = q \/ reqs'[i] = reqs[i]
    BY <1>1 DEF Fired
  <2> QED
    BY <2>1 DEF Named, NamesFile
<1> QED
  BY <1>1, <1>2, <1>3

\* One row is added.
LEMMA AppendFacts ==
    ASSUME TypeOK, Named, Len(reqs) < MaxRequests, NEW q \in Rows, NamesFile(q), reqs' = Append(reqs, q)
    PROVE  /\ reqs' \in Seq(Rows) /\ Len(reqs') <= MaxRequests /\ Fired \subseteq Fired'
           /\ Len(reqs) + 1 \in Fired' /\ Len(reqs) + 1 \in Requests /\ Named'
<1>1. /\ reqs' \in Seq(Rows) /\ Len(reqs') = Len(reqs) + 1 /\ Len(reqs) \in Nat
      /\ \A i \in 1..Len(reqs) : reqs'[i] = reqs[i]
      /\ reqs'[Len(reqs) + 1] = q
  BY RequestFacts, AppendProperties
<1>2. /\ Len(reqs') <= MaxRequests /\ Fired \subseteq Fired'
      /\ Len(reqs) + 1 \in Fired' /\ Len(reqs) + 1 \in Requests
  BY <1>1, ExtractAssumption DEF Fired, Requests
<1>3. Named'
  <2> SUFFICES ASSUME NEW i \in 1..(Len(reqs) + 1) PROVE NamesFile(reqs[i])'
    BY <1>1 DEF Named, Fired
  <2>1. reqs'[i] = q \/ (i \in Fired /\ reqs'[i] = reqs[i])
    BY <1>1 DEF Fired
  <2> QED
    BY <2>1 DEF Named, NamesFile
<1> QED
  BY <1>1, <1>2, <1>3

\* A request still open leaves a number for the order in which it is closed.
LEMMA ClosedFacts ==
    ASSUME TypeOK
    PROVE  /\ Cardinality(Closed) \in Nat
           /\ Open # {} => Cardinality(Closed) + 1 \in 0..MaxRequests
           /\ Len(reqs) < MaxRequests => Cardinality(Closed) + 1 \in 0..MaxRequests
<1>1. Len(reqs) \in Nat /\ Len(reqs) <= MaxRequests
  BY RequestFacts DEF TypeOK
<1>2. IsFiniteSet(Fired) /\ Cardinality(Fired) = Len(reqs)
  <2>1. PICK n \in Nat : n = Len(reqs)
    BY <1>1
  <2>2. IsFiniteSet(1..n) /\ Cardinality(1..n) = IF 1 > n THEN 0 ELSE n - 1 + 1
    BY FS_Interval
  <2>3. Cardinality(1..n) = n
    BY <2>2
  <2> QED
    BY <2>1, <2>2, <2>3 DEF Fired
<1>3. Closed \in SUBSET Fired
  BY DEF Closed
<1>4. IsFiniteSet(Closed) /\ Cardinality(Closed) <= Len(reqs)
  BY <1>2, <1>3, FS_Subset
<1>5. Cardinality(Closed) \in Nat
  BY <1>4, FS_CardinalityType
<1>6. ASSUME Open # {}
      PROVE  Cardinality(Closed) # Len(reqs)
  <2>1. Closed # Fired
    BY <1>6 DEF Open, Closed
  <2> QED
    BY <1>2, <1>3, <2>1, FS_Subset
<1> QED
  BY <1>1, <1>4, <1>5, <1>6, ExtractAssumption

LEMMA FaultFacts ==
    ASSUME TypeOK, Fault
    PROVE  faults' \in 0..MaxFaults
BY ExtractAssumption DEF TypeOK, Fault

\* Closing a request names no file: it reconciles only what counted a chunk.
LEMMA CloseFacts ==
    ASSUME TypeOK, Named, NEW r \in Open, NEW s \in {"complete", "failed", "timeout"},
           s = "complete" => reqs[r].got # 0, Close(r, s)
    PROVE  reqs' \in Seq(Rows) /\ Len(reqs') <= MaxRequests /\ Fired' = Fired /\ Named'
<1>1. PICK n \in 0..MaxRequests : n = Cardinality(Closed) + 1
  BY ClosedFacts
<1>2. r \in Fired /\ reqs[r] \in Rows
  BY RequestFacts
<1>3. PICK q : q = [reqs[r] EXCEPT !.status = s, !.closed = n]
  OBVIOUS
<1>4. q \in Rows /\ q.got = reqs[r].got /\ q.key = reqs[r].key /\ q.status = s
  BY <1>2, <1>3 DEF Rows
<1>5. NamesFile(q)
  <2>1. NamesFile(reqs[r]) /\ reqs[r].got \in Nat
    BY <1>2 DEF Named, Rows
  <2> QED
    BY <1>4, <2>1 DEF NamesFile
<1>6. reqs' = [reqs EXCEPT ![r] = q]
  BY <1>1, <1>3 DEF Close
<1> QED
  BY <1>2, <1>4, <1>5, <1>6, UpdateFacts

LEMMA VerdictFacts ==
    ASSUME TypeOK, NEW r \in Open
    PROVE  /\ Verdict(reqs[r]) \in {"complete", "failed", "timeout"}
           /\ Verdict(reqs[r]) = "complete" => reqs[r].got # 0
BY DEF Verdict

\* A process moves on.
LEMMA GoFacts ==
    ASSUME TypeOK, JobsFired, NEW p \in Procs, NEW r \in Folders, Fired \subseteq Fired',
           NEW pc \in {"idle", "fire", "count", "tag", "wait", "load", "mark"},
           pc \in {"tag", "wait", "mark"} => r \in Fired', Go(p, pc, r)
    PROVE  job' \in [Procs -> Jobs] /\ JobsFired'
<1>1. job' = [job EXCEPT ![p] = [pc |-> pc, req |-> r]] /\ job \in [Procs -> Jobs]
  BY DEF Go, TypeOK, Jobs
<1> QED
  BY <1>1 DEF JobsFired, Jobs
----------------------------------------------------------------------------
(* The steps. *)

\* The file and the totals of an upload.
LEMMA UploadSteps ==
    ASSUME IInv,
           \/ \E r \in Requests, k \in Parts : Receive(r, k) \/ Resend(r, k)
           \/ \E l \in landing : Put(l) \/ Look(l) \/ Add(l) \/ LandFails(l)
    PROVE  IInv'
<1> USE DEF sap, receipt
<1>0. /\ TypeOK /\ landing \subseteq Uploads /\ Open \subseteq Requests /\ Requests \subseteq Folders
      /\ \A r \in Fired : reqs[r] \in Rows
  BY RequestFacts DEF IInv, TypeOK, Uploads, Folders
<1>1. ASSUME NEW r \in Requests, NEW k \in Parts, Receive(r, k) PROVE IInv'
  <2>1. PICK f \in Folders, begun \in BOOLEAN :
            landing' = landing \cup
                {[of |-> r, part |-> k, to |-> f, begun |-> begun, by |-> 0, saw |-> 0, step |-> "put"]}
    BY <1>1 DEF Receive
  <2>2. landing' \subseteq Uploads /\ \A l \in landing' : l \in landing \/ l.step = "put"
    BY <1>0, <2>1 DEF Uploads, Folders
  <2>3. unsent' \in [Requests -> SUBSET Parts]
    BY <1>0, <1>1 DEF Receive, TypeOK
  <2>4. UNCHANGED <<exact, reqs, file, mixed, job, raw>>
    BY <1>1 DEF Receive
  <2>5. faults' \in 0..MaxFaults
    BY <1>0, <1>1, FaultFacts DEF Receive, TypeOK
  <2> QED
    BY <2>2, <2>3, <2>4, <2>5 DEF IInv, TypeOK, Uploads, JobsFired, AddsToFired, Named, NamesFile, Fired
<1>2. ASSUME NEW r \in Requests, NEW k \in Parts, Resend(r, k) PROVE IInv'
  <2>1. unsent' \in [Requests -> SUBSET Parts] /\ faults' \in 0..MaxFaults
    <3>1. unsent' = [unsent EXCEPT ![r] = @ \cup {k}] /\ unsent \in [Requests -> SUBSET Parts]
      BY <1>0, <1>2 DEF Resend, TypeOK
    <3>2. unsent' \in [Requests -> SUBSET Parts]
      BY <3>1
    <3>3. faults' \in 0..MaxFaults
      BY <1>0, <1>2, FaultFacts DEF Resend
    <3> QED
      BY <3>2, <3>3
  <2>2. UNCHANGED <<exact, reqs, landing, file, mixed, job, raw>>
    BY <1>2 DEF Resend
  <2> QED
    BY <2>1, <2>2 DEF IInv, TypeOK, JobsFired, AddsToFired, Named, NamesFile, Fired
<1>3. ASSUME NEW l \in landing, Put(l) PROVE IInv'
  <2>1. l \in Uploads
    BY <1>0
  <2>2. PICK n : n = [l EXCEPT !.step = "count"]
    OBVIOUS
  <2>3. landing' = (landing \ {l}) \cup {n} /\ n \in Uploads /\ n.step = "count"
    BY <1>3, <2>1, <2>2 DEF Put, Uploads
  <2>4. file' \in [Folders -> [Parts -> Nat]]
    <3>1. NoRows \in [Parts -> Nat]
      BY DEF NoRows
    <3>2. [NoRows EXCEPT ![l.part] = 1] \in [Parts -> Nat]
      BY <3>1
    <3>3. file \in [Folders -> [Parts -> Nat]] /\ l.to \in Folders /\ l.part \in Parts
      BY <1>0, <2>1 DEF TypeOK, Uploads
    <3>4. [file EXCEPT ![l.to][l.part] = @ + 1] \in [Folders -> [Parts -> Nat]]
      BY <3>3
    <3>5. [file EXCEPT ![l.to] = [NoRows EXCEPT ![l.part] = 1]] \in [Folders -> [Parts -> Nat]]
      BY <3>2, <3>3
    <3> QED
      BY <1>3, <3>4, <3>5 DEF Put
  <2>5. UNCHANGED <<exact, reqs, unsent, job, raw, faults>>
    BY <1>3 DEF Put
  <2>6. landing' \subseteq Uploads /\ \A u \in landing' : u \in landing \/ u.step = "count"
    BY <1>0, <2>3
  <2>7. mixed' \subseteq Requests
    BY <1>0, <1>3 DEF Put, Mixes, TypeOK
  <2> QED
    BY <2>4, <2>5, <2>6, <2>7 DEF IInv, TypeOK, Uploads, JobsFired, AddsToFired, Named, NamesFile, Fired
<1>4. ASSUME NEW l \in landing, Look(l) PROVE IInv'
  <2>1. l \in Uploads
    BY <1>0
  <2>2. PICK f \in Folders :
            /\ Collecting(f)
            /\ landing' = (landing \ {l}) \cup
                   IF f = 0 THEN {} ELSE {[l EXCEPT !.by = f, !.saw = reqs[f].got, !.step = "add"]}
    BY <1>4 DEF Look
  <2>3. landing' \subseteq Uploads /\ \A u \in landing' : u \in landing \/ u.by \in Fired
    <3>1. CASE f = 0
      BY <1>0, <2>2, <3>1
    <3>2. CASE f # 0
      <4>1. f \in Fired /\ reqs[f].got \in Nat
        BY <1>0, <2>2, <3>2, RequestFacts DEF Collecting, Rows
      <4>2. PICK n : n = [l EXCEPT !.by = f, !.saw = reqs[f].got, !.step = "add"]
        OBVIOUS
      <4>3. n \in Uploads /\ n.by = f
        BY <2>1, <4>1, <4>2 DEF Uploads
      <4> QED
        BY <1>0, <2>2, <3>2, <4>1, <4>2, <4>3
    <3> QED
      BY <3>1, <3>2
  <2>4. UNCHANGED <<exact, reqs, unsent, file, job, raw, faults>>
    BY <1>4 DEF Look
  <2>5. mixed' \subseteq Requests
    BY <1>0, <1>4 DEF Look, Collecting, TypeOK
  <2> QED
    BY <2>3, <2>4, <2>5 DEF IInv, TypeOK, Uploads, JobsFired, AddsToFired, Named, NamesFile, Fired
<1>5. ASSUME NEW l \in landing, Add(l) PROVE IInv'
  <2>1. PICK i \in Fired : i = l.by
    BY <1>5 DEF Add, IInv, AddsToFired
  <2>2. l \in Uploads /\ l.to \in Folders /\ l.saw \in Nat
    BY <1>0 DEF Uploads
  <2>3. PICK key : key = IF reqs[i].key = NoKey THEN l.to ELSE reqs[i].key
    OBVIOUS
  <2>4. key \in Folders \cup {NoKey} /\ key # NoKey
    <3>1. NoKey \notin Folders
      BY ExtractAssumption DEF NoKey, Folders, Requests
    <3> QED
      BY <1>0, <2>1, <2>2, <2>3, <3>1 DEF Rows
  <2>5. PICK q : q = [reqs[i] EXCEPT !.got = l.saw + 1, !.key = key]
    OBVIOUS
  <2>6. q \in Rows /\ NamesFile(q)
    <3>1. reqs[i] \in Rows
      BY <1>0
    <3>2. l.saw + 1 \in Nat
      BY <2>2
    <3>3. q \in Rows /\ q.key = key
      BY <2>4, <2>5, <3>1, <3>2 DEF Rows
    <3> QED
      BY <2>4, <3>3 DEF NamesFile
  <2>7. reqs' = [reqs EXCEPT ![i] = q]
    <3>1. reqs \in [Fired -> Rows]
      BY RequestFacts, LenProperties DEF IInv, Fired
    <3>2. [reqs[i] EXCEPT !.got = l.saw + 1].key = reqs[i].key
      BY <1>0, <2>1 DEF Rows
    <3> QED
      BY <1>5, <2>1, <2>3, <2>5, <3>1, <3>2 DEF Add
  <2>8. reqs' \in Seq(Rows) /\ Len(reqs') <= MaxRequests /\ Fired' = Fired /\ Named'
    BY <2>6, <2>7, UpdateFacts DEF IInv
  <2>9. landing' \subseteq landing /\ UNCHANGED <<exact, unsent, file, mixed, job, raw, faults>>
    BY <1>5 DEF Add
  <2> QED
    BY <2>8, <2>9 DEF IInv, TypeOK, Rows, JobsFired, AddsToFired
<1>6. ASSUME NEW l \in landing, LandFails(l) PROVE IInv'
  <2>1. faults' \in 0..MaxFaults
    BY <1>0, <1>6, FaultFacts DEF LandFails
  <2>2. landing' \subseteq landing /\ UNCHANGED <<exact, reqs, unsent, file, mixed, job, raw>>
    BY <1>6 DEF LandFails
  <2> QED
    BY <2>1, <2>2 DEF IInv, TypeOK, JobsFired, AddsToFired, Named, NamesFile, Fired
<1> QED
  BY <1>1, <1>2, <1>3, <1>4, <1>5, <1>6

\* A request is judged or abandoned, and nothing else is touched.
LEMMA CloseSteps ==
    ASSUME IInv,
           \/ Clear \/ \E p \in Procs : Wait(p) \/ JudgeEarly(p)
           \/ \E r \in Requests : Abandon(r)
    PROVE  IInv'
<1> USE DEF sap, receipt
<1>1. UNCHANGED <<exact, unsent, landing, file, mixed, job, raw>> /\ faults' \in 0..MaxFaults
  <2>1. faults \in 0..MaxFaults
    BY DEF IInv, TypeOK
  <2> QED
    BY <2>1, FaultFacts DEF IInv, Clear, Wait, JudgeEarly, Abandon
<1>2. PICK r \in Open : \E s \in {"complete", "failed", "timeout"} :
          Close(r, s) /\ (s = "complete" => reqs[r].got # 0)
  <2>1. ASSUME NEW r \in Open, Close(r, Verdict(reqs[r]))
        PROVE  \E s \in {"complete", "failed", "timeout"} : Close(r, s) /\ (s = "complete" => reqs[r].got # 0)
    BY <2>1, VerdictFacts DEF IInv
  <2> QED
    BY <2>1 DEF Clear, Wait, JudgeEarly, Abandon, Judge
<1>3. reqs' \in Seq(Rows) /\ Len(reqs') <= MaxRequests /\ Fired' = Fired /\ Named'
  BY <1>2, CloseFacts DEF IInv
<1> QED
  BY <1>1, <1>3 DEF IInv, TypeOK, Rows, JobsFired, AddsToFired

\* A process fires, waits, loads or dies, and no request changes.
LEMMA JobSteps ==
    ASSUME IInv,
           \/ Begin \/ GiveUp \/ Collected \/ Load \/ LoadNothing \/ Merge
           \/ \E p \in Procs : Fire(p) \/ Kill(p)
    PROVE  IInv'
<1> USE DEF sap, receipt
<1>0. /\ 0 \in Folders /\ Fired \subseteq Folders /\ "sweep" \in Procs /\ "delta" \in Procs
      /\ job["delta"].req \in Folders
  BY RequestFacts DEF IInv, TypeOK, Folders, Procs
<1>1. UNCHANGED <<exact, reqs, unsent, landing, file, mixed>> /\ faults' \in 0..MaxFaults
  <2>1. faults \in 0..MaxFaults
    BY DEF IInv, TypeOK
  <2> QED
    BY <2>1, FaultFacts DEF IInv, Begin, GiveUp, Collected, Load, LoadNothing, Merge, Fire, Kill
<1>2. Fired' = Fired
  BY <1>1 DEF Fired
<1>3. job' \in [Procs -> Jobs] /\ JobsFired'
  <2>1. CASE Begin
    BY <1>0, <1>2, <2>1, GoFacts DEF Begin, IInv
  <2>2. CASE GiveUp \/ Collected
    BY <1>0, <1>2, <2>2, GoFacts DEF GiveUp, Collected, IInv
  <2>3. CASE LoadNothing
    BY <1>0, <1>2, <2>3, GoFacts DEF LoadNothing, IInv
  <2>4. CASE Load
    BY <1>0, <1>2, <2>4, GoFacts DEF Load, IInv
  <2>5. CASE Merge
    <3>1. job["delta"].req \in Fired
      BY <1>0, <2>5 DEF Merge, IInv, JobsFired
    <3> QED
      BY <1>0, <1>2, <2>5, <3>1, GoFacts DEF Merge, IInv
  <2>6. ASSUME NEW p \in Procs, Fire(p) PROVE job' \in [Procs -> Jobs] /\ JobsFired'
    BY <1>0, <1>2, <2>6, GoFacts DEF Fire, Check, IInv
  <2>7. ASSUME NEW p \in Procs, Kill(p) PROVE job' \in [Procs -> Jobs] /\ JobsFired'
    BY <1>0, <1>2, <2>7, GoFacts DEF Kill, IInv
  <2> QED
    BY <2>1, <2>2, <2>3, <2>4, <2>5, <2>6, <2>7
<1>4. raw' \in [Parts -> Nat]
  <2>1. CASE Load
    <3>1. PICK r \in Fired : Newest(r) /\ raw' = file[reqs[r].key]
      BY <2>1 DEF Load
    <3>2. reqs[r].key \in Folders
      BY <3>1, RequestFacts DEF Newest, Waiting, IInv, Named, NamesFile, Rows
    <3> QED
      BY <1>0, <3>1, <3>2 DEF IInv, TypeOK
  <2>2. CASE ~Load
    BY <2>2 DEF IInv, TypeOK, Begin, GiveUp, Collected, LoadNothing, Merge, Fire, Kill
  <2> QED
    BY <2>1, <2>2
<1> QED
  BY <1>1, <1>2, <1>3, <1>4 DEF IInv, TypeOK, Jobs, AddsToFired, Named, NamesFile

\* A process writes a request: fired, tagged, loaded.
LEMMA RequestSteps ==
    ASSUME IInv,
           Tag \/ \E p \in Procs : Ask(p) \/ AskFails(p) \/ MarkLoaded(p)
    PROVE  IInv'
<1> USE DEF sap, receipt
<1>0. /\ 0 \in Folders /\ Fired \subseteq Folders /\ Requests \subseteq Folders
      /\ "delta" \in Procs /\ NoKey \in Folders \cup {NoKey}
      /\ \A r \in Fired : reqs[r] \in Rows
  BY RequestFacts DEF IInv, Folders, Procs
<1>1. CASE Tag
  <2>1. PICK r \in Fired : r = job["delta"].req
    BY <1>0, <1>1 DEF Tag, IInv, JobsFired
  <2>2. PICK q : q = [reqs[r] EXCEPT !.window = TRUE]
    OBVIOUS
  <2>3. q \in Rows /\ NamesFile(q)
    BY <1>0, <2>1, <2>2 DEF Rows, IInv, Named, NamesFile
  <2>4. reqs' = [reqs EXCEPT ![r] = q]
    BY <1>1, <2>1, <2>2 DEF Tag
  <2>5. reqs' \in Seq(Rows) /\ Len(reqs') <= MaxRequests /\ Fired' = Fired /\ Named'
    BY <2>3, <2>4, UpdateFacts DEF IInv
  <2>6. job' \in [Procs -> Jobs] /\ JobsFired'
    BY <1>0, <1>1, <2>1, <2>5, GoFacts DEF Tag, IInv
  <2> QED
    BY <1>1, <2>5, <2>6 DEF Tag, IInv, TypeOK, Rows, Jobs, AddsToFired
<1>2. ASSUME NEW p \in Procs, MarkLoaded(p) PROVE IInv'
  <2>1. PICK r \in Fired : r = job[p].req
    BY <1>2 DEF MarkLoaded, IInv, JobsFired
  <2>2. PICK q : q = [reqs[r] EXCEPT !.loaded = TRUE]
    OBVIOUS
  <2>3. q \in Rows /\ NamesFile(q)
    BY <1>0, <2>1, <2>2 DEF Rows, IInv, Named, NamesFile
  <2>4. reqs' = [reqs EXCEPT ![r] = q]
    BY <1>2, <2>1, <2>2 DEF MarkLoaded
  <2>5. reqs' \in Seq(Rows) /\ Len(reqs') <= MaxRequests /\ Fired' = Fired /\ Named'
    BY <2>3, <2>4, UpdateFacts DEF IInv
  <2>6. job' \in [Procs -> Jobs] /\ JobsFired'
    BY <1>0, <1>2, <2>5, GoFacts DEF MarkLoaded, IInv
  <2> QED
    BY <1>2, <2>5, <2>6 DEF MarkLoaded, IInv, TypeOK, Rows, Jobs, AddsToFired
<1>3. ASSUME NEW p \in Procs, Ask(p) PROVE IInv'
  <2>1. PICK counted \in BOOLEAN : reqs' = Append(reqs, NewRequest(p, counted))
    BY <1>3 DEF Ask
  <2>2. PICK q : q = NewRequest(p, counted)
    OBVIOUS
  <2>3. q \in Rows /\ NamesFile(q)
    BY <1>0, <2>2, ExtractAssumption DEF NewRequest, Rows, NamesFile
  <2>4. /\ reqs' \in Seq(Rows) /\ Len(reqs') <= MaxRequests /\ Fired \subseteq Fired'
        /\ Len(reqs) + 1 \in Fired' /\ Len(reqs) + 1 \in Requests /\ Named'
    BY <1>3, <2>1, <2>2, <2>3, AppendFacts DEF Ask, IInv
  <2>5. job' \in [Procs -> Jobs] /\ JobsFired'
    BY <1>0, <1>3, <2>4, GoFacts DEF Ask, IInv
  <2>6. unsent' \in [Requests -> SUBSET Parts] /\ faults' \in 0..MaxFaults
    <3>1. unsent \in [Requests -> SUBSET Parts] /\ faults \in 0..MaxFaults
      BY DEF IInv, TypeOK
    <3> QED
      BY <1>3, <3>1, FaultFacts, ExtractAssumption DEF Ask, IInv
  <2>7. UNCHANGED <<exact, landing, file, mixed, raw>>
    BY <1>3 DEF Ask
  <2> QED
    BY <2>4, <2>5, <2>6, <2>7 DEF IInv, TypeOK, Rows, Jobs, AddsToFired
<1>4. ASSUME NEW p \in Procs, AskFails(p) PROVE IInv'
  <2>1. PICK n \in 0..MaxRequests : n = Cardinality(Closed) + 1
    BY <1>4, ClosedFacts DEF AskFails, IInv
  <2>2. PICK q : q = [NewRequest(p, FALSE) EXCEPT !.status = "failed", !.closed = n]
    OBVIOUS
  <2>3. q \in Rows /\ NamesFile(q)
    <3>1. q = [kind |-> IF p = "sweep" THEN "whole" ELSE "window", status |-> "failed", window |-> FALSE,
               counted |-> FALSE, got |-> 0, key |-> NoKey, loaded |-> FALSE, closed |-> n]
      BY <2>2 DEF NewRequest
    <3> QED
      BY <1>0, <2>1, <3>1 DEF Rows, NamesFile
  <2>4. reqs' = Append(reqs, q) /\ Len(reqs) < MaxRequests
    BY <1>4, <2>1, <2>2 DEF AskFails
  <2>5. reqs' \in Seq(Rows) /\ Len(reqs') <= MaxRequests /\ Fired \subseteq Fired' /\ Named'
    BY <2>3, <2>4, AppendFacts DEF IInv
  <2>6. job' \in [Procs -> Jobs] /\ JobsFired'
    BY <1>0, <1>4, <2>5, GoFacts DEF AskFails, IInv
  <2>7. UNCHANGED <<exact, unsent, landing, file, mixed, raw>> /\ faults' \in 0..MaxFaults
    BY <1>4, FaultFacts DEF AskFails, IInv
  <2> QED
    BY <2>5, <2>6, <2>7 DEF IInv, TypeOK, Rows, Jobs, AddsToFired
<1> QED
  BY <1>1, <1>2, <1>3, <1>4

LEMMA InitIInv == Init => IInv
<1> SUFFICES ASSUME Init PROVE IInv
  OBVIOUS
<1>1. reqs \in Seq(Rows) /\ Len(reqs) = 0 /\ Fired = {}
  BY EmptySeq DEF Init, Fired
<1>2. NoRows \in [Parts -> Nat] /\ AllRows \in [Parts -> Nat] /\ 0 \in Folders
  BY DEF NoRows, AllRows, Folders
<1>3. TypeOK
  BY <1>1, <1>2, ExtractAssumption DEF Init, TypeOK, Rows, Idle
<1> QED
  BY <1>1, <1>3 DEF Init, IInv, JobsFired, AddsToFired, Named, Idle

LEMMA NextIInv == IInv /\ [Next]_vars => IInv'
<1> SUFFICES ASSUME IInv, [Next]_vars PROVE IInv'
  OBVIOUS
<1>1. CASE UNCHANGED vars
  BY <1>1 DEF vars, IInv, TypeOK, JobsFired, AddsToFired, Named, NamesFile, Fired
<1>2. CASE Next
  <2>1. "sweep" \in Procs /\ "delta" \in Procs
    BY DEF Procs
  <2> QED
    BY <1>2, <2>1, UploadSteps, CloseSteps, JobSteps, RequestSteps DEF Next, Upload, Sweep, Delta
<1> QED
  BY <1>1, <1>2

\* Requests, uploads, files and processes keep their types whatever is lost,
\* repeated or late: in particular what is loaded is a file that some chunk named
\* (csv_receipt.py: record_chunk, csv_load.py: load_table), never a missing one.
THEOREM ExtractTypes == Spec => []TypeOK
<1>1. IInv => TypeOK
  BY DEF IInv
<1>2. Spec => []IInv
  BY InitIInv, NextIInv, PTL DEF Spec
<1> QED
  BY <1>1, <1>2, PTL
----------------------------------------------------------------------------
(* What is judged whole is whole, unless the request is mixed.               *)

Clean == Requests \ mixed

\* A file that is not mixed holds a chunk once at most, and what its uploads have put.
FilesOnce ==
    /\ \A r \in Clean, k \in Parts : file[r][k] \in {0, 1}
    /\ \A l \in landing : l.to \in Clean /\ l.step # "put" => file[l.to][l.part] = 1

\* Nothing else is bringing a chunk that has been put.
PutOnce ==
    \A l, m \in landing :
        l.to \in Clean /\ l.to = m.to /\ l.part = m.part /\ l.step # "put" /\ m.step # "put" => l = m

\* The parts that are in the file of r and have nothing left to do.
Done(r) == {k \in Parts : /\ file[r][k] = 1
                          /\ \A l \in landing : l.to = r /\ l.part = k => l.step = "put"}

\* Two counts may become one, but none counts a chunk the file lacks.
Totals ==
    /\ \A r \in Fired : r \in Clean => reqs[r].got <= Cardinality(Done(r)) /\ reqs[r].key \in {NoKey, r}
    /\ \A l \in landing :
           l.step = "add" /\ l.by \in Clean => l.to = l.by /\ l.saw <= Cardinality(Done(l.by))

WholeRow(q) == q.status = "complete" /\ q.kind = "whole" /\ q.counted

Reconciled == \A r \in Fired : r \in Clean /\ exact /\ WholeRow(reqs[r]) => reqs[r].got = NumParts

\* Only increments are tagged.
Tagged ==
    /\ \A r \in Fired : reqs[r].kind = "whole" => ~reqs[r].window
    /\ job["delta"].pc = "tag" => reqs[job["delta"].req].kind = "window"

WInv == FilesOnce /\ PutOnce /\ Totals /\ Reconciled /\ Tagged

\* No part that was done is undone, and what was mixed stays so.
Grows == Clean' \subseteq Clean /\ \A r \in Clean' : Done(r) \subseteq Done(r)'

LEMMA PartsCount ==
    ASSUME NEW S \in SUBSET Parts
    PROVE  /\ IsFiniteSet(S) /\ Cardinality(S) \in Nat /\ Cardinality(S) <= NumParts
           /\ Cardinality(S) = NumParts => S = Parts
           /\ \A T \in SUBSET S : Cardinality(T) <= Cardinality(S)
           /\ \A k \in Parts \ S : Cardinality(S \cup {k}) = Cardinality(S) + 1
<1>1. IsFiniteSet(Parts) /\ Cardinality(Parts) = NumParts
  BY FS_Interval, ExtractAssumption DEF Parts
<1>2. IsFiniteSet(S) /\ Cardinality(S) <= NumParts /\ (Cardinality(S) = NumParts => S = Parts)
  BY <1>1, FS_Subset
<1>3. \A T \in SUBSET S : Cardinality(T) <= Cardinality(S)
  BY <1>2, FS_Subset
<1>4. \A k \in Parts \ S : Cardinality(S \cup {k}) = Cardinality(S) + 1
  BY <1>2, FS_AddElement
<1>5. Cardinality(S) \in Nat
  BY <1>2, FS_CardinalityType
<1> QED
  BY <1>2, <1>3, <1>4, <1>5

\* A request that counted every chunk has every chunk in its file, once, and no
\* upload on its way past the file.
LEMMA AllDone ==
    ASSUME IInv, WInv, NEW r \in Fired, r \in Clean, reqs[r].got = NumParts
    PROVE  file[r] = AllRows /\ Done(r) = Parts
<1>1. Done(r) \in SUBSET Parts
  BY DEF Done
<1>2. NumParts <= Cardinality(Done(r)) /\ NumParts \in Nat
  BY ExtractAssumption DEF WInv, Totals
<1>3. Done(r) = Parts
  BY <1>1, <1>2, PartsCount
<1>4. \A k \in Parts : file[r][k] = 1
  BY <1>3 DEF Done
<1>5. file[r] \in [Parts -> Nat]
  BY DEF Clean, IInv, TypeOK, Folders
<1> QED
  BY <1>3, <1>4, <1>5 DEF AllRows

LEMMA WholeFromTotals ==
    ASSUME IInv, WInv
    PROVE  WholeFile
<1> SUFFICES ASSUME NEW r \in Fired, IsWhole(r), r \notin mixed PROVE file[reqs[r].key] = AllRows
  BY DEF WholeFile
<1>1. r \in Clean
  BY RequestFacts DEF Clean, IInv
<1>2. reqs[r].got = NumParts
  BY <1>1 DEF WInv, Reconciled, IsWhole, WholeRow
<1>3. reqs[r].key = r
  BY <1>1 DEF WInv, Totals, IInv, Named, NamesFile, IsWhole
<1> QED
  BY <1>1, <1>2, <1>3, AllDone

----------------------------------------------------------------------------
(* Requests are written, and no upload moves. *)

Moved(q, n) ==
    /\ n.kind = q.kind /\ n.counted = q.counted /\ n.got = q.got /\ n.key = q.key
    /\ n.window = q.window \/ q.kind = "window"
    /\ n.status = q.status \/ (q.status = "open" /\ n.status \in {"failed", Verdict(q)})

Blank(q) == q.got = 0 /\ q.key = NoKey /\ ~q.window /\ q.status # "complete"

DeskWork ==
    /\ Fired \subseteq Fired' /\ landing' = landing /\ file' = file /\ exact' = exact /\ mixed' = mixed
    /\ \A r \in Fired : Moved(reqs[r], reqs'[r])
    /\ \A r \in Fired' \ Fired : Blank(reqs'[r])

LEMMA DeskKeeps ==
    ASSUME IInv, WInv, DeskWork, Tagged'
    PROVE  WInv'
<1>1. /\ Fired \subseteq Fired' /\ UNCHANGED <<landing, file, exact, mixed>>
      /\ \A r \in Fired : Moved(reqs[r], reqs'[r])
      /\ \A r \in Fired' \ Fired : Blank(reqs'[r])
  BY DEF DeskWork
<1>2. Clean' = Clean /\ \A r \in Clean : Done(r)' = Done(r)
  BY <1>1 DEF Clean, Done
<1>3. FilesOnce' /\ PutOnce'
  BY <1>1, <1>2 DEF WInv, FilesOnce, PutOnce
<1>4. Totals'
  <2>1. ASSUME NEW r \in Fired', r \in Clean
        PROVE  (reqs[r].got <= Cardinality(Done(r)) /\ reqs[r].key \in {NoKey, r})'
    <3>1. CASE r \in Fired
      BY <1>1, <1>2, <2>1, <3>1 DEF WInv, Totals, Moved
    <3>2. CASE r \notin Fired
      <4>1. Done(r) \in SUBSET Parts
        BY DEF Done
      <4>2. 0 <= Cardinality(Done(r))
        BY <4>1, PartsCount
      <4> QED
        BY <1>1, <1>2, <2>1, <3>2, <4>2 DEF Blank
    <3> QED
      BY <3>1, <3>2
  <2>2. \A l \in landing' : l.step = "add" /\ l.by \in Clean => l.to = l.by /\ l.saw <= Cardinality(Done(l.by)')
    BY <1>1, <1>2 DEF WInv, Totals
  <2> QED
    BY <1>2, <2>1, <2>2 DEF Totals
<1>5. Reconciled'
  <2> SUFFICES ASSUME NEW r \in Fired', r \in Clean, exact', WholeRow(reqs'[r]) PROVE reqs'[r].got = NumParts
    BY <1>2 DEF Reconciled, WholeRow
  <2>1. r \in Fired
    BY <1>1 DEF Blank, WholeRow
  <2>2. Moved(reqs[r], reqs'[r]) /\ exact
    BY <1>1, <2>1
  <2>3. CASE reqs[r].status = "complete"
    BY <2>1, <2>2, <2>3 DEF WInv, Reconciled, WholeRow, Moved
  <2>4. CASE reqs[r].status # "complete"
    <3>1. Verdict(reqs[r]) = "complete" /\ reqs[r].kind = "whole" /\ reqs[r].counted
      BY <2>2, <2>4 DEF WholeRow, Moved
    <3>2. ~reqs[r].window
      BY <2>1, <3>1 DEF WInv, Tagged
    <3>3. reqs[r].got = NumParts
      BY <2>2, <3>1, <3>2 DEF Verdict
    <3> QED
      BY <2>2, <3>3 DEF Moved
  <2> QED
    BY <2>3, <2>4
<1> QED
  BY <1>3, <1>4, <1>5 DEF WInv

\* One row is written, or one added.
LEMMA RowMoved ==
    ASSUME IInv, NEW r \in Fired, NEW q \in Rows, Moved(reqs[r], q), reqs' = [reqs EXCEPT ![r] = q]
    PROVE  Fired' = Fired /\ \A i \in Fired : Moved(reqs[i], reqs'[i])
<1>1. /\ Len(reqs') = Len(reqs)
      /\ \A i \in 1..Len(reqs) : reqs'[i] = IF i = r THEN q ELSE reqs[i]
  BY RequestFacts, ExceptSeq DEF Fired, IInv
<1> QED
  BY <1>1 DEF Fired, Moved

LEMMA RowAdded ==
    ASSUME IInv, Len(reqs) < MaxRequests, NEW q \in Rows, reqs' = Append(reqs, q)
    PROVE  /\ Fired \subseteq Fired' /\ Fired' = Fired \cup {Len(reqs) + 1}
           /\ Len(reqs) + 1 \in Requests \ Fired
           /\ \A i \in Fired : reqs'[i] = reqs[i] /\ Moved(reqs[i], reqs'[i])
           /\ reqs'[Len(reqs) + 1] = q
<1>1. /\ Len(reqs') = Len(reqs) + 1 /\ Len(reqs) \in Nat
      /\ \A i \in 1..Len(reqs) : reqs'[i] = reqs[i]
      /\ reqs'[Len(reqs) + 1] = q
  BY RequestFacts, AppendProperties DEF IInv
<1> QED
  BY <1>1, ExtractAssumption DEF Fired, Requests, Moved

\* A tag to be written belongs to an increment, unless a step says otherwise.
LEMMA TaggedKept ==
    ASSUME IInv, WInv, DeskWork, job' \in [Procs -> Jobs],
           job'["delta"].pc # "tag" \/ job'["delta"] = job["delta"]
    PROVE  Tagged'
<1>1. \A r \in Fired' : reqs'[r].kind = "whole" => ~reqs'[r].window
  BY DEF DeskWork, Moved, Blank, WInv, Tagged
<1>2. ASSUME job'["delta"].pc = "tag" PROVE reqs'[job'["delta"].req].kind = "window"
  <2>1. job["delta"].req \in Fired /\ reqs[job["delta"].req].kind = "window"
    BY <1>2 DEF IInv, JobsFired, Procs, WInv, Tagged
  <2> QED
    BY <1>2, <2>1 DEF DeskWork, Moved
<1> QED
  BY <1>1, <1>2 DEF Tagged

LEMMA DeskSteps ==
    ASSUME IInv, IInv', WInv,
           \/ Clear \/ Begin \/ GiveUp \/ Collected \/ Load \/ LoadNothing \/ Merge \/ Tag
           \/ \E p \in Procs : \/ Wait(p) \/ JudgeEarly(p) \/ Fire(p) \/ Kill(p)
                               \/ MarkLoaded(p) \/ Ask(p) \/ AskFails(p)
           \/ \E r \in Requests : Abandon(r)
    PROVE  WInv'
<1> USE DEF sap, receipt
<1>0. /\ \A r \in Fired : reqs[r] \in Rows /\ r \in Requests
      /\ job \in [Procs -> Jobs] /\ job' \in [Procs -> Jobs]
      /\ "delta" \in Procs /\ "sweep" \in Procs
  BY RequestFacts DEF IInv, TypeOK, Jobs, Procs
<1>1. CASE \/ Clear \/ \E p \in Procs : Wait(p) \/ JudgeEarly(p)
           \/ \E r \in Requests : Abandon(r)
  <2>0. PICK r \in Open : Close(r, "failed") \/ Close(r, Verdict(reqs[r]))
    BY <1>1 DEF Clear, Wait, JudgeEarly, Abandon, Judge
  <2>1. PICK s \in {"failed", Verdict(reqs[r])} : Close(r, s)
    BY <2>0
  <2>2. r \in Fired /\ s \in {"complete", "failed", "timeout"}
    BY <2>0, <2>1, VerdictFacts DEF Open, IInv
  <2>3. PICK n \in 0..MaxRequests : n = Cardinality(Closed) + 1
    BY <2>1, ClosedFacts DEF IInv
  <2>4. PICK q : q = [reqs[r] EXCEPT !.status = s, !.closed = n]
    OBVIOUS
  <2>5. q \in Rows /\ Moved(reqs[r], q)
    <3>1. reqs[r] \in Rows /\ reqs[r].status = "open"
      BY <1>0, <2>1, <2>2 DEF Open
    <3>2. /\ q \in Rows /\ q.kind = reqs[r].kind /\ q.counted = reqs[r].counted /\ q.got = reqs[r].got
          /\ q.key = reqs[r].key /\ q.window = reqs[r].window /\ q.status = s
      BY <2>2, <2>4, <3>1 DEF Rows
    <3> QED
      BY <2>1, <3>1, <3>2 DEF Moved
  <2>6. reqs' = [reqs EXCEPT ![r] = q]
    BY <2>1, <2>3, <2>4 DEF Close
  <2>7. Fired' = Fired /\ \A i \in Fired : Moved(reqs[i], reqs'[i])
    BY <2>2, <2>5, <2>6, RowMoved
  <2>8. UNCHANGED <<exact, landing, file, mixed, job>>
    BY <1>1 DEF Clear, Wait, JudgeEarly, Abandon
  <2>9. DeskWork
    BY <1>0, <2>7, <2>8 DEF DeskWork
  <2> QED
    BY <1>0, <2>8, <2>9, TaggedKept, DeskKeeps
<1>2. CASE \/ Begin \/ GiveUp \/ Collected \/ Load \/ LoadNothing \/ Merge
           \/ \E p \in Procs : Fire(p) \/ Kill(p)
  <2>1. UNCHANGED <<exact, reqs, landing, file, mixed>>
    BY <1>2 DEF Begin, GiveUp, Collected, Load, LoadNothing, Merge, Fire, Kill
  <2>2. DeskWork
    BY <1>0, <2>1 DEF DeskWork, Moved, Fired
  <2>3. \E p \in Procs, pc \in {"idle", "fire", "count", "load", "mark"}, r \in Folders : Go(p, pc, r)
    <3>1. 0 \in Folders /\ Fired \subseteq Folders /\ job["delta"].req \in Folders
      BY <1>0 DEF Folders, Jobs
    <3>2. CASE Begin
      BY <1>0, <3>1, <3>2 DEF Begin
    <3>3. CASE GiveUp \/ Collected
      BY <1>0, <3>1, <3>3 DEF GiveUp, Collected
    <3>4. CASE Load
      BY <1>0, <3>1, <3>4 DEF Load
    <3>5. CASE LoadNothing
      BY <1>0, <3>1, <3>5 DEF LoadNothing
    <3>6. CASE Merge
      BY <1>0, <3>1, <3>6 DEF Merge
    <3>7. CASE \E p \in Procs : Fire(p) \/ Kill(p)
      BY <1>0, <3>1, <3>7 DEF Fire, Check, Kill
    <3> QED
      BY <1>2, <3>2, <3>3, <3>4, <3>5, <3>6, <3>7
  <2>4. job'["delta"].pc # "tag" \/ job'["delta"] = job["delta"]
    BY <1>0, <2>3 DEF Go
  <2> QED
    BY <1>0, <2>2, <2>4, TaggedKept, DeskKeeps
<1>3. CASE Tag \/ \E p \in Procs : MarkLoaded(p)
  <2>1. PICK r \in Fired, q \in Rows : reqs' = [reqs EXCEPT ![r] = q] /\ Moved(reqs[r], q)
    <3>1. CASE Tag
      <4>1. PICK r \in Fired : r = job["delta"].req
        BY <1>0, <3>1 DEF Tag, IInv, JobsFired
      <4>2. PICK q : q = [reqs[r] EXCEPT !.window = TRUE]
        OBVIOUS
      <4>3. reqs[r].kind = "window"
        BY <3>1, <4>1 DEF Tag, WInv, Tagged
      <4>4. q \in Rows /\ Moved(reqs[r], q)
        BY <1>0, <4>1, <4>2, <4>3 DEF Rows, Moved
      <4>5. reqs' = [reqs EXCEPT ![r] = q]
        BY <3>1, <4>1, <4>2 DEF Tag
      <4> QED
        BY <4>4, <4>5
    <3>2. CASE \E p \in Procs : MarkLoaded(p)
      <4>0. PICK p \in Procs : MarkLoaded(p)
        BY <3>2
      <4>1. PICK r \in Fired : r = job[p].req
        BY <1>0, <4>0 DEF MarkLoaded, IInv, JobsFired
      <4>2. PICK q : q = [reqs[r] EXCEPT !.loaded = TRUE]
        OBVIOUS
      <4>3. q \in Rows /\ Moved(reqs[r], q)
        BY <1>0, <4>1, <4>2 DEF Rows, Moved
      <4>4. reqs' = [reqs EXCEPT ![r] = q]
        BY <4>0, <4>1, <4>2 DEF MarkLoaded
      <4> QED
        BY <4>3, <4>4
    <3> QED
      BY <1>3, <3>1, <3>2
  <2>2. Fired' = Fired /\ \A i \in Fired : Moved(reqs[i], reqs'[i])
    BY <2>1, RowMoved
  <2>3. UNCHANGED <<exact, landing, file, mixed>>
    BY <1>3 DEF Tag, MarkLoaded
  <2>4. DeskWork
    BY <1>0, <2>2, <2>3 DEF DeskWork
  <2>5. \E p \in Procs, pc \in {"wait", "idle"}, f \in Folders : Go(p, pc, f)
    <3>1. 0 \in Folders /\ job["delta"].req \in Folders
      BY <1>0 DEF Folders, Jobs
    <3> QED
      BY <1>0, <1>3, <3>1 DEF Tag, MarkLoaded
  <2>6. job'["delta"].pc # "tag" \/ job'["delta"] = job["delta"]
    BY <1>0, <2>5 DEF Go
  <2> QED
    BY <1>0, <2>4, <2>6, TaggedKept, DeskKeeps
<1>4. ASSUME NEW p \in Procs, Ask(p) PROVE WInv'
  <2>1. PICK counted \in BOOLEAN : reqs' = Append(reqs, NewRequest(p, counted))
    BY <1>4 DEF Ask
  <2>2. PICK q : q = NewRequest(p, counted)
    OBVIOUS
  <2>3. q \in Rows /\ Blank(q) /\ q.kind = IF p = "sweep" THEN "whole" ELSE "window"
    BY <2>2, ExtractAssumption DEF NewRequest, Rows, Blank
  <2>4. /\ Fired \subseteq Fired' /\ Fired' = Fired \cup {Len(reqs) + 1}
        /\ Len(reqs) + 1 \in Requests \ Fired
        /\ \A i \in Fired : reqs'[i] = reqs[i] /\ Moved(reqs[i], reqs'[i])
        /\ reqs'[Len(reqs) + 1] = q
    BY <1>4, <2>1, <2>2, <2>3, RowAdded DEF Ask
  <2>5. UNCHANGED <<exact, landing, file, mixed>>
    BY <1>4 DEF Ask
  <2>6. DeskWork
    BY <2>3, <2>4, <2>5 DEF DeskWork
  <2>7. Tagged'
    <3>1. CASE p = "sweep"
      <4>1. job'["delta"] = job["delta"]
        BY <1>0, <1>4, <3>1 DEF Ask, Go
      <4> QED
        BY <1>0, <2>6, <4>1, TaggedKept
    <3>2. CASE p # "sweep"
      <4>1. job'["delta"].req = Len(reqs) + 1
        BY <1>0, <1>4, <3>2 DEF Ask, Go, Procs
      <4>2. \A r \in Fired' : reqs'[r].kind = "whole" => ~reqs'[r].window
        BY <2>6 DEF DeskWork, Moved, Blank, WInv, Tagged
      <4> QED
        BY <2>3, <2>4, <3>2, <4>1, <4>2 DEF Tagged
    <3> QED
      BY <3>1, <3>2
  <2> QED
    BY <2>6, <2>7, DeskKeeps
<1>5. ASSUME NEW p \in Procs, AskFails(p) PROVE WInv'
  <2>1. PICK n \in 0..MaxRequests : n = Cardinality(Closed) + 1
    BY <1>5, ClosedFacts DEF AskFails, IInv
  <2>2. PICK q : q = [NewRequest(p, FALSE) EXCEPT !.status = "failed", !.closed = n]
    OBVIOUS
  <2>3. q \in Rows /\ Blank(q)
    <3>1. q = [kind |-> IF p = "sweep" THEN "whole" ELSE "window", status |-> "failed", window |-> FALSE,
               counted |-> FALSE, got |-> 0, key |-> NoKey, loaded |-> FALSE, closed |-> n]
      BY <2>2 DEF NewRequest
    <3> QED
      BY <2>1, <3>1 DEF Rows, Blank
  <2>4. /\ Fired \subseteq Fired' /\ Fired' = Fired \cup {Len(reqs) + 1}
        /\ Len(reqs) + 1 \in Requests \ Fired
        /\ \A i \in Fired : reqs'[i] = reqs[i] /\ Moved(reqs[i], reqs'[i])
        /\ reqs'[Len(reqs) + 1] = q
    BY <1>5, <2>1, <2>2, <2>3, RowAdded DEF AskFails
  <2>5. UNCHANGED <<exact, landing, file, mixed>>
    BY <1>5 DEF AskFails
  <2>6. DeskWork
    BY <1>0, <2>3, <2>4, <2>5 DEF DeskWork
  <2>7. job'["delta"].pc # "tag" \/ job'["delta"] = job["delta"]
    BY <1>0, <1>5 DEF AskFails, Go
  <2> QED
    BY <1>0, <2>6, <2>7, TaggedKept, DeskKeeps
<1> QED
  BY <1>1, <1>2, <1>3, <1>4, <1>5

----------------------------------------------------------------------------
(* Chunks are landed. *)

\* Totals hold on while what is done grows and no request is written.
LEMMA TotalsKept ==
    ASSUME IInv, WInv, Grows, UNCHANGED <<reqs, exact, job>>,
           \A l \in landing' : l.step = "add" =>
               /\ l.saw \in Nat /\ l.by \in Folders
               /\ \/ l \in landing
                  \/ l.by \in Clean' => l.to = l.by /\ l.saw <= Cardinality(Done(l.by))
    PROVE  Totals' /\ Reconciled' /\ Tagged'
<1>1. Fired' = Fired /\ Fired \subseteq Requests /\ \A r \in Fired : reqs[r].got \in Nat
  BY RequestFacts DEF Fired, IInv, Rows
<1>2. \A r \in Clean' : /\ r \in Clean /\ Cardinality(Done(r)) \in Nat /\ Cardinality(Done(r)') \in Nat
                        /\ Cardinality(Done(r)) <= Cardinality(Done(r)')
  <2> TAKE r \in Clean'
  <2>1. Done(r) \in SUBSET Parts /\ Done(r)' \in SUBSET Parts
    BY DEF Done
  <2>2. r \in Clean /\ Done(r) \in SUBSET (Done(r)')
    BY DEF Grows
  <2> QED
    BY <2>1, <2>2, PartsCount
<1>3. Totals'
  <2>1. ASSUME NEW r \in Fired, r \in Clean'
        PROVE  reqs[r].got <= Cardinality(Done(r)') /\ reqs[r].key \in {NoKey, r}
    BY <1>1, <1>2, <2>1 DEF WInv, Totals
  <2>2. ASSUME NEW l \in landing', l.step = "add", l.by \in Clean'
        PROVE  l.to = l.by /\ l.saw <= Cardinality(Done(l.by)')
    <3>1. l.to = l.by /\ l.saw <= Cardinality(Done(l.by)) /\ l.saw \in Nat
      BY <1>2, <2>2 DEF WInv, Totals
    <3> QED
      BY <1>2, <2>2, <3>1
  <2> QED
    BY <1>1, <2>1, <2>2 DEF Totals
<1>4. Reconciled' /\ Tagged'
  BY <1>1, <1>2 DEF WInv, Reconciled, Tagged
<1> QED
  BY <1>3, <1>4

\* An upload ends, or fails.
LEMMA DropKeeps ==
    ASSUME IInv, WInv, NEW l \in landing, landing' = landing \ {l}, UNCHANGED <<file, mixed>>
    PROVE  FilesOnce' /\ PutOnce' /\ Grows
<1>1. Clean' = Clean
  BY DEF Clean
<1>2. FilesOnce' /\ PutOnce'
  BY <1>1 DEF WInv, FilesOnce, PutOnce
<1>3. Grows
  BY <1>1 DEF Grows, Done
<1> QED
  BY <1>2, <1>3

\* A chunk that has only arrived, or is to be pushed again, has done nothing yet.
LEMMA ReceiveKeeps ==
    ASSUME IInv, WInv, NEW r \in Requests, NEW k \in Parts, Receive(r, k) \/ Resend(r, k)
    PROVE  WInv'
<1>1. /\ \A l \in landing' : l \in landing \/ l.step = "put"
      /\ landing \subseteq landing' /\ UNCHANGED <<exact, reqs, file, mixed, job>>
  <2>1. CASE Receive(r, k)
    <3>1. PICK f \in Folders, begun \in BOOLEAN :
              landing' = landing \cup
                  {[of |-> r, part |-> k, to |-> f, begun |-> begun, by |-> 0, saw |-> 0, step |-> "put"]}
      BY <2>1 DEF Receive
    <3> QED
      BY <2>1, <3>1 DEF Receive
  <2>2. CASE Resend(r, k)
    BY <2>2 DEF Resend, receipt
  <2> QED
    BY <2>1, <2>2
<1>2. Clean' = Clean
  BY <1>1 DEF Clean
<1>3. FilesOnce' /\ PutOnce'
  BY <1>1, <1>2 DEF WInv, FilesOnce, PutOnce
<1>4. Grows
  BY <1>1, <1>2 DEF Grows, Done
<1>5. \A l \in landing' : l.step = "add" => l \in landing /\ l.saw \in Nat /\ l.by \in Folders
  BY <1>1 DEF IInv, TypeOK
<1>6. Totals' /\ Reconciled' /\ Tagged'
  BY <1>1, <1>4, <1>5, TotalsKept
<1> QED
  BY <1>3, <1>6 DEF WInv

\* A chunk goes into a file that lacks it, or the request is mixed from now on.
LEMMA PutKeeps ==
    ASSUME IInv, WInv, NEW l \in landing, Put(l)
    PROVE  WInv'
<1>1. l \in Uploads /\ landing \subseteq Uploads /\ l.part \in Parts /\ l.to \in Folders
  BY DEF IInv, TypeOK, Uploads
<1>2. PICK n : n = [l EXCEPT !.step = "count"]
  OBVIOUS
<1>3. /\ landing' = (landing \ {l}) \cup {n} /\ n.step = "count" /\ n.part = l.part /\ n.to = l.to
      /\ UNCHANGED <<exact, reqs, job>> /\ l.step = "put"
  BY <1>1, <1>2 DEF Put, Uploads, sap
<1>4. file \in [Folders -> [Parts -> Nat]] /\ Clean \subseteq Folders
  BY DEF IInv, TypeOK, Folders, Clean
<1>5. \A s \in Folders : s # l.to => file'[s] = file[s]
  BY <1>4 DEF Put
<1>6. Clean' \subseteq Clean /\ (l.to \in Clean' => ~Mixes(l))
  BY DEF Put, Clean
<1>7. ASSUME l.to \in Clean'
      PROVE  file'[l.to] = [file[l.to] EXCEPT ![l.part] = 1] /\ file[l.to][l.part] = 0
  <2>1. ~Mixes(l) /\ l.to \in Requests /\ file[l.to] \in [Parts -> Nat]
    BY <1>4, <1>6, <1>7 DEF Clean
  <2>2. CASE l.begun
    <3>1. file[l.to][l.part] = 0
      BY <1>1, <2>1, <2>2 DEF Mixes
    <3>2. file'[l.to] = [file[l.to] EXCEPT ![l.part] = @ + 1]
      BY <1>1, <1>4, <2>2 DEF Put
    <3> QED
      BY <1>1, <2>1, <3>1, <3>2
  <2>3. CASE ~l.begun
    <3>1. file[l.to] = NoRows
      BY <2>1, <2>3 DEF Mixes
    <3>2. file'[l.to] = [NoRows EXCEPT ![l.part] = 1]
      BY <1>1, <1>4, <2>3 DEF Put
    <3> QED
      BY <1>1, <3>1, <3>2 DEF NoRows
  <2> QED
    BY <2>2, <2>3
<1>8. \A s \in Clean', j \in Parts : file'[s][j] = IF s = l.to /\ j = l.part THEN 1 ELSE file[s][j]
  <2> TAKE s \in Clean', j \in Parts
  <2>1. CASE s = l.to
    <3>1. file[s] \in [Parts -> Nat] /\ file'[s] = [file[s] EXCEPT ![l.part] = 1]
      BY <1>1, <1>4, <1>7, <2>1
    <3> QED
      BY <1>1, <2>1, <3>1
  <2>2. CASE s # l.to
    BY <1>4, <1>5, <1>6, <2>2
  <2> QED
    BY <2>1, <2>2
<1>9. \A m \in landing' : m = n \/ (m \in landing /\ m # l /\ m.part \in Parts /\ m.to \in Folders)
  BY <1>1, <1>3 DEF Uploads
<1>10. FilesOnce'
  <2>1. \A s \in Clean', j \in Parts : file'[s][j] \in {0, 1}
    BY <1>6, <1>8 DEF WInv, FilesOnce
  <2>2. ASSUME NEW m \in landing', m.to \in Clean', m.step # "put" PROVE file'[m.to][m.part] = 1
    <3>1. CASE m = n
      BY <1>1, <1>3, <1>8, <2>2, <3>1
    <3>2. CASE m # n
      <4>1. m \in landing /\ m.part \in Parts /\ file[m.to][m.part] = 1
        BY <1>6, <1>9, <2>2, <3>2 DEF WInv, FilesOnce
      <4> QED
        BY <1>8, <2>2, <4>1
    <3> QED
      BY <3>1, <3>2
  <2> QED
    BY <2>1, <2>2 DEF FilesOnce
<1>11. PutOnce'
  <2>1. ASSUME NEW m \in landing', m # n, m.to = l.to, m.part = l.part, m.to \in Clean', m.step # "put"
        PROVE  FALSE
    <3>1. m \in landing /\ file[m.to][m.part] = 1
      BY <1>6, <1>9, <2>1 DEF WInv, FilesOnce
    <3> QED
      BY <1>7, <2>1, <3>1
  <2>2. ASSUME NEW m \in landing', NEW o \in landing', m # n, o # n,
               m.to \in Clean', m.to = o.to, m.part = o.part, m.step # "put", o.step # "put"
        PROVE  m = o
    BY <1>6, <1>9, <2>2 DEF WInv, PutOnce
  <2> QED
    BY <1>3, <2>1, <2>2 DEF PutOnce
<1>12. Grows
  <2> SUFFICES ASSUME NEW s \in Clean', NEW j \in Done(s) PROVE j \in Done(s)'
    BY <1>6 DEF Grows
  <2>1. j \in Parts /\ file[s][j] = 1 /\ s \in Clean
    BY <1>6 DEF Done
  <2>2. file'[s][j] = 1 /\ ~(s = l.to /\ j = l.part)
    BY <1>7, <1>8, <2>1
  <2>3. \A m \in landing' : m.to = s /\ m.part = j => m.step = "put"
    BY <1>3, <1>9, <2>2 DEF Done
  <2> QED
    BY <2>1, <2>2, <2>3 DEF Done
<1>13. Totals' /\ Reconciled' /\ Tagged'
  <2>1. \A m \in landing' : m.step = "add" => m \in landing /\ m.saw \in Nat /\ m.by \in Folders
    BY <1>1, <1>3, <1>9 DEF Uploads
  <2> QED
    BY <1>3, <1>12, <2>1, TotalsKept
<1> QED
  BY <1>10, <1>11, <1>13 DEF WInv

\* A chunk is counted for the request whose file it went into, for none, or the
\* request is mixed from now on.
LEMMA LookKeeps ==
    ASSUME IInv, WInv, NEW l \in landing, Look(l)
    PROVE  WInv'
<1>1. l \in Uploads /\ landing \subseteq Uploads
  BY DEF IInv, TypeOK, Uploads
<1>2. UNCHANGED <<exact, reqs, file, job>> /\ l.step = "count"
  BY DEF Look, sap
<1>3. PICK f \in Folders :
          /\ Collecting(f)
          /\ mixed' = IF f \in {0, l.to} THEN mixed ELSE mixed \cup {f}
          /\ landing' = (landing \ {l}) \cup
                 IF f = 0 THEN {} ELSE {[l EXCEPT !.by = f, !.saw = reqs[f].got, !.step = "add"]}
  BY DEF Look
<1>4. CASE f = 0
  <2>1. landing' = landing \ {l} /\ mixed' = mixed
    BY <1>3, <1>4
  <2>2. FilesOnce' /\ PutOnce' /\ Grows
    BY <1>2, <2>1, DropKeeps
  <2>3. \A m \in landing' : m.step = "add" => m \in landing /\ m.saw \in Nat /\ m.by \in Folders
    BY <1>1, <2>1 DEF Uploads
  <2>4. Totals' /\ Reconciled' /\ Tagged'
    BY <1>2, <2>2, <2>3, TotalsKept
  <2> QED
    BY <2>2, <2>4 DEF WInv
<1>5. CASE f # 0
  <2>1. f \in Fired /\ f \in Requests /\ reqs[f].got \in Nat
    BY <1>3, <1>5, RequestFacts DEF Collecting, IInv, Rows
  <2>2. PICK n : n = [l EXCEPT !.by = f, !.saw = reqs[f].got, !.step = "add"]
    OBVIOUS
  <2>3. /\ landing' = (landing \ {l}) \cup {n} /\ n.step = "add" /\ n.part = l.part
        /\ n.to = l.to /\ n.by = f /\ n.saw = reqs[f].got
    BY <1>1, <1>3, <1>5, <2>2 DEF Uploads
  <2>4. Clean' \subseteq Clean /\ (f \in Clean' => f = l.to)
    BY <1>3, <1>5 DEF Clean
  <2>5. FilesOnce'
    BY <1>2, <2>3, <2>4 DEF WInv, FilesOnce
  <2>6. PutOnce'
    BY <1>2, <2>3, <2>4 DEF WInv, PutOnce
  <2>7. Grows
    BY <1>2, <2>3, <2>4 DEF Grows, Done
  <2>8. f \in Clean' => n.to = n.by /\ n.saw <= Cardinality(Done(n.by))
    BY <2>1, <2>3, <2>4 DEF WInv, Totals
  <2>9. \A m \in landing' : m.step = "add" =>
            /\ m.saw \in Nat /\ m.by \in Folders
            /\ \/ m \in landing
               \/ m.by \in Clean' => m.to = m.by /\ m.saw <= Cardinality(Done(m.by))
    BY <1>1, <2>1, <2>3, <2>8 DEF Uploads
  <2>10. Totals' /\ Reconciled' /\ Tagged'
    BY <1>2, <2>7, <2>9, TotalsKept
  <2> QED
    BY <2>5, <2>6, <2>10 DEF WInv
<1> QED
  BY <1>4, <1>5

\* The count goes up by the chunk that is now done.
LEMMA AddKeeps ==
    ASSUME IInv, WInv, NEW l \in landing, Add(l)
    PROVE  WInv'
<1>1. PICK r \in Fired : r = l.by
  BY DEF Add, IInv, AddsToFired
<1>2. /\ l \in Uploads /\ r \in Requests /\ l.part \in Parts /\ l.saw \in Nat /\ l.to \in Folders
      /\ \A i \in Fired : reqs[i] \in Rows /\ i \in Requests
  BY <1>1, RequestFacts DEF IInv, TypeOK, Uploads
<1>3. PICK key : key = IF reqs[r].key = NoKey THEN l.to ELSE reqs[r].key
  OBVIOUS
<1>4. PICK q : q = [reqs[r] EXCEPT !.got = l.saw + 1, !.key = key]
  OBVIOUS
<1>5. /\ q.got = l.saw + 1 /\ q.key = key /\ q.kind = reqs[r].kind /\ q.status = reqs[r].status
      /\ q.counted = reqs[r].counted /\ q.window = reqs[r].window /\ q \in Rows
  <2>1. reqs[r] \in Rows /\ l.saw + 1 \in Nat /\ key \in Folders \cup {NoKey}
    BY <1>2, <1>3 DEF Rows
  <2> QED
    BY <1>4, <2>1 DEF Rows
<1>6. reqs' = [reqs EXCEPT ![r] = q]
  <2>1. reqs \in [Fired -> Rows]
    BY RequestFacts, LenProperties DEF IInv, Fired
  <2>2. [reqs[r] EXCEPT !.got = l.saw + 1].key = reqs[r].key
    BY <1>2 DEF Rows
  <2> QED
    BY <1>1, <1>3, <1>4, <2>1, <2>2 DEF Add
<1>7. Fired' = Fired /\ \A i \in Fired : reqs'[i] = IF i = r THEN q ELSE reqs[i]
  <2>1. /\ Len(reqs') = Len(reqs)
        /\ \A i \in 1..Len(reqs) : reqs'[i] = IF i = r THEN q ELSE reqs[i]
    BY <1>5, <1>6, RequestFacts, ExceptSeq DEF Fired, IInv
  <2> QED
    BY <2>1 DEF Fired
<1>8. landing' = landing \ {l} /\ UNCHANGED <<exact, file, mixed, job>> /\ l.step = "add"
  BY DEF Add, sap
<1>9. FilesOnce' /\ PutOnce' /\ Grows /\ Clean' = Clean
  BY <1>8, DropKeeps DEF Clean
<1>10. \A s \in Clean : /\ Cardinality(Done(s)) \in Nat /\ Cardinality(Done(s)') \in Nat
                        /\ Cardinality(Done(s)) <= Cardinality(Done(s)')
  <2> TAKE s \in Clean
  <2>1. Done(s) \in SUBSET Parts /\ Done(s)' \in SUBSET Parts
    BY DEF Done
  <2>2. Done(s) \in SUBSET (Done(s)')
    BY <1>9 DEF Grows
  <2> QED
    BY <2>1, <2>2, PartsCount
<1>11. ASSUME r \in Clean
       PROVE  l.to = r /\ l.part \notin Done(r) /\ l.saw + 1 <= Cardinality(Done(r)')
  <2>1. l.to = r /\ l.saw <= Cardinality(Done(r))
    BY <1>1, <1>8, <1>11 DEF WInv, Totals
  <2>2. l.part \notin Done(r)
    BY <1>8, <2>1 DEF Done
  <2>3. l.part \in Done(r)'
    <3>1. file[r][l.part] = 1
      BY <1>8, <1>11, <2>1 DEF WInv, FilesOnce
    <3>2. \A m \in landing' : m.to = r /\ m.part = l.part => m.step = "put"
      BY <1>8, <1>11, <2>1 DEF WInv, PutOnce
    <3> QED
      BY <1>2, <1>8, <3>1, <3>2 DEF Done
  <2>4. Done(r) \in SUBSET Parts /\ Done(r)' \in SUBSET Parts /\ Done(r) \cup {l.part} \in SUBSET (Done(r)')
    BY <1>9, <1>11, <2>3 DEF Done, Grows
  <2>5. Cardinality(Done(r) \cup {l.part}) = Cardinality(Done(r)) + 1
    BY <1>2, <2>2, <2>4, PartsCount
  <2>6. Cardinality(Done(r)) + 1 <= Cardinality(Done(r)')
    BY <2>4, <2>5, PartsCount
  <2> QED
    BY <1>2, <1>10, <1>11, <2>1, <2>2, <2>6
<1>12. Totals'
  <2>1. ASSUME NEW i \in Fired, i \in Clean
        PROVE  reqs'[i].got <= Cardinality(Done(i)') /\ reqs'[i].key \in {NoKey, i}
    <3>1. CASE i = r
      <4>1. key \in {NoKey, r}
        BY <1>3, <1>11, <2>1, <3>1 DEF WInv, Totals
      <4> QED
        BY <1>5, <1>7, <1>11, <2>1, <3>1, <4>1
    <3>2. CASE i # r
      <4>1. reqs[i].got \in Nat /\ reqs[i].got <= Cardinality(Done(i)) /\ reqs[i].key \in {NoKey, i}
        BY <1>2, <2>1 DEF WInv, Totals, Rows
      <4> QED
        BY <1>7, <1>10, <2>1, <3>2, <4>1
    <3> QED
      BY <3>1, <3>2
  <2>2. ASSUME NEW m \in landing', m.step = "add", m.by \in Clean
        PROVE  m.to = m.by /\ m.saw <= Cardinality(Done(m.by)')
    <3>1. m.to = m.by /\ m.saw <= Cardinality(Done(m.by)) /\ m.saw \in Nat
      BY <1>8, <2>2 DEF WInv, Totals, IInv, TypeOK
    <3> QED
      BY <1>10, <2>2, <3>1
  <2> QED
    BY <1>7, <1>9, <2>1, <2>2 DEF Totals
<1>13. Reconciled'
  <2> SUFFICES ASSUME NEW i \in Fired, i \in Clean, exact, WholeRow(reqs'[i]) PROVE reqs'[i].got = NumParts
    BY <1>7, <1>8, <1>9 DEF Reconciled, WholeRow
  <2>1. WholeRow(reqs[i])
    BY <1>5, <1>7 DEF WholeRow
  <2>2. reqs[i].got = NumParts
    BY <2>1 DEF WInv, Reconciled
  <2>3. i # r
    BY <1>2, <1>11, <2>2, AllDone
  <2> QED
    BY <1>7, <2>2, <2>3
<1>14. Tagged'
  <2>1. job["delta"].pc = "tag" => job["delta"].req \in Fired
    BY DEF IInv, JobsFired, Procs
  <2> QED
    BY <1>5, <1>7, <1>8, <2>1 DEF WInv, Tagged
<1> QED
  BY <1>9, <1>12, <1>13, <1>14 DEF WInv

LEMMA LandFailsKeeps ==
    ASSUME IInv, WInv, NEW l \in landing, LandFails(l)
    PROVE  WInv'
<1>1. landing' = landing \ {l} /\ UNCHANGED <<exact, reqs, file, mixed, job>>
  BY DEF LandFails, sap
<1>2. FilesOnce' /\ PutOnce' /\ Grows
  BY <1>1, DropKeeps
<1>3. \A m \in landing' : m.step = "add" => m \in landing /\ m.saw \in Nat /\ m.by \in Folders
  BY <1>1 DEF IInv, TypeOK
<1>4. Totals' /\ Reconciled' /\ Tagged'
  BY <1>1, <1>2, <1>3, TotalsKept
<1> QED
  BY <1>2, <1>4 DEF WInv

LEMMA InitWInv == Init => WInv
<1> SUFFICES ASSUME Init PROVE WInv
  OBVIOUS
<1>1. Fired = {} /\ landing = {} /\ job["delta"].pc = "idle"
  BY EmptySeq DEF Init, Fired, Idle, Procs
<1>2. \A r \in Clean : \A k \in Parts : file[r][k] = 0
  BY DEF Init, Clean, Folders, NoRows
<1> QED
  BY <1>1, <1>2 DEF WInv, FilesOnce, PutOnce, Totals, Reconciled, Tagged

LEMMA NextWInv == IInv /\ IInv' /\ WInv /\ [Next]_vars => WInv'
<1> SUFFICES ASSUME IInv, IInv', WInv, [Next]_vars PROVE WInv'
  OBVIOUS
<1>1. CASE UNCHANGED vars
  BY <1>1 DEF vars, WInv, FilesOnce, PutOnce, Totals, Reconciled, Tagged, Done, Clean, Fired
<1>2. CASE Next
  <2>1. "sweep" \in Procs /\ "delta" \in Procs
    BY DEF Procs
  <2> QED
    BY <1>2, <2>1, ReceiveKeeps, PutKeeps, LookKeeps, AddKeeps, LandFailsKeeps, DeskSteps
    DEF Next, Upload, Sweep, Delta
<1> QED
  BY <1>1, <1>2

\* However many chunks are lost, calls fail, processes are killed, requests are abandoned or
\* judged before their last chunk, and however many uploads are landed and counted side by
\* side, what is judged a whole extract is one (csv_pull.py: _verdict), except for the
\* requests that mixed names: a file begun twice, given a chunk again or one of another
\* request, or a count of a chunk that went into another file.
THEOREM WholeFileHolds == Spec => []WholeFile
<1>1. Spec => []IInv
  BY InitIInv, NextIInv, PTL DEF Spec
<1>2. Spec => []WInv
  BY <1>1, InitWInv, NextWInv, PTL DEF Spec
<1>3. IInv /\ WInv => WholeFile
  BY WholeFromTotals
<1> QED
  BY <1>1, <1>2, <1>3, PTL
=============================================================================
