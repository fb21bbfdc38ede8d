------------------------------ MODULE DeltaSweep ------------------------------
(***************************************************************************)
(* The delta sweep of app/ingest: one pass over a set of SAP entity sets   *)
(* that reads what changed since each set's watermark, merges it into the  *)
(* raw_ tables and only then moves the watermarks (app/ingest/sweep.py,    *)
(* with fetch.py, load.py, raw_merge.py and watermarks.py).                *)
(*                                                                         *)
(* A change in SAP is an event.  It is dated on one set, its carrier, and  *)
(* it alters rows of the carrier and of every set read through the         *)
(* carrier's keys: a goods receipt is dated on POHistorySet and also       *)
(* alters PurchaseOrderItemSet and POScheduleLineSet.  Every event is on a *)
(* document of its own, so re-reading one document never repairs another.  *)
(* raw[s] is the set of events whose effect on s the table raw_<s> holds.  *)
(***************************************************************************)
EXTENDS Integers, FiniteSets

CONSTANTS
    Sets,          \* the entity sets with a runnable delta
    Direct,        \* those that carry a date of their own (Delta.direct)
    Via,           \* Via[s]: the parents whose keys s is re-read for
    Name,          \* Name[s]: the rank of s in the alphabetical order
    Events,        \* the changes SAP records
    Carrier,       \* Carrier[e]: the set whose date e moves
    Choices,       \* the selections of sets a sweep is started with: those verified then
    EmptyAtStart,  \* the sets whose tables hold no rows at first
    SeedMargin,    \* SEED_MARGIN_DAYS
    LoadedOn,      \* the day the tables were loaded, from an extract taken on day 0
    BadDays,       \* dates SAP may carry by mistake, of any day
    MaxDay,        \* bound: the last day of the model
    MaxPosted,     \* bound: how many of the events happen
    MaxFaults,     \* bound: failures, crashes and wipes
    NoDay          \* "no date", "no mark", "no candidate"

ASSUME SetsAssumption ==
    /\ Direct \subseteq Sets
    /\ Via \in [Sets -> SUBSET Direct]
    /\ \A s \in Sets : s \notin Via[s]
    /\ Name \in [Sets -> Nat]
    /\ \A s, t \in Sets : Name[s] = Name[t] => s = t
    /\ Choices \subseteq SUBSET Sets
    /\ EmptyAtStart \subseteq Sets
ASSUME EventsAssumption == Carrier \in [Events -> Direct]
ASSUME DaysAssumption ==
    /\ MaxDay \in Nat /\ MaxPosted \in Nat /\ MaxFaults \in Nat /\ SeedMargin \in Nat
    /\ LoadedOn \in Nat /\ LoadedOn <= MaxDay
    /\ BadDays \subseteq Nat
    /\ NoDay \notin Int

VARIABLES
    today,      \* SAP's calendar day
    stamp,      \* stamp[e]: the day e is dated, NoDay while it has not happened
    raw,        \* raw[s]: events the table of s reflects
    populated,  \* the sets whose table holds rows
    mark,       \* mark[p]: the watermark (ingest_watermark), a day
    loadDay,    \* loadDay[p]: day of the newest load in ingestion_run, until p has a mark
    pc,         \* phase of the sweep
    chosen,     \* the sets this sweep was started with
    window,     \* window[p]: lower bound of p's window, read once
    forced,     \* sets pulled in full because their table is empty
    todo,       \* sets the current phase has still to handle
    cached,     \* parents whose keys have been collected
    keys,       \* keys[p]: the documents p's window handed over
    rows,       \* rows[s]: what the fetch of s landed
    candidate,  \* candidate[p]: where p's next window would start
    outcome,    \* outcome[s]: what happened to s in this sweep
    skipped,    \* history: <<e, s>>, a change the code lets a mark pass while s lacks it
    faults      \* failures so far

sapVars   == <<today, stamp>>
dbVars    == <<raw, populated, mark, loadDay>>
sweepVars == <<pc, chosen, window, forced, todo, cached, keys, rows, candidate, outcome>>
vars      == <<sapVars, dbVars, sweepVars, skipped, faults>>

Day == Int \cup {NoDay}

\* The newest date of the rows that were there before the model's first day.
OldDay == -1

Posted(e) == stamp[e] # NoDay
SoFar == Cardinality({e \in Events : Posted(e)})

\* The sets an event dated on p alters: p and every set read through p.
Readers(p) == {p} \cup {s \in Sets : p \in Via[s]}

TypeOK ==
    /\ today \in Nat /\ today <= MaxDay
    /\ stamp \in [Events -> Nat \cup {NoDay}]
    /\ raw \in [Sets -> SUBSET Events]
    /\ populated \in SUBSET Sets
    /\ mark \in [Direct -> Day]
    /\ loadDay \in [Direct -> Nat \cup {NoDay}]
    /\ pc \in {"idle", "fetch", "load", "marks"}
    /\ chosen \in SUBSET Sets
    /\ window \in [Direct -> Day]
    /\ forced \in SUBSET Sets
    /\ todo \in SUBSET chosen
    /\ cached \in SUBSET Direct
    /\ keys \in [Direct -> SUBSET Events]
    /\ rows \in [Sets -> SUBSET Events]
    /\ candidate \in [Sets -> Day]
    /\ outcome \in [Sets -> {"none", "failed", "fetched", "loaded"}]
    /\ skipped \subseteq Events \X Sets
    /\ faults \in 0..MaxFaults

NoSweep ==
    /\ pc = "idle" /\ chosen = {} /\ forced = {} /\ todo = {} /\ cached = {}
    /\ window = [p \in Direct |-> NoDay]
    /\ keys = [p \in Direct |-> {}]
    /\ rows = [s \in Sets |-> {}]
    /\ candidate = [s \in Sets |-> NoDay]
    /\ outcome = [s \in Sets |-> "none"]

\* Tables that reached the database by migration: rows of an extract taken
\* before day 0, a load record for day LoadedOn, but no watermark.  The ones in
\* EmptyAtStart were never loaded.
Init ==
    /\ today = LoadedOn /\ faults = 0 /\ skipped = {}
    /\ stamp \in [Events -> (0..LoadedOn) \cup {NoDay}] /\ SoFar <= MaxPosted
    /\ raw = [s \in Sets |-> {}]
    /\ populated = Sets \ EmptyAtStart
    /\ mark = [p \in Direct |-> NoDay]
    /\ loadDay = [p \in Direct |-> IF p \in EmptyAtStart THEN NoDay ELSE LoadedOn]
    /\ NoSweep

----------------------------------------------------------------------------
(* SAP, and the operator. *)

\* Behind the mark, or behind the candidate that is about to be it.
Behind(p, d) ==
    \/ mark[p] # NoDay /\ d < mark[p]
    \/ candidate[p] # NoDay /\ d < candidate[p]

\* A change is dated on the day it happens, or carries a mistyped date.  One that
\* is dated behind the mark lies in no window again.
Post(e) ==
    /\ stamp[e] = NoDay /\ SoFar < MaxPosted
    /\ \E d \in {today} \cup BadDays :
          /\ stamp' = [stamp EXCEPT ![e] = d]
          /\ skipped' = IF Behind(Carrier[e], d) THEN skipped \cup ({e} \X Readers(Carrier[e])) ELSE skipped
    /\ UNCHANGED <<today, dbVars, sweepVars, faults>>

Midnight ==
    /\ today < MaxDay
    /\ today' = today + 1
    /\ UNCHANGED <<stamp, dbVars, sweepVars, skipped, faults>>

\* The reset that deletes every row and keeps every table, and the marks.
Wipe ==
    /\ pc = "idle" /\ faults < MaxFaults
    /\ \A p \in Direct : mark[p] # NoDay
    /\ raw' = [s \in Sets |-> {}]
    /\ populated' = {}
    /\ faults' = faults + 1
    /\ UNCHANGED <<sapVars, mark, loadDay, sweepVars, skipped>>

----------------------------------------------------------------------------
(* The sweep. *)

\* The sets whose windows a sweep over C reads: its own and its parents'.
Owners(C) == (C \cap Direct) \cup UNION {Via[s] : s \in C}

\* seed_marks_from_load_dates: a set with rows and no mark starts at its load
\* day less the margin.
Seeded(C) ==
    [p \in Direct |->
        IF p \in Owners(C) /\ mark[p] = NoDay /\ p \in populated /\ loadDay[p] # NoDay
        THEN loadDay[p] - SeedMargin ELSE mark[p]]

\* resolve_windows: every lower bound, taken once, after the seeding.
ResolveWindows(C) ==
    [p \in Direct |-> IF p \in Owners(C) THEN Seeded(C)[p] ELSE NoDay]

\* A table that holds no rows has nothing to merge an increment into.
ForcedFull(C) == C \ populated

Begin(C) ==
    /\ pc = "idle"
    /\ mark' = Seeded(C)
    /\ window' = ResolveWindows(C)
    /\ forced' = ForcedFull(C)
    /\ chosen' = C /\ todo' = C
    /\ pc' = "fetch"
    /\ UNCHANGED <<sapVars, raw, populated, loadDay, cached, keys, rows, candidate, outcome, skipped, faults>>

\* fetch_order: parents before the sets that read through them, then by name.
IsParent(s) == \E t \in chosen : s \in Via[t]
Before(s, t) ==
    \/ IsParent(s) /\ ~IsParent(t)
    \/ (IsParent(s) <=> IsParent(t)) /\ Name[s] <= Name[t]
IsNext(s) == s \in todo /\ \A t \in todo : Before(s, t)

\* Read whole: no baseline, no mark of its own, or a parent with no window.
Whole(s) ==
    \/ s \in forced
    \/ s \in Direct /\ window[s] = NoDay
    \/ \E p \in Via[s] : window[p] = NoDay

\* Mutant: an exclusive lower bound.
ExclusiveWindow(p) == {e \in Events : Carrier[e] = p /\ Posted(e) /\ stamp[e] > window[p]}

\* The rows dated on p in p's window, as SAP holds them now.
OwnWindow(p) == {e \in Events : Carrier[e] = p /\ Posted(e) /\ stamp[e] >= window[p]}

\* Mutant: the cache is keyed by the child instead of the parent.
CollectKeysByChild(s, p) ==
    /\ pc = "fetch" /\ IsNext(s) /\ ~Whole(s)
    /\ p \in Via[s] \ cached
    /\ keys' = [keys EXCEPT ![p] = OwnWindow(p)]
    /\ cached' = cached \cup {s}
    /\ UNCHANGED <<sapVars, dbVars, pc, chosen, window, forced, todo, rows, candidate, outcome, skipped, faults>>

\* collect_parent_keys, once per parent: the keys of the parent's window.
CollectKeys(s, p) ==
    /\ pc = "fetch" /\ IsNext(s) /\ ~Whole(s)
    /\ p \in Via[s] \ cached
    /\ keys' = [keys EXCEPT ![p] = OwnWindow(p)]
    /\ cached' = cached \cup {p}
    /\ UNCHANGED <<sapVars, dbVars, pc, chosen, window, forced, todo, rows, candidate, outcome, skipped, faults>>

\* What the fetch of s lands.
FetchedRows(s) ==
    IF Whole(s) THEN {e \in Events : Posted(e) /\ s \in Readers(Carrier[e])}
    ELSE (IF s \in Direct THEN OwnWindow(s) ELSE {}) \cup UNION {keys[p] : p \in Via[s]}

\* The latest day a mark may be: UTC's tomorrow, which is SAP's today late in the
\* UTC evening and SAP's tomorrow the rest of the day.
Ceilings == {today, today + 1}

\* The days of the set's OWN rows in that read, those past the ceiling skipped
\* (watermarks.highest).  Rows older than the model carry OldDay.
MarkDays(s, ceiling) ==
    LET own == IF Whole(s) THEN {e \in Events : Posted(e) /\ Carrier[e] = s} ELSE OwnWindow(s)
    IN  IF s \notin Direct THEN {}
        ELSE {d \in {stamp[e] : e \in own} : d <= ceiling}
               \cup (IF Whole(s) \/ window[s] <= OldDay THEN {OldDay} ELSE {})

\* Mutant: the candidate taken over every row read, the documents the parents
\* handed over included, which carry old dates of their own.
CandidateOfAllRows(s, c, ceiling) ==
    LET days == MarkDays(s, ceiling)
    IN  IF s \notin Direct \/ (days = {} /\ FetchedRows(s) = {}) THEN c = NoDay
        ELSE IF days = {} THEN c = OldDay
        ELSE c \in days /\ \A d \in days : d <= c

\* The candidate mark: the highest of those days, none when there is none.
IsCandidate(s, c, ceiling) ==
    LET days == MarkDays(s, ceiling)
    IN  IF days = {} THEN c = NoDay ELSE c \in days /\ \A d \in days : d <= c

Fetch(s) ==
    /\ pc = "fetch" /\ IsNext(s)
    /\ Whole(s) \/ Via[s] \subseteq cached
    /\ rows' = [rows EXCEPT ![s] = FetchedRows(s)]
    /\ \E ceiling \in Ceilings : \E c \in MarkDays(s, ceiling) \cup {OldDay, NoDay} :
          IsCandidate(s, c, ceiling) /\ candidate' = [candidate EXCEPT ![s] = c]
    /\ outcome' = [outcome EXCEPT ![s] = "fetched"]
    /\ todo' = todo \ {s}
    /\ UNCHANGED <<sapVars, dbVars, pc, chosen, window, forced, cached, keys, skipped, faults>>

\* A parent window that could not be read, a fetch that raised, or one that
\* lost rows (duplicates, a shortfall): landed unusable, or not at all.
FetchFails(s) ==
    /\ pc = "fetch" /\ IsNext(s) /\ faults < MaxFaults
    /\ outcome' = [outcome EXCEPT ![s] = "failed"]
    /\ todo' = todo \ {s}
    /\ faults' = faults + 1
    /\ UNCHANGED <<sapVars, dbVars, pc, chosen, window, forced, cached, keys, rows, candidate, skipped>>

StartLoads ==
    /\ pc = "fetch" /\ todo = {}
    /\ pc' = "load"
    /\ todo' = {s \in chosen : outcome[s] = "fetched"}
    /\ UNCHANGED <<sapVars, dbVars, chosen, window, forced, cached, keys, rows, candidate, outcome, skipped, faults>>

\* raw_merge: rows are added or updated by key, nothing is deleted, and the
\* audit row in ingestion_run makes today the newest load day.
Merge(s) ==
    /\ raw' = [raw EXCEPT ![s] = @ \cup rows[s]]
    /\ populated' = populated \cup {s}
    /\ loadDay' = IF s \in Direct /\ mark[s] = NoDay THEN [loadDay EXCEPT ![s] = today] ELSE loadDay

Load(s) ==
    /\ pc = "load" /\ IsNext(s)
    /\ Merge(s)
    /\ outcome' = [outcome EXCEPT ![s] = "loaded"]
    /\ todo' = todo \ {s}
    /\ UNCHANGED <<sapVars, mark, pc, chosen, window, forced, cached, keys, rows, candidate, skipped, faults>>

\* The merge was refused, or it committed and the odata_ archive beside it failed.
LoadFails(s) ==
    /\ pc = "load" /\ IsNext(s) /\ faults < MaxFaults
    /\ Merge(s) \/ UNCHANGED <<raw, populated, loadDay>>
    /\ outcome' = [outcome EXCEPT ![s] = "failed"]
    /\ todo' = todo \ {s}
    /\ faults' = faults + 1
    /\ UNCHANGED <<sapVars, mark, pc, chosen, window, forced, cached, keys, rows, candidate, skipped>>

StartMarks ==
    /\ pc = "load" /\ todo = {}
    /\ pc' = "marks"
    /\ todo' = chosen \cap Direct
    /\ UNCHANGED <<sapVars, dbVars, chosen, window, forced, cached, keys, rows, candidate, outcome, skipped, faults>>

\* Mutant: only the set's own load decides.
SettledAlone(p) == outcome[p] = "loaded"

\* The family rule: p itself and every chosen set read through it settled.
Settled(p) == \A s \in chosen \cap Readers(p) : outcome[s] = "loaded"

\* What the mark of p passes for the sets read through p that this sweep left out.
LeftOut(p) ==
    {x \in Events \X Sets :
        /\ Carrier[x[1]] = p /\ Posted(x[1]) /\ stamp[x[1]] < candidate[p]
        /\ x[2] \in (Readers(p) \ chosen) \cap populated /\ x[1] \notin raw[x[2]]}

SetMark(p) ==
    /\ pc = "marks" /\ p \in todo
    /\ IF Settled(p) /\ candidate[p] # NoDay
       THEN mark' = [mark EXCEPT ![p] = candidate[p]] /\ skipped' = skipped \cup LeftOut(p)
       ELSE UNCHANGED <<mark, skipped>>
    /\ todo' = todo \ {p}
    /\ UNCHANGED <<sapVars, raw, populated, loadDay, pc, chosen, window, forced, cached, keys, rows,
                   candidate, outcome, faults>>

Reset ==
    /\ pc' = "idle" /\ chosen' = {} /\ forced' = {} /\ todo' = {} /\ cached' = {}
    /\ window' = [p \in Direct |-> NoDay]
    /\ keys' = [p \in Direct |-> {}]
    /\ rows' = [s \in Sets |-> {}]
    /\ candidate' = [s \in Sets |-> NoDay]
    /\ outcome' = [s \in Sets |-> "none"]

EndSweep ==
    /\ pc = "marks" /\ todo = {}
    /\ Reset
    /\ UNCHANGED <<sapVars, dbVars, skipped, faults>>

\* The worker dies, or the sweep raises: nothing it holds in memory survives.
Crash ==
    /\ pc # "idle" /\ faults < MaxFaults
    /\ faults' = faults + 1
    /\ Reset
    /\ UNCHANGED <<sapVars, dbVars, skipped>>

SweepStep ==
    \/ \E C \in Choices : Begin(C)
    \/ \E s \in Sets : \E p \in Via[s] : CollectKeys(s, p)
    \/ \E s \in Sets : Fetch(s) \/ Load(s)
    \/ StartLoads \/ StartMarks \/ EndSweep
    \/ \E p \in Direct : SetMark(p)

Fault == Crash \/ Wipe \/ \E s \in Sets : FetchFails(s) \/ LoadFails(s)

Next ==
    \/ \E e \in Events : Post(e)
    \/ Midnight
    \/ SweepStep
    \/ Fault

Spec == Init /\ [][Next]_vars

\* The hourly timer starts a sweep and a running one goes on, for ever.
FairSpec == Spec /\ WF_vars(SweepStep)

----------------------------------------------------------------------------
(* Properties. *)

\* What NoGap rests on: parents that are read through parents sort after them by
\* name, and every table was loaded, from an extract no older than the margin.
ChainsInOrder == \A s, t \in Sets : \A p \in Via[s] : s \in Via[t] => Name[p] < Name[s]
LoadedInTime == EmptyAtStart = {} /\ LoadedOn <= SeedMargin
Deployed == ChainsInOrder /\ LoadedInTime

\* An event p's watermark has moved past is in every populated table it alters:
\* "advancing past rows that were never landed loses them permanently and
\* silently" (watermarks.py), for the set itself and for its whole family.  Two
\* ways past it are the code's own, and recorded in skipped: a change dated
\* behind the mark, and a mark that moves while a set of the family is left out.
NoGap ==
    \A e \in Events : \A s \in Readers(Carrier[e]) :
        (/\ Posted(e) /\ s \in populated
         /\ mark[Carrier[e]] # NoDay /\ stamp[e] < mark[Carrier[e]] /\ <<e, s>> \notin skipped)
            => e \in raw[s]

\* Where no date is mistyped to a day a ceiling lets through, and sweeps take
\* whole families, nothing is skipped.
WellDated == \A d \in BadDays : d > MaxDay + 1
WholeFamilies == \A C \in Choices : \A s \in Sets : Via[s] \cap C # {} => s \in C
NothingSkipped == skipped = {}

\* Its inductive strengthening: nothing is dated, loaded, marked or read ahead of
\* SAP's calendar.
OnTime ==
    /\ \A e \in Events : Posted(e) => stamp[e] <= today \/ stamp[e] > MaxDay + 1
    /\ \A p \in Direct : loadDay[p] # NoDay => loadDay[p] <= today
    /\ \A p \in Direct : mark[p] # NoDay => mark[p] <= today
    /\ \A p \in Direct : candidate[p] # NoDay => candidate[p] <= today
    /\ pc # "idle" => chosen \in Choices

\* The inductive strengthening of NoGap, part by part.

\* A set without a mark still has the load record the first sweep seeds it from.
Seedable ==
    \A p \in Direct : mark[p] = NoDay =>
        p \in populated /\ loadDay[p] # NoDay /\ loadDay[p] <= SeedMargin

\* Every window a running sweep reads by is the mark it found.
WindowsHeld ==
    pc # "idle" =>
        /\ chosen \in Choices
        /\ chosen \subseteq forced \cup populated
        /\ \A p \in Owners(chosen) :
              /\ window[p] # NoDay /\ mark[p] # NoDay
              /\ pc # "marks" => mark[p] = window[p]

\* A set is fetched, and its keys are read, only after its parents.
ParentsFirst ==
    pc = "fetch" =>
        /\ \A s \in chosen : \A p \in Via[s] : p \in todo => s \in todo
        /\ \A s \in todo : outcome[s] = "none" /\ s \notin cached

\* The keys a parent handed over name every change below its candidate.
KeysComplete ==
    \A p \in cached : \A e \in Events :
        (/\ Posted(e) /\ Carrier[e] = p /\ \E s \in Readers(p) : <<e, s>> \notin skipped
         /\ candidate[p] # NoDay /\ window[p] <= stamp[e] /\ stamp[e] < candidate[p])
            => e \in keys[p]

\* A set pulled whole landed every change its windows lie past.
WholeLanded ==
    \A s \in forced : \A e \in Events :
        (/\ outcome[s] = "fetched" /\ <<e, s>> \notin skipped
         /\ Posted(e) /\ s \in Readers(Carrier[e]) /\ stamp[e] < window[Carrier[e]])
            => e \in rows[s]

\* What lies below a candidate is landed, loaded, or below the window too.
CandidateCovered ==
    \A e \in Events : \A s \in Readers(Carrier[e]) :
        (/\ Posted(e) /\ <<e, s>> \notin skipped
         /\ candidate[Carrier[e]] # NoDay /\ stamp[e] < candidate[Carrier[e]]) =>
            /\ outcome[s] = "fetched" =>
                  e \in rows[s] \/ (s \notin forced /\ stamp[e] < window[Carrier[e]])
            /\ outcome[s] = "loaded" => e \in raw[s]

\* Phases: nothing survives between sweeps, and only what was fetched is loaded.
Phases ==
    /\ pc = "idle" => NoSweep
    /\ pc = "load" => \A s \in todo : outcome[s] = "fetched"
    /\ pc \in {"load", "marks"} => \A s \in Sets : outcome[s] = "fetched" => pc = "load" /\ s \in todo
    /\ pc = "marks" => todo \subseteq Direct
    /\ \A s \in Sets : outcome[s] # "none" => s \in chosen
    /\ forced \subseteq chosen

IInv ==
    /\ TypeOK /\ Seedable /\ WindowsHeld /\ ParentsFirst
    /\ KeysComplete /\ WholeLanded /\ CandidateCovered /\ Phases /\ NoGap

\* "A mark only moves forward" (fetch.py): an incremental read never sets its
\* set's watermark back, whatever rows the parents' keys brought in.  A whole
\* read has no window to be held to, and may.
MarkForward ==
    [][\A p \in Direct : mark[p] # NoDay =>
          mark'[p] # NoDay /\ (mark'[p] >= mark[p] \/ Whole(p))]_vars

\* Once failures stop, every change SAP records reaches every table it alters
\* whose set is swept again and again, but what a mark was let past.
Arrives ==
    \A e \in Events : \A s \in Readers(Carrier[e]) :
        []<>(s \in chosen) => (Posted(e) ~> (e \in raw[s] \/ <<e, s>> \in skipped))
=============================================================================
