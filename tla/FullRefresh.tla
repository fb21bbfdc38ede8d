------------------------------ MODULE FullRefresh ------------------------------
(* The daily full refresh beside the delta (app/ingest: scheduler, csv_pull, *)
(* csv_load): the tables of one family -- a dated set and the sets read       *)
(* through its window -- are extracted whole, replaced, and the family's      *)
(* watermark is set back to the extract.  It and the delta hold different     *)
(* locks, "they do different work, and it and the delta may run at once".     *)
(* An extract is what CsvExtract delivers, a delta what DeltaSweep promises.  *)
EXTENDS Integers, Sequences, FiniteSets

CONSTANTS
    Tables,     \* the raw tables of the family
    Owner,      \* the one whose date the family's windows are on
    MaxDay,     \* bound: the last day of the model
    MaxPosted,  \* bound: changes SAP records, each dated and altering every table
    MaxFaults,  \* bound: extracts and loads that fail, marks not written, kills
    NoDay       \* "no candidate"

ASSUME RefreshAssumption ==
    /\ Owner \in Tables
    /\ MaxDay \in Nat /\ MaxPosted \in Nat /\ MaxFaults \in Nat /\ NoDay \notin Int

VARIABLES
    today,   \* SAP's calendar day
    stamp,   \* the changes so far, in order: stamp[e] is the day e is dated
    raw,     \* raw[t]: the events the raw table of t reflects
    mark,    \* the family's watermark
    landed,  \* landed[t]: reconciled extracts of t nobody has loaded, oldest first
    phase,   \* of the refresh
    todo,    \* tables the phase has still to handle
    at,      \* where load_table is with the table it is loading
    delta,   \* the delta cycle running beside it
    taken,   \* history, taken[t]: the day of the extract t was last replaced from
    loose,   \* history: tables put back behind a mark the delta has moved past them
    faults

vars == <<today, stamp, raw, mark, landed, phase, todo, at, delta, taken, loose, faults>>
sap == <<today, stamp>>
refresh == <<landed, phase, todo, at>>
history == <<taken, loose>>

\* The newest date of the rows that were there before the model's first day.
OldDay == -1

Events == 1..MaxPosted
Posted == 1..Len(stamp)
NoDelta == [step |-> "idle", rows |-> {}, candidate |-> NoDay, todo |-> {}]
NotLoading == [step |-> "none", table |-> Owner]
Fault == faults < MaxFaults /\ faults' = faults + 1

\* d is the newest date of the rows of a table that holds the events E.
IsNewest(d, E) ==
    /\ d \in {stamp[e] : e \in E} \cup {OldDay}
    /\ \A e \in E : stamp[e] <= d

Init ==
    /\ today = 0 /\ stamp = <<>>
    /\ raw = [t \in Tables |-> {}] /\ mark = OldDay - 1
    /\ landed = [t \in Tables |-> <<>>]
    /\ phase = "idle" /\ todo = {} /\ at = NotLoading
    /\ delta = NoDelta
    /\ taken = [t \in Tables |-> 0] /\ loose = {}
    /\ faults = 0

----------------------------------------------------------------------------
(* SAP. *)

Post ==
    /\ Len(stamp) < MaxPosted
    /\ stamp' = Append(stamp, today)
    /\ UNCHANGED <<today, raw, mark, refresh, delta, history, faults>>

Midnight ==
    /\ today < MaxDay
    /\ today' = today + 1
    /\ UNCHANGED <<stamp, raw, mark, refresh, delta, history, faults>>

----------------------------------------------------------------------------
(* The refresh: _full_refresh_tick, run_full_refresh_cycle. *)

StartPull ==
    /\ phase = "idle"
    /\ phase' = "pull" /\ todo' = Tables
    /\ UNCHANGED <<sap, raw, mark, landed, at, delta, history, faults>>

\* pull_all: the table as it is now is extracted, landed and reconciled.
Pull(t) ==
    /\ phase = "pull" /\ t \in todo
    /\ landed' = [landed EXCEPT ![t] = Append(@, [rows |-> Posted, day |-> today])]
    /\ todo' = todo \ {t}
    /\ UNCHANGED <<sap, raw, mark, phase, at, delta, history, faults>>

\* "A table that fails does not stop the run": the others go on.
PullFails(t) ==
    /\ phase = "pull" /\ t \in todo /\ Fault
    /\ todo' = todo \ {t}
    /\ UNCHANGED <<sap, raw, mark, landed, phase, at, delta, history>>

StartLoad ==
    /\ phase = "pull" /\ todo = {}
    /\ phase' = "load" /\ todo' = Tables
    /\ UNCHANGED <<sap, raw, mark, landed, at, delta, history, faults>>

\* MUTANT of Extract: the oldest extract not yet loaded.
ExtractOldest(t) == landed[t][1]

\* latest_complete: the newest extract not yet loaded.
Extract(t) == landed[t][Len(landed[t])]

\* load_table replaces the table in one transaction.  It is left loose if its
\* extract is of an earlier day and the delta's mark is past that day, or may
\* be moved past it by the delta cycle in flight.
Replace(t) ==
    /\ phase = "load" /\ t \in todo /\ at.step = "none" /\ landed[t] # <<>>
    /\ raw' = [raw EXCEPT ![t] = Extract(t).rows]
    /\ at' = [step |-> IF t = Owner THEN "seed" ELSE "mark", table |-> t]
    /\ taken' = [taken EXCEPT ![t] = Extract(t).day]
    /\ loose' = IF Extract(t).day < mark \/ (Extract(t).day < today /\ delta.step # "idle")
                THEN loose \cup {t} ELSE loose \ {t}
    /\ UNCHANGED <<sap, mark, landed, phase, todo, delta, faults>>

\* Nothing waits to be loaded, or the load is refused or rolled back.
LoadsNothing(t) ==
    /\ phase = "load" /\ t \in todo /\ at.step = "none"
    /\ IF landed[t] = <<>> THEN UNCHANGED faults ELSE Fault
    /\ todo' = todo \ {t}
    /\ UNCHANGED <<sap, raw, mark, landed, phase, at, delta, history>>

\* MUTANT of SeedMark: no day of margin.
SeedMarkNewest(m, newest) == m = newest

\* MUTANT of SeedMark: a mark that exists is kept.
SeedMarkIfNone(m, newest) == m = mark

\* _seed_watermark: "always, not only when no mark exists yet", one day back.
SeedMark(m, newest) == m = newest - 1

\* The other tables are not looked at.  One whose rows are of a day before the
\* mark is left loose if the mark was moved forward past it, and stays loose;
\* with no delta in flight the rest are read again from the mark on.
Seed ==
    /\ at.step = "seed"
    /\ \E newest \in {OldDay} \cup 0..MaxDay, m \in (OldDay - 1)..MaxDay :
        /\ IsNewest(newest, Extract(Owner).rows)
        /\ SeedMark(m, newest) /\ mark' = m
        /\ LET behind == {t \in Tables \ {Owner} : taken[t] < newest - 1}
           IN  loose' = (IF newest - 1 > mark THEN behind ELSE {})
                          \cup (loose \cap IF delta.step = "idle" THEN behind ELSE Tables)
    /\ at' = [at EXCEPT !.step = "mark"]
    /\ UNCHANGED <<sap, raw, landed, phase, todo, delta, taken, faults>>

\* set_watermark raised: "the rows are in", and the load goes on.
SeedFails ==
    /\ at.step = "seed" /\ Fault
    /\ at' = [at EXCEPT !.step = "mark"]
    /\ UNCHANGED <<sap, raw, mark, landed, phase, todo, delta, history>>

\* _mark_loaded: the extract will not be loaded again; an older one may.
MarkLoaded ==
    /\ at.step = "mark"
    /\ landed' = [landed EXCEPT ![at.table] = SubSeq(@, 1, Len(@) - 1)]
    /\ todo' = todo \ {at.table}
    /\ at' = NotLoading
    /\ UNCHANGED <<sap, raw, mark, phase, delta, history, faults>>

EndRefresh ==
    /\ phase = "load" /\ todo = {}
    /\ phase' = "idle"
    /\ UNCHANGED <<sap, raw, mark, landed, todo, at, delta, history, faults>>

\* The worker dies anywhere in the refresh; what was committed stays.
Kill ==
    /\ phase # "idle" /\ Fault
    /\ phase' = "idle" /\ todo' = {} /\ at' = NotLoading
    /\ UNCHANGED <<sap, raw, mark, landed, delta, history>>

----------------------------------------------------------------------------
(* The delta cycle, as far as DeltaSweep promises it. *)

DeltaReads ==
    /\ delta.step = "idle"
    /\ \E c \in {NoDay} \cup 0..MaxDay :
        LET window == {e \in Posted : stamp[e] >= mark}
        IN  /\ IF window = {} THEN c = NoDay ELSE IsNewest(c, window)
            /\ delta' = [step |-> "merge", rows |-> window, candidate |-> c, todo |-> Tables]
    /\ UNCHANGED <<sap, raw, mark, refresh, history, faults>>

DeltaMerges(t) ==
    /\ delta.step = "merge" /\ t \in delta.todo
    /\ raw' = [raw EXCEPT ![t] = @ \cup delta.rows]
    /\ delta' = [delta EXCEPT !.todo = @ \ {t}]
    /\ UNCHANGED <<sap, mark, refresh, history, faults>>

\* MUTANT of DeltaMarks: the mark is written though no date was seen.
DeltaMarksAnyway ==
    /\ delta.step = "merge" /\ delta.todo = {}
    /\ mark' = delta.candidate
    /\ delta' = NoDelta
    /\ UNCHANGED <<sap, raw, refresh, history, faults>>

DeltaMarks ==
    /\ delta.step = "merge" /\ delta.todo = {}
    /\ mark' = IF delta.candidate = NoDay THEN mark ELSE delta.candidate
    /\ delta' = NoDelta
    /\ UNCHANGED <<sap, raw, refresh, history, faults>>

\* A fetch or a merge failed, or the worker died: the mark is held.
DeltaStops ==
    /\ delta.step = "merge"
    /\ delta' = NoDelta
    /\ UNCHANGED <<sap, raw, mark, refresh, history, faults>>

----------------------------------------------------------------------------
Refresh ==
    \/ StartPull \/ StartLoad \/ Seed \/ MarkLoaded \/ EndRefresh
    \/ \E t \in Tables : Pull(t) \/ Replace(t) \/ LoadsNothing(t)

Next ==
    \/ Post \/ Midnight \/ Refresh \/ SeedFails \/ Kill
    \/ \E t \in Tables : PullFails(t) \/ DeltaMerges(t)
    \/ DeltaReads \/ DeltaMarks \/ DeltaStops

Spec == Init /\ [][Next]_vars

\* The timer fires every day and the cycle runs to its end.  Nothing is asked
\* of the delta: it may never run, or SAP may ignore its filter.
FairSpec == Spec /\ WF_vars(Refresh)

----------------------------------------------------------------------------
(* Properties. *)

TypeOK ==
    /\ today \in 0..MaxDay
    /\ stamp \in Seq(0..MaxDay) /\ Len(stamp) <= MaxPosted
    /\ raw \in [Tables -> SUBSET Events]
    /\ mark \in (OldDay - 1)..MaxDay
    /\ landed \in [Tables -> Seq([rows : SUBSET Events, day : 0..MaxDay])]
    /\ phase \in {"idle", "pull", "load"}
    /\ todo \subseteq Tables
    /\ at \in [step : {"none", "seed", "mark"}, table : Tables]
    /\ delta \in [step : {"idle", "merge"}, rows : SUBSET Events,
                  candidate : 0..MaxDay \cup {NoDay}, todo : SUBSET Tables]
    /\ taken \in [Tables -> 0..MaxDay]
    /\ loose \subseteq Tables
    /\ faults \in 0..MaxFaults

Lacks(t) == {e \in Posted : stamp[e] < mark /\ e \notin raw[t]}

\* "Whatever the delta had measured before described a table this load has just
\* replaced" (csv_load.py): whichever extracts fail, wherever a refresh is
\* killed and however deltas run beside it, the mark passes no change a table
\* lacks -- unless the table was put back to an earlier day than the delta's.
NoGap == \A t \in Tables \ loose : Lacks(t) = {}

\* "The full refresh is what bounds that drift to one day" (scheduler.py):
\* without any help from the delta, every change is in every table in the end
\* and is not taken out of it again.
Heals == <>[](\A t \in Tables : Posted \subseteq raw[t])

\* "Advancing a parent while a child failed would leave that child with no way
\* back to the keys it missed" (sweep.py), said of the seeding: it never moves
\* the mark past changes of a table whose extract did not land.
SeedsFamily ==
    [][\A t \in Tables :
        at.step = "seed" /\ mark' # mark /\ landed[t] = <<>> /\ Lacks(t) = {}
            => Lacks(t)' = {}]_vars
=============================================================================
