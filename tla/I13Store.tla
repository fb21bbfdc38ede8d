------------------------------- MODULE I13Store -------------------------------
(***************************************************************************)
(* The stored I13 snapshot (app/initiatives/i13/snapshot_store): versions in *)
(* Azure SQL, built or re-aged by processes of their own under one session   *)
(* lock, while loads change the raw tables, the day turns, and consumption   *)
(* plans are captured and refreshed into the version being served.           *)
(*                                                                           *)
(* One captured plan per material; the kinds of record are two: those that   *)
(* are measured against the date (with WATCH, which reads the plans) and     *)
(* those a re-age copies.                                                    *)
(***************************************************************************)
EXTENDS Integers

CONSTANTS
    Tables,        \* the raw tables I13 reads, and its working copies of them
    Materials,     \* the batches: one material-plant each
    Planned,       \* the materials a consumption plan is captured for in a conversation
    Posted,        \* those a plan may be posted for directly
    Procs,         \* the slots build processes run in, one per instance
    MaxVersion,    \* bound: snapshot versions
    MaxLoads,      \* bound: loads into the raw tables
    MaxDay,        \* bound: days
    MaxFaults,     \* bound: failed and killed builds, failed refreshes, lost lock connections
    StoredAtStart, \* is a version served at first
    ManualBuilds,  \* does anyone POST /api/i13/snapshot/refresh
    LockLoss,      \* can a running build's lock connection drop
    None

ASSUME StoreAssumption ==
    /\ Planned \subseteq Materials /\ Posted \subseteq Materials
    /\ MaxVersion \in Nat \ {0} /\ MaxLoads \in Nat /\ MaxDay \in Nat /\ MaxFaults \in Nat
    /\ StoredAtStart \in BOOLEAN /\ ManualBuilds \in BOOLEAN /\ LockLoss \in BOOLEAN
    /\ None \notin Procs /\ None \notin Nat /\ None \notin [day : Nat, plan : BOOLEAN]

Versions == 1..MaxVersion
Days == 0..MaxDay
Copies == 0..MaxLoads
Jobs == {"build", "reage"}

VARIABLES
    raw,       \* raw[t]: how many loads table t has seen
    loaded,    \* loaded[t]: how many of them ingestion_run records
    today,
    drafted,   \* materials with a plan stamped (captured_at), committed or not
    captured,  \* materials with a plan in consumption_plan
    run,       \* run[v]: the row of i13_snapshot_run
    next,      \* MAX(version) + 1
    work,      \* work[v]: the working copies i13_w<v>_*, by table
    dated,     \* dated[v]: the dated records of v, by material
    undated,   \* undated[v]: materials whose undated records v has
    lock,      \* the process whose session holds the build lock
    pc, job,   \* what each build process does, and which of the two it is
    mine,      \* mine[b]: the version it builds
    source,    \* source[b]: the version a re-age starts from
    todo,      \* todo[b]: batches left, or materials left to catch up
    known,     \* known[b]: the plans stamped, and those committed, before it started
    refresh,   \* refresh[m]: the version the refresh of m resolved; Due before that
    missed,    \* history: plans what is served is without, and nothing will put there
    faults

sapVars   == <<raw, loaded, today, drafted, captured>>
storeVars == <<run, next, work, dated, undated>>
procVars  == <<lock, pc, job, mine, source, todo, known>>
\* A refresh that has not resolved the served version yet.
Due == 0

vars == <<sapVars, storeVars, procVars, refresh, missed, faults>>

NoRun == [status |-> "none", seen |-> [t \in Tables |-> 0], day |-> 0]
Record == [day : Days, plan : BOOLEAN]

TypeOK ==
    /\ raw \in [Tables -> Copies] /\ loaded \in [Tables -> Copies] /\ today \in Days
    /\ drafted \in SUBSET Materials /\ captured \in SUBSET Materials /\ missed \in SUBSET Materials
    /\ run \in [Versions -> [status : {"none", "building", "ready", "failed", "superseded"},
                             seen : [Tables -> Copies], day : Days]]
    /\ next \in 1..(MaxVersion + 1)
    /\ work \in [Versions -> [Tables -> Copies \cup {None}]]
    /\ dated \in [Versions -> [Materials -> Record \cup {None}]]
    /\ undated \in [Versions -> SUBSET Materials]
    /\ lock \in Procs \cup {None}
    /\ pc \in [Procs -> {"idle", "launched", "copying", "building", "copied", "swapped", "cleaned", "failed"}]
    /\ job \in [Procs -> Jobs] /\ mine \in [Procs -> Versions] /\ source \in [Procs -> Versions]
    /\ todo \in [Procs -> SUBSET Materials]
    /\ known \in [Procs -> [stamped : SUBSET Materials, committed : SUBSET Materials]]
    /\ refresh \in [Materials -> Versions \cup {Due, None}]
    /\ faults \in 0..MaxFaults

Init ==
    /\ raw = [t \in Tables |-> 0] /\ loaded = [t \in Tables |-> 0] /\ today = 0
    /\ drafted = {} /\ captured = {}
    /\ run = [v \in Versions |-> IF StoredAtStart /\ v = 1 THEN [NoRun EXCEPT !.status = "ready"] ELSE NoRun]
    /\ next = IF StoredAtStart THEN 2 ELSE 1
    /\ work = [v \in Versions |-> [t \in Tables |-> IF StoredAtStart /\ v = 1 THEN 0 ELSE None]]
    /\ dated = [v \in Versions |-> [m \in Materials |->
                  IF StoredAtStart /\ v = 1 THEN [day |-> 0, plan |-> FALSE] ELSE None]]
    /\ undated = [v \in Versions |-> IF StoredAtStart /\ v = 1 THEN Materials ELSE {}]
    /\ lock = None
    /\ pc = [b \in Procs |-> "idle"] /\ job = [b \in Procs |-> "build"]
    /\ mine = [b \in Procs |-> 1] /\ source = [b \in Procs |-> 1]
    /\ todo = [b \in Procs |-> {}]
    /\ known = [b \in Procs |-> [stamped |-> {}, committed |-> {}]]
    /\ refresh = [m \in Materials |-> None] /\ missed = {}
    /\ faults = 0

\* ready_run: the newest ready version.
Ready == {v \in Versions : run[v].status = "ready"}
Served == IF Ready = {} THEN None ELSE CHOOSE v \in Ready : \A u \in Ready : u <= v

----------------------------------------------------------------------------
(* Around the store: loads, midnight, captures. *)

\* A load commits its rows ...
LoadRows(t) ==
    /\ raw[t] < MaxLoads /\ raw[t] = loaded[t]
    /\ raw' = [raw EXCEPT ![t] = @ + 1]
    /\ UNCHANGED <<loaded, today, drafted, captured, storeVars, procVars, refresh, missed, faults>>

\* ... and then its row in ingestion_run, which the fingerprint reads.
RecordLoad(t) ==
    /\ loaded[t] < raw[t]
    /\ loaded' = [loaded EXCEPT ![t] = raw[t]]
    /\ UNCHANGED <<raw, today, drafted, captured, storeVars, procVars, refresh, missed, faults>>

Midnight ==
    /\ today < MaxDay
    /\ today' = today + 1
    /\ UNCHANGED <<raw, loaded, drafted, captured, storeVars, procVars, refresh, missed, faults>>

\* Does the row of m in version v, if there is one, have its plan?
HasIn(records, v, m) == records[v][m] # None /\ records[v][m].plan
HasPlan(v, m) == HasIn(dated, v, m)

\* The assistant stamps a plan with the time ...
Draft(m) ==
    /\ m \in (Planned \cup Posted) \ drafted
    /\ drafted' = drafted \cup {m}
    /\ UNCHANGED <<raw, loaded, today, captured, storeVars, procVars, refresh, missed, faults>>

\* ... commits it, and then refreshes its material.
Capture(m) ==
    /\ m \in Planned \cap (drafted \ captured)
    /\ captured' = captured \cup {m}
    /\ refresh' = [refresh EXCEPT ![m] = Due]
    /\ UNCHANGED <<raw, loaded, today, drafted, storeVars, procVars, missed, faults>>

\* Recorded by a direct call instead (post_consumption_plan): no refresh follows.
PostPlan(m) ==
    /\ m \in Posted \cap (drafted \ captured)
    /\ captured' = captured \cup {m}
    /\ missed' = missed \cup {m}
    /\ UNCHANGED <<raw, loaded, today, drafted, storeVars, procVars, refresh, faults>>

\* The refresh resolves the served version, if there is one, and computes the
\* row from that version's working copies.
Resolve(m) ==
    /\ refresh[m] = Due
    /\ refresh' = [refresh EXCEPT ![m] = Served]
    /\ UNCHANGED <<sapVars, storeVars, procVars, missed, faults>>

\* The refreshed row replaces the old one, in the version resolved.
WithPlan(v, m) == [dated EXCEPT ![v][m] = [day |-> run[v].day, plan |-> TRUE]]

RefreshMaterial(m) ==
    /\ refresh[m] \in Versions
    /\ dated' = WithPlan(refresh[m], m)
    /\ refresh' = [refresh EXCEPT ![m] = None]
    /\ missed' = IF refresh[m] = Served THEN missed \ {m} ELSE missed
    /\ UNCHANGED <<sapVars, run, next, work, undated, procVars, faults>>

\* A refresh that fails, or finds the working copies gone, is logged.  Nothing
\* retries it.
RefreshFails(m) ==
    /\ refresh[m] # None
    /\ \/ faults < MaxFaults /\ faults' = faults + 1
       \/ /\ refresh[m] \in Versions /\ \E t \in Tables : work[refresh[m]][t] = None
          /\ UNCHANGED faults
    /\ refresh' = [refresh EXCEPT ![m] = None]
    /\ missed' = missed \cup {m}
    /\ UNCHANGED <<sapVars, storeVars, procVars>>

----------------------------------------------------------------------------
(* Who starts a build. *)

DataChanged == Served # None /\ run[Served].seen # loaded
DayTurned == Served # None /\ run[Served].day < today

\* Mutant: nothing is ever re-aged.
DecidedBuild(j) == j = "build" /\ (Served = None \/ DataChanged)

\* decide: settling, the rebuild gap and the window may hold a build back, so
\* either answer is possible when both questions are open.
Decided(j) ==
    \/ j = "build" /\ (Served = None \/ DataChanged)
    \/ j = "reage" /\ DayTurned

\* check_fingerprint, start_up or a manual refresh: a process is launched.
Launch(b, j) ==
    /\ pc[b] = "idle" /\ lock = None
    /\ Decided(j) \/ (ManualBuilds /\ j = "build")
    /\ pc' = [pc EXCEPT ![b] = "launched"]
    /\ job' = [job EXCEPT ![b] = j]
    /\ UNCHANGED <<sapVars, storeVars, lock, mine, source, todo, known, refresh, missed, faults>>

\* Mutant: the process does not ask for the lock.
DeclinesUnlocked(b) ==
    job[b] = "reage" /\ (Served = None \/ (Served # None /\ run[Served].day >= today))

\* Exit code 3, a re-age with nothing to re-age, or one already done.
Declines(b) ==
    \/ lock # None
    \/ job[b] = "reage" /\ (Served = None \/ (Served # None /\ run[Served].day >= today))

Decline(b) ==
    /\ pc[b] = "launched" /\ Declines(b)
    /\ pc' = [pc EXCEPT ![b] = "idle"]
    /\ UNCHANGED <<sapVars, storeVars, lock, job, mine, source, todo, known, refresh, missed, faults>>

\* Mutant: the reference date is a day ahead.
ReferenceDateAhead == today + 1

\* reference_date_for: the date every metric is measured as of.
ReferenceDate == today

\* The process takes the lock and writes its run row: a build's with the
\* fingerprint read before anything is copied, a re-age's with its source's.
Start(b) ==
    /\ pc[b] = "launched" /\ ~Declines(b) /\ next <= MaxVersion
    /\ lock' = b
    /\ mine' = [mine EXCEPT ![b] = next] /\ next' = next + 1
    /\ source' = [source EXCEPT ![b] = IF job[b] = "reage" THEN Served ELSE @]
    /\ run' = [run EXCEPT ![next] =
                 [status |-> "building", day |-> ReferenceDate,
                  seen |-> IF job[b] = "reage" THEN run[Served].seen ELSE loaded]]
    /\ todo' = [todo EXCEPT ![b] = Materials]
    /\ known' = [known EXCEPT ![b] = [stamped |-> drafted, committed |-> captured]]
    /\ pc' = [pc EXCEPT ![b] = IF job[b] = "build" THEN "copying" ELSE "building"]
    /\ UNCHANGED <<sapVars, work, dated, undated, job, refresh, missed, faults>>

----------------------------------------------------------------------------
(* A build, a re-age. *)

\* work_tables.create: one table after the other, each as it is then, in one
\* transaction that commits with the last.
CopyTable(b, t) ==
    /\ pc[b] = "copying" /\ work[mine[b]][t] = None
    /\ work' = [work EXCEPT ![mine[b]][t] = raw[t]]
    /\ pc' = IF \A u \in Tables \ {t} : work[mine[b]][u] # None THEN [pc EXCEPT ![b] = "building"] ELSE pc
    /\ UNCHANGED <<sapVars, run, next, dated, undated, lock, job, mine, source, todo, known, refresh, missed, faults>>

\* The copies no other session sees yet.
Uncommitted == {mine[b] : b \in {c \in Procs : pc[c] = "copying"}}

\* The working copies a batch reads: the version's own, or its source's.
Copied(b) ==
    \A t \in Tables : work[IF job[b] = "build" THEN mine[b] ELSE source[b]][t] # None

\* _build_batch: the dated kinds, with the plans captured so far; a build also
\* writes the undated ones.
BuildBatch(b, m) ==
    /\ pc[b] = "building" /\ Copied(b) /\ m \in todo[b]
    /\ dated' = [dated EXCEPT ![mine[b]][m] = [day |-> run[mine[b]].day, plan |-> m \in captured]]
    /\ undated' = IF job[b] = "build" THEN [undated EXCEPT ![mine[b]] = @ \cup {m}] ELSE undated
    /\ todo' = [todo EXCEPT ![b] = @ \ {m}]
    /\ UNCHANGED <<sapVars, run, next, work, lock, pc, job, mine, source, known, refresh, missed, faults>>

\* Mutant: the undated kinds are not copied.
CopyNothing(b) ==
    /\ pc[b] = "building" /\ job[b] = "reage" /\ todo[b] = {}
    /\ pc' = [pc EXCEPT ![b] = "copied"]
    /\ UNCHANGED <<sapVars, storeVars, lock, job, mine, source, todo, known, refresh, missed, faults>>

\* _copy_kinds, after a re-age's last batch.
CopyKinds(b) ==
    /\ pc[b] = "building" /\ job[b] = "reage" /\ todo[b] = {}
    /\ undated' = [undated EXCEPT ![mine[b]] = undated[source[b]]]
    /\ pc' = [pc EXCEPT ![b] = "copied"]
    /\ UNCHANGED <<sapVars, run, next, work, dated, lock, job, mine, source, todo, known, refresh, missed, faults>>

\* Mutant: a build retires the version before its own, not whichever is ready.
SwitchFromPrevious(b) ==
    run' = [v \in Versions |->
              IF v = mine[b] THEN [run[v] EXCEPT !.status = "ready"]
              ELSE IF run[v].status = "ready" /\ v = mine[b] - 1
                   THEN [run[v] EXCEPT !.status = "superseded"] ELSE run[v]]

\* Mutant: the version is stamped with the fingerprint of the moment it is ready.
SwitchStamps(b) ==
    run' = [v \in Versions |->
              IF v = mine[b]
              THEN [run[v] EXCEPT !.status = "ready", !.seen = IF job[b] = "build" THEN loaded ELSE @]
              ELSE IF run[v].status = "ready" THEN [run[v] EXCEPT !.status = "superseded"] ELSE run[v]]

\* One transaction: the old version retired, the new one ready, and for a
\* re-age the working copies handed over.
Switch(b) ==
    run' = [v \in Versions |->
              IF v = mine[b] THEN [run[v] EXCEPT !.status = "ready"]
              ELSE IF run[v].status = "ready" THEN [run[v] EXCEPT !.status = "superseded"] ELSE run[v]]

\* The plans a swap leaves out, because they were committed after the process had
\* started: too late for their batch, not refreshed since, and not to be caught
\* up with, as a build never does and a re-age only with those stamped since.
LeftOut(b) ==
    {m \in captured \ known[b].committed :
        /\ job[b] = "build" \/ m \in known[b].stamped
        /\ refresh[m] # Due /\ ~HasPlan(mine[b], m)}

Swap(b) ==
    /\ pc[b] = IF job[b] = "build" THEN "building" ELSE "copied"
    /\ todo[b] = {}
    /\ Switch(b)
    /\ work' = IF job[b] = "build" THEN work
               ELSE [work EXCEPT ![mine[b]] = work[source[b]], ![source[b]] = [t \in Tables |-> None]]
    /\ pc' = [pc EXCEPT ![b] = "swapped"]
    /\ missed' = LeftOut(b)
    /\ UNCHANGED <<sapVars, next, dated, undated, lock, job, mine, source, todo, known, refresh, faults>>

Cleared(vs) ==
    /\ dated' = [v \in Versions |-> IF v \in vs THEN [m \in Materials |-> None] ELSE dated[v]]
    /\ undated' = [v \in Versions |-> IF v \in vs THEN {} ELSE undated[v]]

Dropped(vs) == work' = [v \in Versions |-> IF v \in vs THEN [t \in Tables |-> None] ELSE work[v]]
DroppedExcept(vs) == Dropped(Versions \ (vs \cup Uncommitted))

\* Mutant: a re-age catches up with nothing, as a build does.
NothingToCatchUp(b) == {}

\* What a re-age refreshes again: the plans stamped since it started.  A build
\* has nothing of the kind.
ToCatchUp(b) == IF job[b] = "reage" THEN captured \ known[b].stamped ELSE {}

\* cleanup: every other version's records and working copies go.
Cleanup(b) ==
    /\ pc[b] = "swapped"
    /\ Cleared(Versions \ {mine[b]}) /\ DroppedExcept({mine[b]})
    /\ todo' = [todo EXCEPT ![b] = ToCatchUp(b)]
    /\ pc' = [pc EXCEPT ![b] = "cleaned"]
    /\ UNCHANGED <<sapVars, run, next, lock, job, mine, source, known, refresh, missed, faults>>

\* _catch_up: the same refresh, of the version served now.
CatchUp(b, m) ==
    /\ pc[b] = "cleaned" /\ m \in todo[b]
    /\ dated' = IF Served = None THEN dated ELSE WithPlan(Served, m)
    /\ todo' = [todo EXCEPT ![b] = @ \ {m}]
    /\ missed' = missed \ {m}
    /\ UNCHANGED <<sapVars, run, next, work, undated, lock, pc, job, mine, source, known, refresh, faults>>

\* The listing fails, or the refresh of some materials does: logged, and over.
CatchUpFails(b) ==
    /\ pc[b] = "cleaned" /\ faults < MaxFaults
    /\ faults' = faults + 1
    /\ \E ms \in SUBSET todo[b] \ {{}} :
          /\ todo' = [todo EXCEPT ![b] = @ \ ms]
          /\ missed' = missed \cup ms
    /\ UNCHANGED <<sapVars, storeVars, lock, pc, job, mine, source, known, refresh>>

LetGo(b) == lock' = IF lock = b THEN None ELSE lock

Exit(b) ==
    /\ pc[b] = "cleaned" /\ todo[b] = {}
    /\ pc' = [pc EXCEPT ![b] = "idle"]
    /\ LetGo(b)
    /\ UNCHANGED <<sapVars, storeVars, job, mine, source, todo, known, refresh, missed, faults>>

----------------------------------------------------------------------------
(* What goes wrong. *)

\* What an open transaction of b had copied is rolled back.
RolledBack(b) == IF pc[b] = "copying" THEN Dropped({mine[b]}) ELSE UNCHANGED work

\* The build raises: the row is marked failed and committed first ...
Raises(b) ==
    /\ run' = [run EXCEPT ![mine[b]].status = "failed"]
    /\ RolledBack(b)
    /\ pc' = [pc EXCEPT ![b] = "failed"]
    /\ UNCHANGED <<sapVars, next, dated, undated, lock, job, mine, source, todo, known, refresh, missed>>

Fail(b) ==
    /\ pc[b] \in {"copying", "building", "copied"} /\ faults < MaxFaults
    /\ faults' = faults + 1
    /\ Raises(b)

\* ... as it also does when the working copies a batch reads are gone ...
CopiesGone(b) ==
    /\ pc[b] = "building" /\ todo[b] # {} /\ ~Copied(b)
    /\ Raises(b)
    /\ UNCHANGED faults

\* ... then what it wrote is removed; a re-age leaves its source's copies alone.
ClearFailed(b) ==
    /\ pc[b] = "failed"
    /\ Cleared({mine[b]})
    /\ IF job[b] = "build" THEN Dropped({mine[b]}) ELSE UNCHANGED work
    /\ todo' = [todo EXCEPT ![b] = {}]
    /\ pc' = [pc EXCEPT ![b] = "idle"]
    /\ LetGo(b)
    /\ UNCHANGED <<sapVars, run, next, job, mine, source, known, refresh, missed, faults>>

\* What a process that has swapped has still to catch up with.
ToCome(b) ==
    {k \in Materials : \/ pc[b] = "swapped" /\ k \in ToCatchUp(b)
                       \/ pc[b] = "cleaned" /\ k \in todo[b]}

\* The process is killed: its run row stays "building", its session's lock goes,
\* and what it had to catch up with nobody else will.
Kill(b) ==
    /\ pc[b] # "idle" /\ faults < MaxFaults
    /\ faults' = faults + 1
    /\ RolledBack(b)
    /\ pc' = [pc EXCEPT ![b] = "idle"]
    /\ todo' = [todo EXCEPT ![b] = {}]
    /\ LetGo(b)
    /\ missed' = missed \cup ToCome(b)
    /\ UNCHANGED <<sapVars, run, next, dated, undated, job, mine, source, known, refresh>>

\* The connection that holds the lock drops, and the build does not notice.
LoseLock ==
    /\ LockLoss /\ lock # None /\ faults < MaxFaults
    /\ lock' = None
    /\ faults' = faults + 1
    /\ UNCHANGED <<sapVars, storeVars, pc, job, mine, source, todo, known, refresh, missed>>

\* Mutant: a starting API clears unfinished builds without asking for the lock.
StartUpUnguarded ==
    LET unfinished == {v \in Versions : run[v].status = "building"}
    IN  /\ unfinished # {}
        /\ run' = [v \in Versions |-> IF v \in unfinished THEN [run[v] EXCEPT !.status = "failed"] ELSE run[v]]
        /\ Cleared(unfinished)
        /\ DroppedExcept(Ready)
        /\ UNCHANGED <<sapVars, next, procVars, refresh, missed, faults>>

\* start_up: with the lock to itself, a starting API marks every unfinished
\* build failed, clears it, and drops all working copies no ready version has.
StartUp ==
    LET unfinished == {v \in Versions : run[v].status = "building"}
    IN  /\ lock = None
        /\ run' = [v \in Versions |-> IF v \in unfinished THEN [run[v] EXCEPT !.status = "failed"] ELSE run[v]]
        /\ Cleared(unfinished)
        /\ DroppedExcept(Ready)
        /\ UNCHANGED <<sapVars, next, procVars, refresh, missed, faults>>

BuildStep(b) ==
    \/ Decline(b) \/ Start(b) \/ CopyKinds(b) \/ Swap(b) \/ Cleanup(b) \/ Exit(b)
    \/ CopiesGone(b) \/ ClearFailed(b)
    \/ \E t \in Tables : CopyTable(b, t)
    \/ \E m \in Materials : BuildBatch(b, m) \/ CatchUp(b, m)

Next ==
    \/ Midnight \/ StartUp \/ LoseLock
    \/ \E t \in Tables : LoadRows(t) \/ RecordLoad(t)
    \/ \E m \in Materials : \/ Draft(m) \/ Capture(m) \/ PostPlan(m)
                           \/ Resolve(m) \/ RefreshMaterial(m) \/ RefreshFails(m)
    \/ \E b \in Procs : (\E j \in Jobs : Launch(b, j)) \/ BuildStep(b) \/ Fail(b) \/ CatchUpFails(b) \/ Kill(b)

Spec == Init /\ [][Next]_vars

\* The watchers go on checking, and a launched process goes on running.
FairSpec ==
    /\ Spec
    /\ WF_vars(\E b \in Procs, j \in Jobs : Launch(b, j))
    /\ \A b \in Procs : WF_vars(BuildStep(b))

----------------------------------------------------------------------------
(* Properties. *)

\* "A version becomes the served one only after its last batch has landed"
\* (builder.py), and nothing takes its records or working copies from it after.
ServedWhole ==
    Served # None =>
        /\ \A m \in Materials : dated[Served][m] # None /\ dated[Served][m].day = run[Served].day
        /\ undated[Served] = Materials
        /\ \A t \in Tables : work[Served][t] # None

\* Two builds that run side by side, the lock of one lost, never leave two
\* versions ready.
OneReady == \A u, v \in Ready : u = v

\* A served version whose fingerprint is the current one was computed from the
\* rows the raw tables hold: an equal fingerprint never hides a stale snapshot.
Fresh ==
    Served # None /\ raw = loaded /\ run[Served].seen = loaded => work[Served] = raw

\* Something served goes on being served, and never gets older: neither the day
\* nor any table's data goes back.
NeverBack ==
    [][Served # None =>
         /\ Served' # None
         /\ run'[Served'].day >= run[Served].day
         /\ \A t \in Tables : run'[Served'].seen[t] >= run[Served].seen[t]]_vars

\* The inductive strengthening of the safety properties, part by part, where the
\* lock is never lost.

\* A process that has started holds the lock, so there is one at most.
Active(b) == pc[b] \in {"copying", "building", "copied", "swapped", "cleaned", "failed"}
LockHeld == \A b \in Procs : Active(b) => lock = b

\* Versions are handed out once.
NewVersions ==
    \A v \in Versions : v >= next => run[v].status = "none" /\ \A t \in Tables : work[v][t] = None

\* Loads are recorded after they are made.
Recorded == \A t \in Tables : loaded[t] <= raw[t]

RecordOf(v, m) == dated[v][m] # None /\ dated[v][m].day = run[v].day
CopyOf(v, t) == work[v][t] # None /\ run[v].seen[t] <= work[v][t] /\ work[v][t] <= raw[t]

\* A ready version is whole, and no newer than today and the recorded loads.
ReadyWhole ==
    \A v \in Ready :
        /\ \A m \in Materials : RecordOf(v, m)
        /\ undated[v] = Materials
        /\ \A t \in Tables : CopyOf(v, t)
        /\ run[v].day <= today
        /\ \A t \in Tables : run[v].seen[t] <= loaded[t]

\* What a version under way has, and it is not older than the one it replaces.
Underway ==
    \A b \in Procs : pc[b] \in {"copying", "building", "copied"} =>
        /\ run[mine[b]].status = "building"
        /\ \A m \in Materials \ todo[b] : RecordOf(mine[b], m)
        /\ run[mine[b]].day <= today
        /\ \A t \in Tables : run[mine[b]].seen[t] <= loaded[t]
        /\ \A v \in Ready :
              /\ run[v].day <= run[mine[b]].day
              /\ \A t \in Tables : run[v].seen[t] <= run[mine[b]].seen[t]

\* What each phase has behind it.
Phases ==
    \A b \in Procs :
        /\ pc[b] = "copying" =>
              /\ job[b] = "build" /\ todo[b] = Materials
              /\ \A t \in Tables : work[mine[b]][t] # None => CopyOf(mine[b], t)
        /\ pc[b] = "building" /\ job[b] = "build" =>
              /\ \A t \in Tables : CopyOf(mine[b], t)
              /\ Materials \ todo[b] \subseteq undated[mine[b]]
        /\ pc[b] \in {"building", "copied"} /\ job[b] = "reage" =>
              /\ source[b] \in Ready /\ run[mine[b]].seen = run[source[b]].seen
        /\ pc[b] = "copied" => job[b] = "reage" /\ todo[b] = {} /\ undated[mine[b]] = Materials
        /\ pc[b] \in {"swapped", "cleaned"} => run[mine[b]].status = "ready"
        /\ pc[b] = "failed" => run[mine[b]].status = "failed"

IInv ==
    /\ TypeOK /\ OneReady /\ LockHeld /\ NewVersions /\ Recorded
    /\ ReadyWhole /\ Underway /\ Phases

\* Nothing runs, no refresh is under way, and something is served.
Quiet ==
    /\ \A b \in Procs : pc[b] = "idle"
    /\ \A m \in Materials : refresh[m] = None
    /\ Served # None

\* When nothing is running, every captured plan is in the WATCH row served for
\* its material, whatever was captured, refreshed, built, re-aged and killed
\* meanwhile, but for those missed: posted directly, a refresh or a catch-up that
\* failed, a process killed before it had caught up, or a swap that came after the
\* plan's refresh, in a build or for a plan stamped before the re-age began.
PlansServed == Quiet => \A m \in captured \ missed : HasPlan(Served, m)

\* What apply_capture's description says, with no exception: "the I13 snapshot's
\* row is recomputed with the new plan" (downstream.py).  The code breaks it.
CapturesKept == Quiet => \A m \in captured : HasPlan(Served, m)

\* Once loads and failures stop, the served version is of the last recorded data
\* and of today, and stays so.
UpToDate == <>[](Served # None /\ run[Served].seen = loaded /\ run[Served].day = today)
=============================================================================
