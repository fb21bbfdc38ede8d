--------------------------- MODULE I13Store_proofs ---------------------------
(* Proofs about I13Store: types, one ready version whatever happens to the   *)
(* lock, and, while the lock is never lost, a served version that is whole,  *)
(* computed from the data it names, and never older than the one before.     *)
EXTENDS I13Store, TLAPS

\* The row of a build run.
Row == [status : {"none", "building", "ready", "failed", "superseded"}, seen : [Tables -> Copies], day : Days]

\* A row with another status is a row still.
LEMMA RowStatus ==
    ASSUME NEW r \in Row, NEW st \in {"none", "building", "ready", "failed", "superseded"}
    PROVE  /\ [r EXCEPT !.status = st] \in Row
           /\ [r EXCEPT !.status = st].status = st
           /\ [r EXCEPT !.status = st].seen = r.seen
           /\ [r EXCEPT !.status = st].day = r.day
BY DEF Row

\* The served version is a ready one, and the only one if there is only one.
LEMMA ServedReady ==
    ASSUME OneReady
    PROVE  /\ Served # None => Served \in Ready
           /\ \A v \in Ready : Served = v /\ Served # None
<1>1. CASE Ready = {}
  BY <1>1 DEF Served
<1>2. CASE Ready # {}
  <2>1. PICK v \in Ready : TRUE
    BY <1>2
  <2>2. v \in Versions /\ v \in Nat
    BY <2>1 DEF Ready, Versions
  <2>3. \A u \in Ready : u = v
    BY <2>1 DEF OneReady
  <2>4. Served = v
    <3>1. \E x \in Ready : \A u \in Ready : u <= x
      BY <2>1, <2>2, <2>3
    <3>2. Served = CHOOSE x \in Ready : \A u \in Ready : u <= x
      BY <1>2 DEF Served
    <3> QED
      BY <2>3, <3>1, <3>2
  <2> QED
    BY <2>1, <2>2, <2>3, <2>4, StoreAssumption
<1> QED
  BY <1>1, <1>2

\* The types, part by part, each about variables that change together.
SapTypes ==
    /\ raw \in [Tables -> Copies] /\ loaded \in [Tables -> Copies] /\ today \in Days
    /\ drafted \in SUBSET Materials /\ captured \in SUBSET Materials
RunTypes == run \in [Versions -> Row] /\ next \in 1..(MaxVersion + 1)
DataTypes ==
    /\ work \in [Versions -> [Tables -> Copies \cup {None}]]
    /\ dated \in [Versions -> [Materials -> Record \cup {None}]]
    /\ undated \in [Versions -> SUBSET Materials]
ProcTypes ==
    /\ lock \in Procs \cup {None}
    /\ pc \in [Procs -> {"idle", "launched", "copying", "building", "copied", "swapped", "cleaned", "failed"}]
    /\ job \in [Procs -> Jobs] /\ mine \in [Procs -> Versions] /\ source \in [Procs -> Versions]
    /\ todo \in [Procs -> SUBSET Materials]
    /\ known \in [Procs -> [stamped : SUBSET Materials, committed : SUBSET Materials]]
OtherTypes ==
    /\ refresh \in [Materials -> Versions \cup {Due, None}] /\ missed \in SUBSET Materials
    /\ faults \in 0..MaxFaults

LEMMA Types == TypeOK <=> SapTypes /\ RunTypes /\ DataTypes /\ ProcTypes /\ OtherTypes
BY DEF TypeOK, SapTypes, RunTypes, DataTypes, ProcTypes, OtherTypes, Row

LEMMA InitStore == Init => TypeOK /\ OneReady
<1> SUFFICES ASSUME Init PROVE TypeOK /\ OneReady
    OBVIOUS
<1>1. SapTypes
  BY StoreAssumption DEF Init, SapTypes, Copies, Days
<1>2. NoRun \in Row /\ NoRun.status = "none"
  BY StoreAssumption DEF NoRun, Row, Copies, Days
<1>3. [NoRun EXCEPT !.status = "ready"] \in Row
  BY <1>2, RowStatus
<1>4. RunTypes
  BY <1>2, <1>3, StoreAssumption DEF Init, RunTypes, Versions
<1>5. [day |-> 0, plan |-> FALSE] \in Record
  BY StoreAssumption DEF Record, Days
<1>6. DataTypes
  BY <1>5, StoreAssumption DEF Init, DataTypes, Copies
<1>7. ProcTypes /\ OtherTypes
  BY StoreAssumption DEF Init, ProcTypes, OtherTypes, Jobs, Versions
<1>8. OneReady
  BY <1>2 DEF Init, OneReady, Ready
<1> QED
  BY <1>1, <1>4, <1>6, <1>7, <1>8, Types

\* A copy of the working tables of any set of versions dropped, or records of any
\* set of versions cleared, is of the same types.
LEMMA ClearedTypes ==
    ASSUME DataTypes, NEW vs, Cleared(vs)
    PROVE  /\ dated' \in [Versions -> [Materials -> Record \cup {None}]]
           /\ undated' \in [Versions -> SUBSET Materials]
BY DEF DataTypes, Cleared

LEMMA DroppedTypes ==
    ASSUME DataTypes, NEW vs, Dropped(vs)
    PROVE  work' \in [Versions -> [Tables -> Copies \cup {None}]]
BY DEF DataTypes, Dropped

LEMMA RolledBackTypes ==
    ASSUME DataTypes, NEW b \in Procs, RolledBack(b)
    PROVE  work' \in [Versions -> [Tables -> Copies \cup {None}]]
BY DroppedTypes DEF RolledBack, DataTypes

LEMMA PlanTypes ==
    ASSUME RunTypes, DataTypes, NEW v \in Versions, NEW m \in Materials
    PROVE  WithPlan(v, m) \in [Versions -> [Materials -> Record \cup {None}]]
<1>1. run[v].day \in Days
  BY DEF RunTypes, Row
<1>2. [day |-> run[v].day, plan |-> TRUE] \in Record
  BY <1>1 DEF Record
<1> QED
  BY <1>2 DEF WithPlan, DataTypes

\* The rows after a switch, a failure or a start-up, and the ready ones among them.
LEMMA SwitchRows ==
    ASSUME RunTypes, ProcTypes, NEW b \in Procs, Switch(b)
    PROVE  run' \in [Versions -> Row] /\ Ready' = {mine[b]}
<1>1. \A v \in Versions :
         /\ run'[v] \in Row
         /\ run'[v].status = "ready" <=> v = mine[b]
  <2> SUFFICES ASSUME NEW v \in Versions
               PROVE  run'[v] \in Row /\ (run'[v].status = "ready" <=> v = mine[b])
      OBVIOUS
  <2>1. run[v] \in Row
    BY DEF RunTypes
  <2>2. CASE v = mine[b]
    BY <2>1, <2>2, RowStatus DEF Switch
  <2>3. CASE v # mine[b] /\ run[v].status = "ready"
    BY <2>1, <2>3, RowStatus DEF Switch
  <2>4. CASE v # mine[b] /\ run[v].status # "ready"
    BY <2>1, <2>4 DEF Switch
  <2> QED
    BY <2>2, <2>3, <2>4
<1>2. mine[b] \in Versions
  BY DEF ProcTypes
<1> QED
  BY <1>1, <1>2 DEF Switch, Ready

LEMMA RaisesRows ==
    ASSUME RunTypes, ProcTypes, NEW b \in Procs, Raises(b)
    PROVE  /\ run' \in [Versions -> Row]
           /\ run'[mine[b]].status = "failed"
           /\ \A v \in Versions : v # mine[b] => run'[v] = run[v]
           /\ Ready' = Ready \ {mine[b]}
<1>1. mine[b] \in Versions /\ run[mine[b]] \in Row
  BY DEF RunTypes, ProcTypes
<1>2. run' = [run EXCEPT ![mine[b]] = [run[mine[b]] EXCEPT !.status = "failed"]]
  BY DEF Raises
<1>3. /\ run' \in [Versions -> Row]
      /\ run'[mine[b]].status = "failed"
      /\ \A v \in Versions : v # mine[b] => run'[v] = run[v]
  <2> DEFINE r == [run[mine[b]] EXCEPT !.status = "failed"]
  <2>1. r \in Row /\ r.status = "failed"
    BY <1>1, RowStatus
  <2>2. run' = [run EXCEPT ![mine[b]] = r]
    BY <1>2
  <2> HIDE DEF r
  <2> QED
    BY <1>1, <2>1, <2>2 DEF RunTypes
<1> QED
  BY <1>1, <1>3 DEF Ready

LEMMA StartUpRows ==
    ASSUME RunTypes, StartUp
    PROVE  /\ run' \in [Versions -> Row]
           /\ Ready' = Ready
           /\ \A v \in Versions : run[v].status # "building" => run'[v] = run[v]
<1>1. \A v \in Versions :
         /\ run'[v] \in Row
         /\ run[v].status = "building" => run'[v].status = "failed"
         /\ run[v].status # "building" => run'[v] = run[v]
  <2> SUFFICES ASSUME NEW v \in Versions
               PROVE  /\ run'[v] \in Row
                      /\ run[v].status = "building" => run'[v].status = "failed"
                      /\ run[v].status # "building" => run'[v] = run[v]
      OBVIOUS
  <2>1. run[v] \in Row
    BY DEF RunTypes
  <2>2. CASE run[v].status = "building"
    BY <2>1, <2>2, RowStatus DEF StartUp
  <2>3. CASE run[v].status # "building"
    BY <2>1, <2>3 DEF StartUp
  <2> QED
    BY <2>2, <2>3
<1>2. run' \in [Versions -> Row]
  BY <1>1 DEF StartUp
<1>3. Ready' = Ready
  BY <1>1 DEF Ready
<1> QED
  BY <1>1, <1>2, <1>3

\* A process that starts writes the row of the next version, and of no other.
LEMMA StartRows ==
    ASSUME TypeOK, OneReady, NEW b \in Procs, Start(b)
    PROVE  /\ next \in Versions /\ next' = next + 1
           /\ run' \in [Versions -> Row]
           /\ run'[next].status = "building" /\ run'[next].day = today
           /\ run'[next].seen = IF job[b] = "reage" THEN run[Served].seen ELSE loaded
           /\ \A v \in Versions : v # next => run'[v] = run[v]
           /\ Ready' = Ready \ {next}
           /\ job[b] = "reage" => Served \in Ready
<1>1. next \in Versions /\ next' = next + 1
  BY DEF Start, Versions, TypeOK
<1>2. job[b] = "reage" => Served \in Ready
  BY ServedReady DEF Start, Declines
<1> DEFINE seen == IF job[b] = "reage" THEN run[Served].seen ELSE loaded
           row == [status |-> "building", day |-> today, seen |-> seen]
<1>3. seen \in [Tables -> Copies]
  BY <1>2 DEF TypeOK, Ready
<1>4. row \in Row /\ row.status = "building" /\ row.day = today /\ row.seen = seen
  BY <1>3 DEF Row, TypeOK
<1>5. run' = [run EXCEPT ![next] = row]
  BY DEF Start, ReferenceDate
<1>6. run \in [Versions -> Row]
  BY Types DEF RunTypes
<1> HIDE DEF row
<1>7. /\ run' \in [Versions -> Row] /\ run'[next] = row
      /\ \A v \in Versions : v # next => run'[v] = run[v]
  BY <1>1, <1>4, <1>5, <1>6
<1>8. Ready' = Ready \ {next}
  BY <1>1, <1>4, <1>7 DEF Ready
<1> QED
  BY <1>1, <1>2, <1>4, <1>7, <1>8

\* Every step keeps the types and leaves at most one version ready.
LEMMA StoreTypeStep == TypeOK /\ OneReady /\ [Next]_vars => TypeOK' /\ OneReady'
<1> SUFFICES ASSUME TypeOK, OneReady, [Next]_vars PROVE TypeOK' /\ OneReady'
    OBVIOUS
<1>a. SapTypes /\ RunTypes /\ DataTypes /\ ProcTypes /\ OtherTypes
  BY Types
<1>b. SapTypes' /\ RunTypes' /\ DataTypes' /\ ProcTypes' /\ OtherTypes' => TypeOK'
  BY DEF TypeOK, SapTypes, RunTypes, DataTypes, ProcTypes, OtherTypes, Row
<1>c. Ready' \subseteq Ready => OneReady'
  BY DEF OneReady
<1>d. UNCHANGED run => Ready' = Ready
  BY DEF Ready
<1>e. UNCHANGED storeVars => RunTypes' /\ DataTypes' /\ OneReady'
  BY <1>a, <1>c, <1>d DEF storeVars, RunTypes, DataTypes
<1>f. UNCHANGED procVars => ProcTypes'
  BY <1>a DEF procVars, ProcTypes
<1>g. UNCHANGED sapVars => SapTypes'
  BY <1>a DEF sapVars, SapTypes
<1>h. UNCHANGED <<refresh, missed, faults>> => OtherTypes'
  BY <1>a DEF OtherTypes
<1>1. ASSUME NEW t \in Tables, LoadRows(t) \/ RecordLoad(t) PROVE TypeOK' /\ OneReady'
  <2>1. SapTypes'
    BY <1>1, <1>a, StoreAssumption DEF LoadRows, RecordLoad, SapTypes, Copies
  <2> QED
    BY <1>1, <2>1, <1>b, <1>e, <1>f, <1>h DEF LoadRows, RecordLoad
<1>2. CASE Midnight
  <2>1. SapTypes'
    BY <1>2, <1>a, StoreAssumption DEF Midnight, SapTypes, Days
  <2> QED
    BY <1>2, <2>1, <1>b, <1>e, <1>f, <1>h DEF Midnight
<1>3. ASSUME NEW m \in Materials, Draft(m) \/ Capture(m) \/ PostPlan(m) PROVE TypeOK' /\ OneReady'
  <2>1. SapTypes' /\ OtherTypes'
    BY <1>3, <1>a DEF Draft, Capture, PostPlan, SapTypes, OtherTypes
  <2> QED
    BY <1>3, <2>1, <1>b, <1>e, <1>f DEF Draft, Capture, PostPlan
<1>4. ASSUME NEW m \in Materials, Resolve(m) PROVE TypeOK' /\ OneReady'
  <2>1. Served \in Versions \cup {None}
    BY ServedReady DEF Ready
  <2>2. OtherTypes'
    BY <1>4, <2>1, <1>a DEF Resolve, OtherTypes
  <2> QED
    BY <1>4, <2>2, <1>b, <1>e, <1>f, <1>g DEF Resolve
<1>5. ASSUME NEW m \in Materials, RefreshMaterial(m) PROVE TypeOK' /\ OneReady'
  <2>1. DataTypes'
    BY <1>5, <1>a, PlanTypes DEF RefreshMaterial, DataTypes
  <2>2. OtherTypes'
    BY <1>5, <1>a DEF RefreshMaterial, OtherTypes
  <2>3. RunTypes' /\ OneReady'
    BY <1>5, <1>a, <1>c, <1>d DEF RefreshMaterial, RunTypes
  <2> QED
    BY <1>5, <2>1, <2>2, <2>3, <1>b, <1>f, <1>g DEF RefreshMaterial
<1>22. ASSUME NEW m \in Materials, RefreshFails(m) PROVE TypeOK' /\ OneReady'
  <2>1. OtherTypes'
    BY <1>22, <1>a, StoreAssumption DEF RefreshFails, OtherTypes
  <2> QED
    BY <1>22, <2>1, <1>b, <1>e, <1>f, <1>g DEF RefreshFails
<1>6. ASSUME NEW b \in Procs, NEW j \in Jobs, Launch(b, j) PROVE TypeOK' /\ OneReady'
  <2>1. ProcTypes'
    BY <1>6, <1>a DEF Launch, ProcTypes
  <2> QED
    BY <1>6, <2>1, <1>b, <1>e, <1>g, <1>h DEF Launch
<1>7. ASSUME NEW b \in Procs, Decline(b) \/ Exit(b) PROVE TypeOK' /\ OneReady'
  <2>1. ProcTypes'
    BY <1>7, <1>a DEF Decline, Exit, LetGo, ProcTypes
  <2> QED
    BY <1>7, <2>1, <1>b, <1>e, <1>g, <1>h DEF Decline, Exit
<1>8. ASSUME NEW b \in Procs, Start(b) PROVE TypeOK' /\ OneReady'
  <2>1. /\ next \in Versions /\ next' = next + 1 /\ run' \in [Versions -> Row]
        /\ Ready' = Ready \ {next}
        /\ job[b] = "reage" => Served \in Ready
    BY <1>8, StartRows
  <2>2. RunTypes' /\ OneReady'
    BY <2>1, <1>c, StoreAssumption DEF RunTypes, Versions
  <2>3. ProcTypes'
    <3>1. source' \in [Procs -> Versions]
      BY <1>8, <1>a, <2>1 DEF Start, ProcTypes, Ready
    <3>2. /\ todo' \in [Procs -> SUBSET Materials]
          /\ known' \in [Procs -> [stamped : SUBSET Materials, committed : SUBSET Materials]]
      BY <1>8, <1>a DEF Start, ProcTypes, SapTypes
    <3> QED
      BY <1>8, <1>a, <2>1, <3>1, <3>2 DEF Start, ProcTypes
  <2>4. DataTypes'
    BY <1>8, <1>a DEF Start, DataTypes
  <2> QED
    BY <1>8, <2>2, <2>3, <2>4, <1>b, <1>g, <1>h DEF Start
<1>9. ASSUME NEW b \in Procs, NEW t \in Tables, CopyTable(b, t) PROVE TypeOK' /\ OneReady'
  <2>1. DataTypes'
    BY <1>9, <1>a DEF CopyTable, DataTypes, SapTypes, ProcTypes
  <2>2. ProcTypes'
    BY <1>9, <1>a DEF CopyTable, ProcTypes
  <2>3. RunTypes' /\ OneReady'
    BY <1>9, <1>a, <1>c, <1>d DEF CopyTable, RunTypes
  <2> QED
    BY <1>9, <2>1, <2>2, <2>3, <1>b, <1>g, <1>h DEF CopyTable
<1>10. ASSUME NEW b \in Procs, NEW m \in Materials, BuildBatch(b, m) PROVE TypeOK' /\ OneReady'
  <2>1. [day |-> run[mine[b]].day, plan |-> m \in captured] \in Record
    BY <1>a DEF RunTypes, ProcTypes, Row, Record
  <2>2. dated' \in [Versions -> [Materials -> Record \cup {None}]]
    BY <1>10, <1>a, <2>1 DEF BuildBatch, DataTypes, ProcTypes
  <2>3. undated' \in [Versions -> SUBSET Materials]
    BY <1>10, <1>a DEF BuildBatch, DataTypes, ProcTypes
  <2>4. DataTypes'
    BY <1>10, <1>a, <2>2, <2>3 DEF BuildBatch, DataTypes
  <2>5. ProcTypes'
    BY <1>10, <1>a DEF BuildBatch, ProcTypes
  <2>6. RunTypes' /\ OneReady'
    BY <1>10, <1>a, <1>c, <1>d DEF BuildBatch, RunTypes
  <2> QED
    BY <1>10, <2>4, <2>5, <2>6, <1>b, <1>g, <1>h DEF BuildBatch
<1>11. ASSUME NEW b \in Procs, CopyKinds(b) PROVE TypeOK' /\ OneReady'
  <2>1. DataTypes' /\ ProcTypes'
    BY <1>11, <1>a DEF CopyKinds, DataTypes, ProcTypes
  <2>2. RunTypes' /\ OneReady'
    BY <1>11, <1>a, <1>c, <1>d DEF CopyKinds, RunTypes
  <2> QED
    BY <1>11, <2>1, <2>2, <1>b, <1>g, <1>h DEF CopyKinds
<1>12. ASSUME NEW b \in Procs, Swap(b) PROVE TypeOK' /\ OneReady'
  <2>1. run' \in [Versions -> Row] /\ Ready' = {mine[b]}
    BY <1>12, <1>a, SwitchRows DEF Swap
  <2>2. RunTypes' /\ OneReady'
    BY <1>12, <1>a, <2>1 DEF Swap, RunTypes, OneReady
  <2>3. work' \in [Versions -> [Tables -> Copies \cup {None}]]
    BY <1>12, <1>a DEF Swap, DataTypes, ProcTypes
  <2>4. DataTypes' /\ ProcTypes'
    BY <1>12, <1>a, <2>3 DEF Swap, DataTypes, ProcTypes
  <2>5. OtherTypes'
    BY <1>12, <1>a DEF Swap, LeftOut, OtherTypes, SapTypes
  <2> QED
    BY <1>12, <2>2, <2>4, <2>5, <1>b, <1>g DEF Swap
<1>13. ASSUME NEW b \in Procs, Cleanup(b) PROVE TypeOK' /\ OneReady'
  <2>1. DataTypes'
    BY <1>13, <1>a, ClearedTypes, DroppedTypes DEF Cleanup, DroppedExcept, DataTypes
  <2>2. ProcTypes'
    BY <1>13, <1>a DEF Cleanup, ToCatchUp, ProcTypes, SapTypes
  <2>3. RunTypes' /\ OneReady'
    BY <1>13, <1>a, <1>c, <1>d DEF Cleanup, RunTypes
  <2> QED
    BY <1>13, <2>1, <2>2, <2>3, <1>b, <1>g, <1>h DEF Cleanup
<1>14. ASSUME NEW b \in Procs, NEW m \in Materials, CatchUp(b, m) PROVE TypeOK' /\ OneReady'
  <2>1. Served \in Versions \cup {None}
    BY ServedReady DEF Ready
  <2>2. DataTypes'
    BY <1>14, <1>a, <2>1, PlanTypes DEF CatchUp, DataTypes
  <2>3. ProcTypes'
    BY <1>14, <1>a DEF CatchUp, ProcTypes
  <2>4. RunTypes' /\ OneReady'
    BY <1>14, <1>a, <1>c, <1>d DEF CatchUp, RunTypes
  <2>5. OtherTypes'
    BY <1>14, <1>a DEF CatchUp, OtherTypes
  <2> QED
    BY <1>14, <2>2, <2>3, <2>4, <2>5, <1>b, <1>g DEF CatchUp
<1>23. ASSUME NEW b \in Procs, CatchUpFails(b) PROVE TypeOK' /\ OneReady'
  <2>1. ProcTypes' /\ OtherTypes'
    BY <1>23, <1>a, StoreAssumption DEF CatchUpFails, ProcTypes, OtherTypes
  <2> QED
    BY <1>23, <2>1, <1>b, <1>e, <1>g DEF CatchUpFails
<1>15. ASSUME NEW b \in Procs, Raises(b), OtherTypes' PROVE TypeOK' /\ OneReady'
  <2>1. run' \in [Versions -> Row] /\ Ready' \subseteq Ready
    BY <1>15, <1>a, RaisesRows
  <2>2. RunTypes' /\ OneReady'
    BY <1>15, <1>a, <2>1, <1>c DEF Raises, RunTypes
  <2>3. DataTypes' /\ ProcTypes'
    BY <1>15, <1>a, RolledBackTypes DEF Raises, DataTypes, ProcTypes
  <2> QED
    BY <1>15, <2>2, <2>3, <1>b, <1>g DEF Raises
<1>16. ASSUME NEW b \in Procs, Fail(b) \/ CopiesGone(b) PROVE TypeOK' /\ OneReady'
  <2>1. OtherTypes'
    BY <1>16, <1>a, StoreAssumption DEF Fail, CopiesGone, Raises, OtherTypes
  <2> QED
    BY <1>16, <2>1, <1>15 DEF Fail, CopiesGone
<1>17. ASSUME NEW b \in Procs, ClearFailed(b) PROVE TypeOK' /\ OneReady'
  <2>1. DataTypes'
    BY <1>17, <1>a, ClearedTypes, DroppedTypes DEF ClearFailed, DataTypes
  <2>2. ProcTypes'
    BY <1>17, <1>a DEF ClearFailed, LetGo, ProcTypes
  <2>3. RunTypes' /\ OneReady'
    BY <1>17, <1>a, <1>c, <1>d DEF ClearFailed, RunTypes
  <2> QED
    BY <1>17, <2>1, <2>2, <2>3, <1>b, <1>g, <1>h DEF ClearFailed
<1>18. ASSUME NEW b \in Procs, Kill(b) PROVE TypeOK' /\ OneReady'
  <2>1. DataTypes'
    BY <1>18, <1>a, RolledBackTypes DEF Kill, DataTypes
  <2>2. ProcTypes' /\ OtherTypes'
    BY <1>18, <1>a, StoreAssumption DEF Kill, LetGo, ToCome, ProcTypes, OtherTypes
  <2>3. RunTypes' /\ OneReady'
    BY <1>18, <1>a, <1>c, <1>d DEF Kill, RunTypes
  <2> QED
    BY <1>18, <2>1, <2>2, <2>3, <1>b, <1>g DEF Kill
<1>19. CASE LoseLock
  <2>1. ProcTypes' /\ OtherTypes'
    BY <1>19, <1>a, StoreAssumption DEF LoseLock, ProcTypes, OtherTypes
  <2> QED
    BY <1>19, <2>1, <1>b, <1>e, <1>g DEF LoseLock
<1>20. CASE StartUp
  <2>1. run' \in [Versions -> Row] /\ Ready' = Ready
    BY <1>20, <1>a, StartUpRows
  <2>2. RunTypes' /\ OneReady'
    BY <1>20, <1>a, <2>1, <1>c DEF StartUp, RunTypes
  <2>3. DataTypes'
    BY <1>20, <1>a, ClearedTypes, DroppedTypes DEF StartUp, DroppedExcept, DataTypes
  <2> QED
    BY <1>20, <2>2, <2>3, <1>b, <1>f, <1>g, <1>h DEF StartUp
<1>21. CASE UNCHANGED vars
  BY <1>21, <1>b, <1>e, <1>f, <1>g, <1>h DEF vars
<1> QED
  BY <1>1, <1>2, <1>3, <1>4, <1>5, <1>6, <1>7, <1>8, <1>9, <1>10, <1>11, <1>12, <1>13, <1>14,
     <1>16, <1>17, <1>18, <1>19, <1>20, <1>21, <1>22, <1>23 DEF Next, BuildStep

\* Versions, rows, records, working copies and what every build holds keep their
\* types, whatever fails and whatever becomes of the lock; above all, no step
\* names a version or a source that is not one.
THEOREM StoreTypeCorrect == Spec => []TypeOK
<1>1. Spec => [](TypeOK /\ OneReady)
  BY InitStore, StoreTypeStep, PTL DEF Spec
<1> QED
  BY <1>1, PTL

\* Two versions are never ready together, whatever becomes of the lock: each swap
\* retires, in one transaction, whichever version is ready then (builder.py).
THEOREM OneReadyHolds == Spec => []OneReady
<1>1. Spec => [](TypeOK /\ OneReady)
  BY InitStore, StoreTypeStep, PTL DEF Spec
<1> QED
  BY <1>1, PTL

----------------------------------------------------------------------------
(* While the lock is never lost: the inductive invariant.                    *)

\* What IInv says of one version, and of one process.
Whole(v) ==
    /\ \A m \in Materials : RecordOf(v, m)
    /\ undated[v] = Materials
    /\ \A t \in Tables : CopyOf(v, t)
    /\ run[v].day <= today
    /\ \A t \in Tables : run[v].seen[t] <= loaded[t]

UnderwayOf(b) ==
    /\ run[mine[b]].status = "building"
    /\ \A m \in Materials \ todo[b] : RecordOf(mine[b], m)
    /\ run[mine[b]].day <= today
    /\ \A t \in Tables : run[mine[b]].seen[t] <= loaded[t]
    /\ \A v \in Ready :
          /\ run[v].day <= run[mine[b]].day
          /\ \A t \in Tables : run[v].seen[t] <= run[mine[b]].seen[t]

PhaseOf(b) ==
    /\ pc[b] = "copying" =>
          /\ job[b] = "build" /\ todo[b] = Materials
          /\ \A t \in Tables : work[mine[b]][t] # None => CopyOf(mine[b], t)
    /\ pc[b] = "building" /\ job[b] = "build" =>
          /\ \A t \in Tables : CopyOf(mine[b], t)
          /\ Materials \ todo[b] \subseteq undated[mine[b]]
    /\ pc[b] \in {"building", "copied"} /\ job[b] = "reage" =>
          /\ source[b] \in Ready /\ run[mine[b]].seen = run[source[b]].seen
    /\ pc[b] = "copied" => job[b] = "reage" /\ todo[b] = {} /\ undated[mine[b]] = Materials
    /\ pc[b] \in {"swapped", "cleaned"} => run[mine[b]].status = "ready"
    /\ pc[b] = "failed" => run[mine[b]].status = "failed"

Building(b) == pc[b] \in {"copying", "building", "copied"}

LEMMA Parts ==
    /\ ReadyWhole <=> \A v \in Ready : Whole(v)
    /\ Underway <=> \A b \in Procs : Building(b) => UnderwayOf(b)
    /\ Phases <=> \A b \in Procs : PhaseOf(b)
BY DEF ReadyWhole, Whole, Underway, UnderwayOf, Building, Phases, PhaseOf

\* Days and loads only go up.
Grows ==
    /\ \A t \in Tables : raw[t] <= raw'[t] /\ loaded[t] <= loaded'[t]
    /\ today <= today'

\* What version v holds is there after the step.
Kept(v) ==
    /\ run'[v] = run[v] /\ undated'[v] = undated[v]
    /\ \A m \in Materials : RecordOf(v, m) => RecordOf(v, m)'
    /\ \A t \in Tables : work'[v][t] = work[v][t]

LEMMA SameGrows == TypeOK /\ UNCHANGED sapVars => Grows
BY DEF TypeOK, sapVars, Grows, Copies, Days

LEMMA KeptCopies ==
    ASSUME TypeOK, TypeOK', Grows, NEW v \in Versions, Kept(v)
    PROVE  \A t \in Tables : CopyOf(v, t) => CopyOf(v, t)'
BY StoreAssumption DEF TypeOK, Grows, Kept, CopyOf, Copies

LEMMA KeptWhole ==
    ASSUME TypeOK, TypeOK', Grows, NEW v \in Versions, Kept(v), Whole(v)
    PROVE  Whole(v)'
<1>1. \A t \in Tables : CopyOf(v, t)'
  BY KeptCopies DEF Whole
<1>2. \A m \in Materials : RecordOf(v, m)'
  BY DEF Whole, Kept
<1>3. undated'[v] = Materials /\ run'[v] = run[v]
  BY DEF Whole, Kept
<1>4. run[v].day \in Nat /\ today \in Nat /\ today' \in Nat /\ run[v].day <= today /\ today <= today'
  BY StoreAssumption DEF TypeOK, Whole, Grows, Days
<1>5. ASSUME NEW t \in Tables PROVE run[v].seen[t] <= loaded'[t]
  BY StoreAssumption DEF TypeOK, Whole, Grows, Copies
<1> QED
  BY <1>1, <1>2, <1>3, <1>4, <1>5 DEF Whole

\* Only a step of the process that holds the lock concerns what is under way.
LEMMA Alone ==
    ASSUME LockHeld, NEW b \in Procs, lock = b \/ lock = None
    PROVE  \A c \in Procs \ {b} : ~Active(c)
BY StoreAssumption DEF LockHeld

LEMMA OneActs ==
    ASSUME NEW b \in Procs, \A c \in Procs \ {b} : ~Active(c) /\ pc'[c] = pc[c],
           Active(b)' => lock' = b, Building(b)' => UnderwayOf(b)', Active(b)' => PhaseOf(b)'
    PROVE  LockHeld' /\ Underway' /\ Phases'
<1>1. \A c \in Procs \ {b} : ~Active(c)'
  BY DEF Active
<1>2. \A c \in Procs : ~Active(c)' => PhaseOf(c)' /\ ~Building(c)'
  BY DEF Active, PhaseOf, Building
<1>3. LockHeld'
  BY <1>1 DEF LockHeld
<1>4. \A c \in Procs : (Building(c)' => UnderwayOf(c)') /\ PhaseOf(c)'
  BY <1>1, <1>2
<1> QED
  BY <1>3, <1>4 DEF Underway, UnderwayOf, Building, Phases, PhaseOf

\* The parts of IInv that are left once the types and OneReady are known.
Rest == LockHeld /\ NewVersions /\ Recorded /\ ReadyWhole /\ Underway /\ Phases

\* A step that leaves every version and every build as it was.
LEMMA Bystanders ==
    ASSUME IInv, TypeOK', Grows, Recorded', \A v \in Versions : Kept(v),
           UNCHANGED <<run, next, undated, work, lock, job, mine, source>>,
           \A b \in Procs : Active(b)' => pc'[b] = pc[b] /\ todo'[b] = todo[b]
    PROVE  Rest'
<1>1. Ready' = Ready /\ Ready \subseteq Versions
  BY DEF Ready
<1>2. ReadyWhole'
  <2>1. \A v \in Ready : Whole(v)
    BY Parts DEF IInv
  <2>2. ASSUME NEW v \in Versions, v \in Ready PROVE Whole(v)'
    BY <2>1, <2>2, KeptWhole DEF IInv
  <2> QED
    BY <1>1, <2>2 DEF ReadyWhole, Whole
<1>3. ASSUME NEW b \in Procs PROVE (Building(b)' => UnderwayOf(b)') /\ PhaseOf(b)'
  <2>1. CASE ~Active(b)'
    BY <2>1 DEF Active, Building, PhaseOf
  <2>2. CASE Active(b)'
    <3>1. pc'[b] = pc[b] /\ todo'[b] = todo[b] /\ PhaseOf(b) /\ (Building(b) => UnderwayOf(b))
      BY <2>2, Parts DEF IInv
    <3>2. mine[b] \in Versions
      BY DEF IInv, TypeOK
    <3>3. Kept(mine[b])
      BY <3>2
    <3>4. \A t \in Tables : CopyOf(mine[b], t) => (CopyOf(mine[b], t))'
      <4> DEFINE v == mine[b]
      <4>1. \A t \in Tables : raw[t] <= raw'[t] /\ raw[t] \in Nat /\ raw'[t] \in Nat
        BY StoreAssumption DEF IInv, TypeOK, Grows, Copies
      <4>2. \A t \in Tables : work[v][t] # None => work[v][t] \in Nat
        BY <3>2 DEF IInv, TypeOK, Copies
      <4> QED
        BY <4>1, <4>2 DEF CopyOf
    <3>5. PhaseOf(b)'
      BY <1>1, <3>1, <3>4 DEF PhaseOf
    <3>6. ASSUME Building(b)' PROVE UnderwayOf(b)'
      <4>1. UnderwayOf(b)
        BY <3>1, <3>6 DEF Building
      <4>2. \A m \in Materials : RecordOf(mine[b], m) => (RecordOf(mine[b], m))'
        BY <3>3 DEF Kept, RecordOf
      <4>3. run[mine[b]].day <= today'
        BY <3>2, <4>1, StoreAssumption DEF UnderwayOf, Grows, IInv, TypeOK, Days
      <4>4. \A t \in Tables : run[mine[b]].seen[t] <= loaded'[t]
        BY <3>2, <4>1, StoreAssumption DEF UnderwayOf, Grows, IInv, TypeOK, Copies
      <4> QED
        BY <1>1, <3>1, <4>1, <4>2, <4>3, <4>4 DEF UnderwayOf
    <3> QED
      BY <3>5, <3>6
  <2> QED
    BY <2>1, <2>2
<1>4. LockHeld'
  BY DEF IInv, LockHeld, Active
<1>5. NewVersions'
  BY DEF IInv, NewVersions
<1>6. Underway' /\ Phases'
  BY <1>3 DEF Underway, UnderwayOf, Building, Phases, PhaseOf
<1> QED
  BY <1>2, <1>4, <1>5, <1>6 DEF Rest

LEMMA ReadyStays ==
    ASSUME IInv, TypeOK', Grows, Ready' \subseteq Ready, \A v \in Versions : v \in Ready' => Kept(v)
    PROVE  ReadyWhole'
<1>1. \A v \in Ready : Whole(v)
  BY Parts DEF IInv
<1>2. ASSUME NEW v \in Versions, v \in Ready' PROVE Whole(v)'
  BY <1>1, <1>2, KeptWhole DEF IInv
<1> QED
  BY <1>2 DEF ReadyWhole, Whole, Ready

\* A refreshed row has the day of the version it goes into.
LEMMA PlanKept ==
    ASSUME TypeOK, NEW u \in Versions, NEW n \in Materials, dated' = WithPlan(u, n),
           UNCHANGED <<run, undated, work>>
    PROVE  \A v \in Versions : Kept(v)
<1> SUFFICES ASSUME NEW v \in Versions, NEW m \in Materials, RecordOf(v, m)
             PROVE  RecordOf(v, m)'
    BY DEF Kept
<1>1. dated' \in [Versions -> [Materials -> Record \cup {None}]]
  BY Types, PlanTypes
<1>2. dated \in [Versions -> [Materials -> Record \cup {None}]]
  BY DEF TypeOK
<1>3. CASE v = u /\ m = n
  <2>1. dated'[v][m] = [day |-> run[v].day, plan |-> TRUE]
    BY <1>2, <1>3 DEF WithPlan
  <2>2. dated'[v][m].day = run[v].day
    BY <2>1
  <2>3. run[v].day \in Days
    BY DEF TypeOK
  <2>4. dated'[v][m] \in [day : Nat, plan : BOOLEAN]
    BY <2>1, <2>3, StoreAssumption DEF Days
  <2>5. dated'[v][m] # None
    BY <2>4, StoreAssumption
  <2> QED
    BY <2>2, <2>5, <1>3 DEF RecordOf
<1>4. CASE ~(v = u /\ m = n)
  <2>1. dated'[v][m] = dated[v][m]
    BY <1>2, <1>4 DEF WithPlan
  <2> QED
    BY <2>1 DEF RecordOf
<1> QED
  BY <1>3, <1>4

\* Around the store, and before a process takes the lock.
LEMMA WorldStep ==
    ASSUME IInv, TypeOK', Midnight \/ \E t \in Tables : LoadRows(t) \/ RecordLoad(t)
    PROVE  Rest'
<1>a. /\ raw \in [Tables -> Nat] /\ loaded \in [Tables -> Nat] /\ today \in Nat
      /\ \A t \in Tables : loaded[t] <= raw[t]
  BY StoreAssumption DEF IInv, TypeOK, Recorded, Copies, Days
<1>1. Grows
  BY <1>a DEF Grows, LoadRows, RecordLoad, Midnight
<1>2. Recorded'
  BY <1>a DEF Recorded, LoadRows, RecordLoad, Midnight
<1>3. UNCHANGED <<run, next, undated, dated, work, lock, pc, job, mine, source, todo>>
  BY DEF LoadRows, RecordLoad, Midnight, storeVars, procVars
<1>4. \A v \in Versions : Kept(v)
  BY <1>3 DEF Kept, RecordOf
<1> QED
  BY <1>1, <1>2, <1>3, <1>4, Bystanders

LEMMA PlanStep ==
    ASSUME IInv, TypeOK', NEW m \in Materials,
           Draft(m) \/ Capture(m) \/ PostPlan(m) \/ Resolve(m) \/ RefreshMaterial(m) \/ RefreshFails(m)
    PROVE  Rest'
<1>1. UNCHANGED <<raw, loaded, today>>
  BY DEF Draft, Capture, PostPlan, Resolve, RefreshMaterial, RefreshFails, sapVars
<1>2. Grows /\ Recorded'
  BY <1>1 DEF Grows, Recorded, IInv, TypeOK, Copies, Days
<1>3. UNCHANGED <<run, next, undated, work, lock, pc, job, mine, source, todo>>
  BY DEF Draft, Capture, PostPlan, Resolve, RefreshMaterial, RefreshFails, storeVars, procVars
<1>4. \A v \in Versions : Kept(v)
  <2>1. CASE UNCHANGED dated
    BY <2>1, <1>3 DEF Kept, RecordOf
  <2>2. CASE RefreshMaterial(m)
    BY <2>2, <1>3, PlanKept DEF RefreshMaterial, IInv
  <2> QED
    BY <2>1, <2>2 DEF Draft, Capture, PostPlan, Resolve, RefreshFails, storeVars
<1> QED
  BY <1>2, <1>3, <1>4, Bystanders

LEMMA IdleStep ==
    ASSUME IInv, TypeOK', NEW b \in Procs, Decline(b) \/ \E j \in Jobs : Launch(b, j)
    PROVE  Rest'
<1>1. UNCHANGED <<raw, loaded, today>> /\ UNCHANGED <<run, next, undated, dated, work, lock, mine, source, todo>>
  BY DEF Decline, Launch, sapVars, storeVars
<1>2. Grows /\ Recorded'
  BY <1>1 DEF Grows, Recorded, IInv, TypeOK, Copies, Days
<1>3. \A v \in Versions : Kept(v)
  BY <1>1 DEF Kept, RecordOf
<1>4. \A c \in Procs : Active(c)' => pc'[c] = pc[c] /\ job'[c] = job[c]
  BY DEF Decline, Launch, Active, IInv, TypeOK
<1>5. CASE UNCHANGED job
  BY <1>1, <1>2, <1>3, <1>4, <1>5, Bystanders
<1>6. CASE \E j \in Jobs : Launch(b, j)
  <2>1. lock = None
    BY <1>6 DEF Launch
  <2>2. \A c \in Procs : ~Active(c)
    BY <2>1, StoreAssumption DEF IInv, LockHeld
  <2>3. pc'[b] = "launched" /\ \A c \in Procs \ {b} : pc'[c] = pc[c]
    BY <1>6 DEF Launch, IInv, TypeOK
  <2>4. ~Active(b)' /\ ~Building(b)'
    BY <2>3 DEF Active, Building
  <2>5. LockHeld' /\ Underway' /\ Phases'
    BY <2>2, <2>3, <2>4, OneActs
  <2>6. Ready' = Ready
    BY <1>1 DEF Ready
  <2> QED
    BY <1>1, <1>2, <1>3, <2>5, <2>6, ReadyStays DEF Rest, NewVersions, IInv
<1> QED
  BY <1>5, <1>6 DEF Decline

\* What a build that holds the lock can count on.
LEMMA Holder ==
    ASSUME IInv, NEW b \in Procs, Active(b)
    PROVE  /\ lock = b /\ \A c \in Procs \ {b} : ~Active(c)
           /\ mine[b] \in Versions /\ mine[b] < next
           /\ PhaseOf(b)
           /\ Building(b) => UnderwayOf(b) /\ mine[b] \notin Ready
           /\ \A v \in Ready : Whole(v) /\ v \in Versions /\ v < next
<1>1. lock = b /\ \A c \in Procs \ {b} : ~Active(c)
  BY Alone DEF IInv, LockHeld
<1>2. mine[b] \in Versions /\ next \in Nat /\ \A v \in Versions : v \in Nat
  BY StoreAssumption DEF IInv, TypeOK, Versions
<1>3. PhaseOf(b) /\ (Building(b) => UnderwayOf(b))
  BY Parts DEF IInv
<1>4. Building(b) => mine[b] \notin Ready
  BY <1>3 DEF UnderwayOf, Ready
<1>5. run[mine[b]].status # "none"
  BY <1>3 DEF Active, Building, PhaseOf, UnderwayOf
<1>6. mine[b] < next
  BY <1>2, <1>5 DEF IInv, NewVersions
<1>7. \A v \in Ready : Whole(v) /\ v \in Versions /\ v < next
  BY <1>2, Parts DEF IInv, NewVersions, Ready
<1> QED
  BY <1>1, <1>2, <1>3, <1>4, <1>6, <1>7

\* A clearance leaves the versions it does not name.
LEMMA ClearedKept ==
    ASSUME NEW vs, NEW ws, NEW v \in Versions, v \notin vs, v \notin ws,
           run'[v] = run[v],
           Cleared(vs) \/ UNCHANGED <<dated, undated>>, Dropped(ws) \/ UNCHANGED work
    PROVE  Kept(v)
<1>1. dated'[v] = dated[v] /\ undated'[v] = undated[v]
  BY DEF Cleared
<1>2. work'[v] = work[v]
  BY DEF Dropped
<1> QED
  BY <1>1, <1>2 DEF Kept, RecordOf

LEMMA StartStep ==
    ASSUME IInv, TypeOK', NEW b \in Procs, Start(b)
    PROVE  Rest'
<1> DEFINE n == next
<1>1. /\ n \in Versions /\ next' = n + 1 /\ run' \in [Versions -> Row]
      /\ run'[n].status = "building" /\ run'[n].day = today
      /\ run'[n].seen = IF job[b] = "reage" THEN run[Served].seen ELSE loaded
      /\ \A v \in Versions : v # n => run'[v] = run[v]
      /\ Ready' = Ready \ {n}
      /\ job[b] = "reage" => Served \in Ready
  BY StartRows DEF IInv
<1>2. /\ lock = None /\ lock' = b /\ mine'[b] = n /\ todo'[b] = Materials /\ job' = job
      /\ source'[b] = IF job[b] = "reage" THEN Served ELSE source[b]
      /\ pc'[b] = IF job[b] = "build" THEN "copying" ELSE "building"
      /\ \A c \in Procs \ {b} : pc'[c] = pc[c]
      /\ UNCHANGED <<raw, loaded, today, work, dated, undated>>
  BY DEF Start, Declines, sapVars, IInv, TypeOK
<1>3. Grows /\ Recorded'
  BY <1>2 DEF Grows, Recorded, IInv, TypeOK, Copies, Days
<1>4. \A c \in Procs \ {b} : ~Active(c)
  BY <1>2, Alone DEF IInv
<1>5. n \notin Ready /\ \A t \in Tables : work[n][t] = None
  BY <1>1, StoreAssumption DEF IInv, NewVersions, Ready, Versions
<1>6. ReadyWhole'
  <2>1. \A v \in Versions : v \in Ready' => Kept(v)
    BY <1>1, <1>2 DEF Kept, RecordOf
  <2> QED
    BY <1>1, <1>3, <2>1, ReadyStays
<1>7. NewVersions'
  BY <1>1, <1>2, StoreAssumption DEF IInv, NewVersions, Versions
<1>8. \A v \in Ready : Whole(v) /\ v \in Versions
  BY Parts DEF IInv, Ready
<1>9. UnderwayOf(b)'
  <2>1. \A t \in Tables : run'[n].seen[t] <= loaded[t]
    BY <1>1, <1>8 DEF Whole, IInv, TypeOK, Copies
  <2>2. ASSUME NEW v \in Ready'
        PROVE  run'[v].day <= today /\ \A t \in Tables : run'[v].seen[t] <= run'[n].seen[t]
    <3>1. v \in Ready /\ v # n /\ run'[v] = run[v] /\ Whole(v)
      BY <1>1, <1>8, <2>2
    <3>2. CASE job[b] = "reage"
      <4>1. v = Served
        BY <1>1, <3>1, <3>2 DEF IInv, OneReady
      <4>2. run[v].seen \in [Tables -> Copies]
        BY <3>1, <1>8 DEF IInv, TypeOK
      <4> QED
        BY <1>1, <3>1, <3>2, <4>1, <4>2 DEF Whole, Copies
    <3>3. CASE job[b] # "reage"
      BY <1>1, <3>1, <3>3 DEF Whole
    <3> QED
      BY <3>2, <3>3
  <2>3. today <= today
    BY StoreAssumption DEF IInv, TypeOK, Days
  <2> QED
    BY <1>1, <1>2, <2>1, <2>2, <2>3 DEF UnderwayOf
<1>10. PhaseOf(b)'
  <2>1. job[b] \in {"build", "reage"}
    BY DEF IInv, TypeOK, Jobs
  <2>2. CASE job[b] = "build"
    BY <1>2, <1>5, <2>2 DEF PhaseOf
  <2>3. CASE job[b] = "reage"
    <3>1. source'[b] \in Ready' /\ run'[source'[b]] = run[Served]
      BY <1>1, <1>2, <1>5, <1>8, <2>3
    <3> QED
      BY <1>1, <1>2, <2>3, <3>1 DEF PhaseOf
  <2> QED
    BY <2>1, <2>2, <2>3
<1>11. LockHeld' /\ Underway' /\ Phases'
  BY <1>2, <1>4, <1>9, <1>10, OneActs
<1> QED
  BY <1>3, <1>6, <1>7, <1>11 DEF Rest

LEMMA CopyTableStep ==
    ASSUME IInv, TypeOK', NEW b \in Procs, NEW t \in Tables, CopyTable(b, t)
    PROVE  Rest'
<1> DEFINE n == mine[b]
<1>1. /\ n \in Versions /\ n < next /\ n \notin Ready /\ UnderwayOf(b) /\ PhaseOf(b)
      /\ lock = b /\ \A c \in Procs \ {b} : ~Active(c)
      /\ \A v \in Ready : Whole(v)
  BY Holder DEF CopyTable, Active, Building
<1>2. /\ pc[b] = "copying" /\ pc'[b] \in {"copying", "building"}
      /\ \A c \in Procs \ {b} : pc'[c] = pc[c]
      /\ pc'[b] = "building" => \A u \in Tables \ {t} : work[n][u] # None
      /\ UNCHANGED <<raw, loaded, today, run, next, dated, undated, lock, job, mine, source, todo>>
  BY DEF CopyTable, sapVars, IInv, TypeOK
<1>3. /\ work'[n][t] = raw[t] /\ \A u \in Tables \ {t} : work'[n][u] = work[n][u]
      /\ \A v \in Versions \ {n} : work'[v] = work[v]
  BY <1>1 DEF CopyTable, IInv, TypeOK
<1>4. Grows /\ Recorded' /\ Ready' = Ready
  BY <1>2 DEF Grows, Recorded, Ready, IInv, TypeOK, Copies, Days
<1>5. ReadyWhole'
  <2>1. \A v \in Versions : v \in Ready' => Kept(v)
    BY <1>1, <1>2, <1>3, <1>4 DEF Kept, RecordOf
  <2> QED
    BY <1>4, <2>1, ReadyStays
<1>6. NewVersions'
  <2>0. next \in Nat /\ Versions \subseteq Nat
    <3>1. next \in 1..(MaxVersion + 1)
      BY Types DEF IInv, RunTypes
    <3> QED
      BY <3>1, StoreAssumption DEF Versions
  <2>1. n \in Nat /\ next \in Nat /\ \A v \in Versions : v >= next => v # n
    <3>1. PICK x \in Nat : x = n /\ x < next
      BY <1>1, <2>0
    <3>2. \A v \in Nat : v >= next => v # x
      BY <2>0, <3>1
    <3> QED
      BY <2>0, <3>1, <3>2
  <2> QED
    BY <1>2, <1>3, <2>1 DEF IInv, NewVersions
<1>7. UnderwayOf(b)'
  BY <1>1, <1>2, <1>4 DEF UnderwayOf, RecordOf
<1>8. CopyOf(n, t)' /\ \A u \in Tables : work'[n][u] # None => CopyOf(n, u)'
  <2>1. job[b] = "build" /\ \A u \in Tables : work[n][u] # None => CopyOf(n, u)
    BY <1>1, <1>2 DEF PhaseOf
  <2>2. ASSUME NEW u \in Tables, u # t, work'[n][u] # None PROVE CopyOf(n, u)'
    BY <1>2, <1>3, <2>1, <2>2 DEF CopyOf
  <2>3. CopyOf(n, t)'
    <3>1. /\ raw[t] \in Nat /\ loaded[t] \in Nat /\ run[n].seen[t] \in Nat
          /\ run[n].seen[t] <= loaded[t] /\ loaded[t] <= raw[t]
      BY <1>1, StoreAssumption DEF IInv, TypeOK, Recorded, UnderwayOf, Copies
    <3>2. raw[t] # None /\ run[n].seen[t] <= raw[t] /\ raw[t] <= raw[t]
      BY <3>1, StoreAssumption
    <3> QED
      BY <1>2, <1>3, <3>2 DEF CopyOf
  <2> QED
    BY <2>2, <2>3
<1>9. PhaseOf(b)'
  <2>1. job[b] = "build" /\ todo[b] = Materials
    BY <1>1, <1>2 DEF PhaseOf
  <2>2. pc'[b] = "building" => \A u \in Tables : CopyOf(n, u)'
    BY <1>2, <1>3, <1>8
  <2> QED
    BY <1>2, <1>8, <2>1, <2>2 DEF PhaseOf
<1>10. LockHeld' /\ Underway' /\ Phases'
  BY <1>1, <1>2, <1>7, <1>9, OneActs
<1> QED
  BY <1>4, <1>5, <1>6, <1>10 DEF Rest

LEMMA BuildBatchStep ==
    ASSUME IInv, TypeOK', NEW b \in Procs, NEW m \in Materials, BuildBatch(b, m)
    PROVE  Rest'
<1> DEFINE n == mine[b]
           r == [day |-> run[n].day, plan |-> m \in captured]
<1>1. /\ n \in Versions /\ n \notin Ready /\ UnderwayOf(b) /\ PhaseOf(b)
      /\ lock = b /\ \A c \in Procs \ {b} : ~Active(c)
      /\ \A v \in Ready : Whole(v)
  BY Holder DEF BuildBatch, Active, Building
<1>2. /\ pc[b] = "building" /\ todo'[b] = todo[b] \ {m}
      /\ UNCHANGED <<raw, loaded, today, run, next, work, lock, pc, job, mine, source>>
  BY DEF BuildBatch, sapVars, IInv, TypeOK
<1>3. r.day = run[n].day /\ r # None
  <2>1. run[n].day \in Nat
    BY <1>1, StoreAssumption DEF IInv, TypeOK, Days
  <2>2. r \in [day : Nat, plan : BOOLEAN]
    BY <2>1
  <2> QED
    BY <2>2, StoreAssumption
<1>4. dated'[n][m] = r /\ \A k \in Materials \ {m} : dated'[n][k] = dated[n][k]
  BY <1>1 DEF BuildBatch, IInv, TypeOK
<1>5. \A v \in Versions \ {n} : dated'[v] = dated[v] /\ undated'[v] = undated[v]
  BY <1>1 DEF BuildBatch, IInv, TypeOK
<1>6. undated'[n] = IF job[b] = "build" THEN undated[n] \cup {m} ELSE undated[n]
  BY <1>1 DEF BuildBatch, IInv, TypeOK
<1> HIDE DEF r
<1>7. Grows /\ Recorded' /\ Ready' = Ready /\ NewVersions'
  BY <1>2 DEF Grows, Recorded, Ready, NewVersions, IInv, TypeOK, Copies, Days
<1>8. ReadyWhole'
  <2>1. \A v \in Versions : v \in Ready' => Kept(v)
    BY <1>1, <1>2, <1>5, <1>7 DEF Kept, RecordOf
  <2> QED
    BY <1>7, <2>1, ReadyStays
<1>9. UnderwayOf(b)'
  <2>1. ASSUME NEW k \in Materials \ todo'[b] PROVE RecordOf(n, k)'
    <3>1. CASE k = m
      BY <1>2, <1>3, <1>4, <3>1 DEF RecordOf
    <3>2. CASE k # m
      BY <1>1, <1>2, <1>4, <3>2 DEF RecordOf, UnderwayOf
    <3> QED
      BY <3>1, <3>2
  <2> QED
    BY <1>1, <1>2, <1>7, <2>1 DEF UnderwayOf
<1>10. PhaseOf(b)'
  BY <1>1, <1>2, <1>6, <1>7 DEF PhaseOf, CopyOf
<1>11. LockHeld' /\ Underway' /\ Phases'
  BY <1>1, <1>2, <1>9, <1>10, OneActs
<1> QED
  BY <1>7, <1>8, <1>11 DEF Rest

LEMMA CopyKindsStep ==
    ASSUME IInv, TypeOK', NEW b \in Procs, CopyKinds(b)
    PROVE  Rest'
<1> DEFINE n == mine[b]
<1>1. /\ n \in Versions /\ n \notin Ready /\ UnderwayOf(b) /\ PhaseOf(b)
      /\ lock = b /\ \A c \in Procs \ {b} : ~Active(c)
      /\ \A v \in Ready : Whole(v)
  BY Holder DEF CopyKinds, Active, Building
<1>2. /\ pc[b] = "building" /\ job[b] = "reage" /\ todo[b] = {} /\ pc'[b] = "copied"
      /\ \A c \in Procs \ {b} : pc'[c] = pc[c]
      /\ UNCHANGED <<raw, loaded, today, run, next, work, dated, lock, job, mine, source, todo>>
  BY DEF CopyKinds, sapVars, IInv, TypeOK
<1>3. undated'[n] = Materials /\ \A v \in Versions \ {n} : undated'[v] = undated[v]
  <2>1. source[b] \in Ready
    BY <1>1, <1>2 DEF PhaseOf
  <2>2. undated[source[b]] = Materials
    BY <1>1, <2>1 DEF Whole
  <2> QED
    BY <1>1, <2>2 DEF CopyKinds, IInv, TypeOK
<1>4. Grows /\ Recorded' /\ Ready' = Ready /\ NewVersions'
  BY <1>2 DEF Grows, Recorded, Ready, NewVersions, IInv, TypeOK, Copies, Days
<1>5. ReadyWhole'
  <2>1. \A v \in Versions : v \in Ready' => Kept(v)
    BY <1>1, <1>2, <1>3, <1>4 DEF Kept, RecordOf
  <2> QED
    BY <1>4, <2>1, ReadyStays
<1>6. UnderwayOf(b)' /\ PhaseOf(b)'
  BY <1>1, <1>2, <1>3, <1>4 DEF UnderwayOf, PhaseOf, RecordOf
<1>7. LockHeld' /\ Underway' /\ Phases'
  BY <1>1, <1>2, <1>6, OneActs
<1> QED
  BY <1>4, <1>5, <1>7 DEF Rest

\* A version that becomes the served one is whole.
LEMMA SwapStep ==
    ASSUME IInv, TypeOK', NEW b \in Procs, Swap(b)
    PROVE  Rest'
<1> DEFINE n == mine[b]
<1>1. /\ n \in Versions /\ n < next /\ n \notin Ready /\ UnderwayOf(b) /\ PhaseOf(b)
      /\ lock = b /\ \A c \in Procs \ {b} : ~Active(c)
      /\ \A v \in Ready : Whole(v) /\ v \in Versions /\ v < next
  BY Holder DEF Swap, Active, Building
<1>2. /\ pc[b] = IF job[b] = "build" THEN "building" ELSE "copied"
      /\ todo[b] = {} /\ pc'[b] = "swapped"
      /\ \A c \in Procs \ {b} : pc'[c] = pc[c]
      /\ UNCHANGED <<raw, loaded, today, next, dated, undated, lock, job, mine, source, todo>>
  BY DEF Swap, sapVars, IInv, TypeOK
<1>3. Ready' = {n}
  BY SwitchRows, Types DEF Swap, IInv
<1>4. run'[n].status = "ready" /\ run'[n].seen = run[n].seen /\ run'[n].day = run[n].day
  BY <1>1, <1>3, RowStatus, Types DEF Swap, Switch, IInv, RunTypes
<1>5. \A v \in Versions : run[v].status = "none" => run'[v] = run[v]
  BY <1>1 DEF Swap, Switch, UnderwayOf
<1>6. \A t \in Tables : CopyOf(n, t)'
  <2>1. job[b] \in {"build", "reage"}
    BY DEF IInv, TypeOK, Jobs
  <2>2. CASE job[b] = "build"
    <3>1. work' = work /\ \A t \in Tables : CopyOf(n, t)
      BY <1>1, <1>2, <2>2 DEF Swap, PhaseOf
    <3> QED
      BY <1>2, <1>4, <3>1 DEF CopyOf
  <2>3. CASE job[b] = "reage"
    <3>1. source[b] \in Ready /\ run[n].seen = run[source[b]].seen
      BY <1>1, <1>2, <2>3 DEF PhaseOf
    <3>2. work'[n] = work[source[b]]
      BY <1>1, <2>3, <3>1 DEF Swap, IInv, TypeOK
    <3>3. \A t \in Tables : CopyOf(source[b], t)
      BY <1>1, <3>1 DEF Whole
    <3> QED
      BY <1>2, <1>4, <3>1, <3>2, <3>3 DEF CopyOf
  <2> QED
    BY <2>1, <2>2, <2>3
<1>7. undated[n] = Materials
  BY <1>1, <1>2 DEF PhaseOf, IInv, TypeOK, Jobs
<1>8. ReadyWhole'
  <2>1. \A m \in Materials : RecordOf(n, m)'
    BY <1>1, <1>2, <1>4 DEF UnderwayOf, RecordOf
  <2>2. Whole(n)'
    BY <1>1, <1>2, <1>4, <1>6, <1>7, <2>1 DEF Whole, UnderwayOf
  <2> QED
    BY <1>2, <1>3, <2>2 DEF ReadyWhole, Whole
<1>9. NewVersions'
  <2> SUFFICES ASSUME NEW v \in Versions, v >= next
               PROVE  run'[v].status = "none" /\ \A t \in Tables : work'[v][t] = None
      BY <1>2 DEF NewVersions
  <2>1. run[v].status = "none" /\ \A t \in Tables : work[v][t] = None
    BY DEF IInv, NewVersions
  <2>2. v # n
    BY <1>1, StoreAssumption DEF IInv, TypeOK, Versions
  <2>3. work'[v] = work[v] \/ \A t \in Tables : work'[v][t] = None
    BY <2>2, <1>1 DEF Swap, IInv, TypeOK
  <2> QED
    BY <1>5, <2>1, <2>3
<1>10. ~Building(b)' /\ PhaseOf(b)' /\ Recorded'
  BY <1>2, <1>4 DEF Building, PhaseOf, Recorded, IInv
<1>11. LockHeld' /\ Underway' /\ Phases'
  BY <1>1, <1>2, <1>10, OneActs
<1> QED
  BY <1>8, <1>9, <1>10, <1>11 DEF Rest

LEMMA CleanupStep ==
    ASSUME IInv, TypeOK', NEW b \in Procs, Cleanup(b)
    PROVE  Rest'
<1> DEFINE n == mine[b]
<1>1. /\ n \in Versions /\ PhaseOf(b) /\ lock = b /\ \A c \in Procs \ {b} : ~Active(c)
  BY Holder DEF Cleanup, Active
<1>2. /\ pc[b] = "swapped" /\ pc'[b] = "cleaned" /\ \A c \in Procs \ {b} : pc'[c] = pc[c]
      /\ UNCHANGED <<raw, loaded, today, run, next, lock, job, mine, source>>
  BY DEF Cleanup, sapVars, IInv, TypeOK
<1>3. Ready' = {n} /\ Ready = {n}
  BY <1>1, <1>2 DEF PhaseOf, Ready, IInv, OneReady
<1>4. Grows /\ Recorded'
  BY <1>2 DEF Grows, Recorded, IInv, TypeOK, Copies, Days
<1>5. Kept(n)
  BY <1>1, <1>2, ClearedKept DEF Cleanup, DroppedExcept
<1>6. ReadyWhole'
  BY <1>3, <1>4, <1>5, ReadyStays
<1>7. NewVersions'
  BY <1>2 DEF Cleanup, DroppedExcept, Dropped, IInv, NewVersions
<1>8. ~Building(b)' /\ PhaseOf(b)'
  BY <1>1, <1>2 DEF Building, PhaseOf
<1>9. LockHeld' /\ Underway' /\ Phases'
  BY <1>1, <1>2, <1>8, OneActs
<1> QED
  BY <1>4, <1>6, <1>7, <1>9 DEF Rest

LEMMA CatchUpStep ==
    ASSUME IInv, TypeOK', NEW b \in Procs, CatchUpFails(b) \/ \E m \in Materials : CatchUp(b, m)
    PROVE  Rest'
<1>1. /\ PhaseOf(b) /\ lock = b /\ \A c \in Procs \ {b} : ~Active(c)
  BY Holder DEF CatchUp, CatchUpFails, Active
<1>2. /\ pc[b] = "cleaned"
      /\ UNCHANGED <<raw, loaded, today, run, next, work, undated, lock, pc, job, mine, source>>
  BY DEF CatchUp, CatchUpFails, sapVars, storeVars
<1>3. Grows /\ Recorded' /\ Ready' = Ready /\ NewVersions'
  BY <1>2 DEF Grows, Recorded, Ready, NewVersions, IInv, TypeOK, Copies, Days
<1>4. \A v \in Versions : Kept(v)
  <2>1. CASE UNCHANGED dated
    BY <1>2, <2>1 DEF Kept, RecordOf
  <2>2. ASSUME NEW m \in Materials, CatchUp(b, m), Served # None
        PROVE  \A v \in Versions : Kept(v)
    <3>1. Served \in Versions
      BY <2>2, ServedReady DEF IInv, Ready
    <3>2. dated' = WithPlan(Served, m)
      BY <2>2 DEF CatchUp
    <3> QED
      BY <1>2, <3>1, <3>2, PlanKept DEF IInv
  <2> QED
    BY <2>1, <2>2 DEF CatchUp, CatchUpFails, storeVars
<1>5. ReadyWhole'
  BY <1>3, <1>4, ReadyStays
<1>6. ~Building(b)' /\ PhaseOf(b)'
  BY <1>1, <1>2 DEF Building, PhaseOf
<1>7. LockHeld' /\ Underway' /\ Phases'
  BY <1>1, <1>2, <1>6, OneActs
<1> QED
  BY <1>3, <1>5, <1>7 DEF Rest

LEMMA ExitStep ==
    ASSUME IInv, TypeOK', NEW b \in Procs, Exit(b)
    PROVE  Rest'
<1>1. \A c \in Procs \ {b} : ~Active(c)
  BY Holder DEF Exit, Active
<1>2. /\ pc'[b] = "idle" /\ \A c \in Procs \ {b} : pc'[c] = pc[c]
      /\ UNCHANGED <<raw, loaded, today, run, next, work, dated, undated>>
  BY DEF Exit, sapVars, storeVars, IInv, TypeOK
<1>3. Grows /\ Recorded' /\ Ready' = Ready /\ NewVersions'
  BY <1>2 DEF Grows, Recorded, Ready, NewVersions, IInv, TypeOK, Copies, Days
<1>4. \A v \in Versions : Kept(v)
  BY <1>2 DEF Kept, RecordOf
<1>5. LockHeld' /\ Underway' /\ Phases'
  BY <1>1, <1>2, OneActs DEF Active, Building
<1> QED
  BY <1>3, <1>4, <1>5, ReadyStays DEF Rest

\* A build that raises gives up its own version, which was never ready.
LEMMA RaisesStep ==
    ASSUME IInv, TypeOK', NEW b \in Procs, Building(b), Raises(b)
    PROVE  Rest'
<1> DEFINE n == mine[b]
<1>1. /\ n \in Versions /\ n < next /\ n \notin Ready
      /\ lock = b /\ \A c \in Procs \ {b} : ~Active(c)
  BY Holder DEF Active, Building
<1>2. /\ run'[n].status = "failed" /\ \A v \in Versions : v # n => run'[v] = run[v]
      /\ Ready' = Ready
  BY <1>1, RaisesRows, Types DEF IInv
<1>3. /\ pc'[b] = "failed" /\ \A c \in Procs \ {b} : pc'[c] = pc[c]
      /\ UNCHANGED <<raw, loaded, today, next, dated, undated, lock, mine>>
      /\ Dropped({n}) \/ UNCHANGED work
  BY DEF Raises, RolledBack, sapVars, IInv, TypeOK
<1>4. Grows /\ Recorded'
  BY <1>3 DEF Grows, Recorded, IInv, TypeOK, Copies, Days
<1>5. \A v \in Versions : v \in Ready' => Kept(v)
  BY <1>1, <1>2, <1>3, ClearedKept
<1>6. NewVersions'
  <2>0. next \in Nat /\ Versions \subseteq Nat
    <3>1. next \in 1..(MaxVersion + 1)
      BY Types DEF IInv, RunTypes
    <3> QED
      BY <3>1, StoreAssumption DEF Versions
  <2>1. n \in Nat /\ next \in Nat /\ \A v \in Versions : v >= next => v # n
    <3>1. PICK x \in Nat : x = n /\ x < next
      BY <1>1, <2>0
    <3>2. \A v \in Nat : v >= next => v # x
      BY <2>0, <3>1
    <3> QED
      BY <2>0, <3>1, <3>2
  <2>2. \A v \in Versions : work'[v] = work[v] \/ \A t \in Tables : work'[v][t] = None
    BY <1>3 DEF Dropped
  <2> QED
    BY <1>2, <1>3, <2>1, <2>2 DEF IInv, NewVersions
<1>7. ~Building(b)' /\ PhaseOf(b)'
  BY <1>2, <1>3 DEF Building, PhaseOf
<1>8. LockHeld' /\ Underway' /\ Phases'
  BY <1>1, <1>3, <1>7, OneActs
<1> QED
  BY <1>2, <1>4, <1>5, <1>6, <1>8, ReadyStays DEF Rest

LEMMA ClearFailedStep ==
    ASSUME IInv, TypeOK', NEW b \in Procs, ClearFailed(b)
    PROVE  Rest'
<1> DEFINE n == mine[b]
<1>1. /\ n \in Versions /\ PhaseOf(b) /\ \A c \in Procs \ {b} : ~Active(c)
  BY Holder DEF ClearFailed, Active
<1>2. /\ pc[b] = "failed" /\ pc'[b] = "idle" /\ \A c \in Procs \ {b} : pc'[c] = pc[c]
      /\ UNCHANGED <<raw, loaded, today, run, next>>
      /\ Cleared({n}) /\ (Dropped({n}) \/ UNCHANGED work)
  BY DEF ClearFailed, sapVars, IInv, TypeOK
<1>3. n \notin Ready /\ Ready' = Ready
  BY <1>1, <1>2 DEF PhaseOf, Ready
<1>4. Grows /\ Recorded'
  BY <1>2 DEF Grows, Recorded, IInv, TypeOK, Copies, Days
<1>5. ASSUME NEW v \in Versions, v \in Ready' PROVE Kept(v)
  <2>1. v \notin {n} /\ run'[v] = run[v]
    BY <1>2, <1>3, <1>5
  <2> QED
    BY <1>2, <2>1, ClearedKept
<1>6. NewVersions'
  BY <1>2 DEF Dropped, IInv, NewVersions
<1>7. LockHeld' /\ Underway' /\ Phases'
  BY <1>1, <1>2, OneActs DEF Active, Building
<1> QED
  BY <1>3, <1>4, <1>5, <1>6, <1>7, ReadyStays DEF Rest

LEMMA KillStep ==
    ASSUME IInv, TypeOK', NEW b \in Procs, Kill(b)
    PROVE  Rest'
<1> DEFINE n == mine[b]
<1>1. /\ pc'[b] = "idle" /\ todo'[b] = {}
      /\ \A c \in Procs \ {b} : pc'[c] = pc[c] /\ todo'[c] = todo[c]
      /\ UNCHANGED <<raw, loaded, today, run, next, dated, undated, job, mine, source>>
      /\ lock' = IF lock = b THEN None ELSE lock
  BY DEF Kill, LetGo, sapVars, IInv, TypeOK
<1>2. Grows /\ Recorded' /\ Ready' = Ready
  BY <1>1 DEF Grows, Recorded, Ready, IInv, TypeOK, Copies, Days
<1>3. ~Active(b)' /\ ~Building(b)'
  BY <1>1 DEF Active, Building
<1>4. CASE pc[b] = "copying"
  <2>1. n \notin Ready /\ \A c \in Procs \ {b} : ~Active(c)
    BY <1>4, Holder DEF Active, Building
  <2>2. Dropped({n})
    BY <1>4 DEF Kill, RolledBack
  <2>3. ASSUME NEW v \in Versions, v \in Ready' PROVE Kept(v)
    <3>1. v \notin {n} /\ run'[v] = run[v]
      BY <1>1, <1>2, <2>1, <2>3
    <3> QED
      BY <1>1, <2>2, <3>1, ClearedKept
  <2>4. NewVersions'
    BY <1>1, <2>2 DEF Dropped, IInv, NewVersions
  <2>5. LockHeld' /\ Underway' /\ Phases'
    BY <1>1, <1>3, <2>1, OneActs
  <2> QED
    BY <1>2, <2>3, <2>4, <2>5, ReadyStays DEF Rest
<1>5. CASE pc[b] # "copying"
  <2>1. work' = work
    BY <1>5 DEF Kill, RolledBack
  <2>2. \A v \in Versions : Kept(v)
    BY <1>1, <2>1 DEF Kept, RecordOf
  <2>3. CASE lock = b
    <3>1. LockHeld' /\ Underway' /\ Phases'
      <4>1. \A c \in Procs \ {b} : ~Active(c)
        BY <2>3, Alone DEF IInv
      <4> QED
        BY <1>1, <1>3, <4>1, OneActs
    <3>2. NewVersions'
      BY <1>1, <2>1 DEF IInv, NewVersions
    <3> QED
      BY <1>2, <2>2, <3>1, <3>2, ReadyStays DEF Rest
  <2>4. CASE lock # b
    BY <1>1, <1>2, <1>3, <2>1, <2>2, <2>4, Bystanders
  <2> QED
    BY <2>3, <2>4
<1> QED
  BY <1>4, <1>5

\* With the lock to itself, start-up finds no build running and leaves what is ready.
LEMMA StartUpStep ==
    ASSUME IInv, TypeOK', StartUp
    PROVE  Rest'
<1>1. /\ lock = None /\ lock' = lock /\ pc' = pc
      /\ UNCHANGED <<raw, loaded, today, next>>
  BY DEF StartUp, sapVars, procVars
<1>2. \A c \in Procs : ~Active(c)
  BY <1>1, StoreAssumption DEF IInv, LockHeld
<1>3. \A c \in Procs : ~Active(c)' /\ ~Building(c)' /\ PhaseOf(c)'
  BY <1>1, <1>2 DEF Active, Building, PhaseOf
<1>4. LockHeld' /\ Underway' /\ Phases'
  BY <1>3 DEF LockHeld, Underway, UnderwayOf, Building, Phases, PhaseOf
<1>5. Grows /\ Recorded'
  BY <1>1 DEF Grows, Recorded, IInv, TypeOK, Copies, Days
<1>6. /\ Ready' = Ready
      /\ \A v \in Versions : run[v].status # "building" => run'[v] = run[v]
  BY StartUpRows, Types DEF IInv
<1>7. ASSUME NEW v \in Versions, v \in Ready' PROVE Kept(v)
  <2> DEFINE vs == {u \in Versions : run[u].status = "building"}
             ws == Versions \ (Ready \cup Uncommitted)
  <2>1. Cleared(vs) /\ Dropped(ws)
    BY DEF StartUp, DroppedExcept
  <2>2. v \in Ready /\ run[v].status = "ready"
    BY <1>6, <1>7 DEF Ready
  <2>3. v \notin vs /\ v \notin ws /\ run'[v] = run[v]
    BY <1>6, <2>2
  <2> HIDE DEF vs, ws
  <2> QED
    BY <2>1, <2>3, ClearedKept
<1>8. NewVersions'
  BY <1>1, <1>6 DEF StartUp, DroppedExcept, Dropped, IInv, NewVersions
<1> QED
  BY <1>4, <1>5, <1>6, <1>7, <1>8, ReadyStays DEF Rest

LEMMA InitRest == Init => IInv
<1> SUFFICES ASSUME Init PROVE IInv
    OBVIOUS
<1>1. TypeOK /\ OneReady
  BY InitStore
<1>2. \A b \in Procs : ~Active(b) /\ ~Building(b) /\ PhaseOf(b)
  BY DEF Init, Active, Building, PhaseOf
<1>3. LockHeld /\ Underway /\ Phases
  BY <1>2, Parts DEF LockHeld
<1>4. \A v \in Versions :
         run[v] = IF StoredAtStart /\ v = 1 THEN [NoRun EXCEPT !.status = "ready"] ELSE NoRun
  BY DEF Init
<1>5. NoRun \in Row /\ NoRun.status = "none" /\ NoRun.day = 0 /\ NoRun.seen = [t \in Tables |-> 0]
  BY StoreAssumption DEF NoRun, Row, Copies, Days
<1>6. NewVersions
  <2> SUFFICES ASSUME NEW v \in Versions, v >= next
               PROVE  run[v].status = "none" /\ \A t \in Tables : work[v][t] = None
      BY DEF NewVersions
  <2>1. ~(StoredAtStart /\ v = 1)
    BY StoreAssumption DEF Init, Versions
  <2> QED
    BY <1>4, <1>5, <2>1 DEF Init
<1>7. Recorded
  <2>1. raw = [t \in Tables |-> 0] /\ loaded = [t \in Tables |-> 0]
    BY Zenon DEF Init
  <2>2. \A t \in Tables : raw[t] = 0 /\ loaded[t] = 0
    BY <2>1, Zenon
  <2>3. 0 <= 0
    OBVIOUS
  <2> QED
    BY <2>2, <2>3, Zenon DEF Recorded
<1>8. ReadyWhole
  <2> SUFFICES ASSUME NEW v \in Ready PROVE Whole(v)
      BY Parts
  <2>1. v \in Versions /\ StoredAtStart /\ v = 1
    BY <1>4, <1>5 DEF Ready
  <2> DEFINE r == [day |-> 0, plan |-> FALSE]
  <2>2. r.day = 0 /\ r # None
    <3>1. r \in [day : Nat, plan : BOOLEAN]
      OBVIOUS
    <3> QED
      BY <3>1, StoreAssumption
  <2>3. /\ \A m \in Materials : dated[v][m] = r
        /\ undated[v] = Materials /\ \A t \in Tables : work[v][t] = 0
    BY <2>1 DEF Init
  <2>4. raw = [t \in Tables |-> 0] /\ loaded = [t \in Tables |-> 0] /\ today = 0
    BY Zenon DEF Init
  <2>6. run[v].day = 0 /\ run[v].seen = [t \in Tables |-> 0]
    <3>1. run[v] = [NoRun EXCEPT !.status = "ready"]
      BY <1>4, <2>1
    <3>2. [NoRun EXCEPT !.status = "ready"].day = NoRun.day /\ [NoRun EXCEPT !.status = "ready"].seen = NoRun.seen
      BY <1>5, RowStatus
    <3> QED
      BY <1>5, <3>1, <3>2
  <2>5. 0 # None
    BY StoreAssumption
  <2> HIDE DEF r
  <2> QED
    BY <2>2, <2>3, <2>4, <2>5, <2>6 DEF Whole, RecordOf, CopyOf
<1> QED
  BY <1>1, <1>3, <1>6, <1>7, <1>8 DEF IInv

LEMMA StoreStep ==
    ASSUME LockLoss = FALSE, IInv, [Next]_vars
    PROVE  IInv'
<1>1. TypeOK' /\ OneReady'
  BY StoreTypeStep DEF IInv
<1>2. Rest' => IInv'
  BY <1>1 DEF Rest, IInv
<1>3. CASE \E b \in Procs : Fail(b) \/ CopiesGone(b)
  <2>1. PICK b \in Procs : Building(b) /\ Raises(b)
    BY <1>3 DEF Fail, CopiesGone, Building
  <2> QED
    BY <1>1, <1>2, <2>1, RaisesStep
<1>4. CASE UNCHANGED vars
  <2>1. UNCHANGED <<raw, loaded, today, run, next, work, dated, undated, lock, pc, job, mine, source, todo>>
    BY <1>4 DEF vars, sapVars, storeVars, procVars
  <2>2. Grows /\ Recorded'
    BY <2>1 DEF Grows, Recorded, IInv, TypeOK, Copies, Days
  <2>3. \A v \in Versions : Kept(v)
    BY <2>1 DEF Kept, RecordOf
  <2> QED
    BY <1>1, <1>2, <2>1, <2>2, <2>3, Bystanders
<1>5. CASE Midnight \/ StartUp \/ \E t \in Tables : LoadRows(t) \/ RecordLoad(t)
  BY <1>1, <1>2, <1>5, WorldStep, StartUpStep
<1>6. CASE \E m \in Materials : Draft(m) \/ Capture(m) \/ PostPlan(m) \/ Resolve(m) \/ RefreshMaterial(m) \/ RefreshFails(m)
  BY <1>1, <1>2, <1>6, PlanStep
<1>7. ASSUME NEW b \in Procs, Kill(b) \/ Decline(b) \/ \E j \in Jobs : Launch(b, j)
      PROVE  IInv'
  BY <1>1, <1>2, <1>7, IdleStep, KillStep
<1>8. ASSUME NEW b \in Procs,
             \/ Start(b) \/ CopyKinds(b) \/ Swap(b) \/ Cleanup(b) \/ Exit(b) \/ ClearFailed(b)
             \/ \E t \in Tables : CopyTable(b, t)
             \/ CatchUpFails(b) \/ \E m \in Materials : BuildBatch(b, m) \/ CatchUp(b, m)
      PROVE  IInv'
  BY <1>1, <1>2, <1>8, StartStep, CopyKindsStep, SwapStep, CleanupStep, ExitStep, ClearFailedStep,
     CopyTableStep, BuildBatchStep, CatchUpStep
<1>9. ~LoseLock
  BY DEF LoseLock
<1> QED
  BY <1>3, <1>4, <1>5, <1>6, <1>7, <1>8, <1>9 DEF Next, BuildStep

LEMMA StoreInvariant ==
    ASSUME LockLoss = FALSE
    PROVE  Spec => []IInv
<1>1. IInv /\ [Next]_vars => IInv'
  BY StoreStep
<1> QED
  BY <1>1, InitRest, PTL DEF Spec

\* "A version becomes the served one only after its last batch has landed" and
\* nothing takes its records or working copies from it while it is served, as
\* long as no build's lock connection drops (builder.py).
THEOREM ServedWholeHolds ==
    ASSUME LockLoss = FALSE
    PROVE  Spec => []ServedWhole
<1>1. ASSUME IInv PROVE ServedWhole
  <2>1. Served # None => Whole(Served)
    BY <1>1, ServedReady, Parts DEF IInv
  <2> QED
    BY <2>1 DEF ServedWhole, Whole, RecordOf, CopyOf
<1> QED
  BY <1>1, StoreInvariant, PTL

\* An equal fingerprint never hides a stale snapshot: the copies are taken after
\* the fingerprint is read and loads are recorded after they are made, so a
\* version is at least as new as it claims.
THEOREM FreshHolds ==
    ASSUME LockLoss = FALSE
    PROVE  Spec => []Fresh
<1>1. ASSUME IInv PROVE Fresh
  <2> SUFFICES ASSUME Served # None, raw = loaded, run[Served].seen = loaded
               PROVE  work[Served] = raw
      BY DEF Fresh
  <2>1. Served \in Versions /\ Whole(Served)
    BY <1>1, ServedReady, Parts DEF IInv, Ready
  <2>2. work[Served] \in [Tables -> Copies \cup {None}] /\ raw \in [Tables -> Copies]
    BY <1>1, <2>1 DEF IInv, TypeOK
  <2>3. ASSUME NEW t \in Tables PROVE work[Served][t] = raw[t]
    <3>1. work[Served][t] \in Nat /\ raw[t] \in Nat /\ raw[t] <= work[Served][t] /\ work[Served][t] <= raw[t]
      BY <2>1, <2>2, StoreAssumption DEF Whole, CopyOf, Copies
    <3> QED
      BY <3>1
  <2> QED
    BY <2>2, <2>3
<1> QED
  BY <1>1, StoreInvariant, PTL

\* The newest of a set of versions that has only one.
LEMMA OnlyVersion ==
    ASSUME NEW S \in SUBSET Versions, NEW v \in S, \A u \in S : u = v
    PROVE  (CHOOSE x \in S : \A u \in S : u <= x) = v
<1>1. v \in Nat
  BY DEF Versions
<1>2. \E x \in S : \A u \in S : u <= x
  BY <1>1
<1> QED
  BY <1>2

\* A step that retires nothing serves the same version after it.
LEMMA SameServed ==
    ASSUME IInv, OneReady', Served # None, Served \in Ready', run'[Served] = run[Served]
    PROVE  /\ Served' # None /\ run'[Served'].day >= run[Served].day
           /\ \A t \in Tables : run'[Served'].seen[t] >= run[Served].seen[t]
<1> DEFINE v == Served
<1>1. v \in Versions /\ v # None
  BY ServedReady DEF IInv, Ready
<1>2. Ready' \in SUBSET Versions /\ \A u \in Ready' : u = v
  BY DEF OneReady, Ready
<1>3. Served' = v
  <2>1. Served' = CHOOSE x \in Ready' : \A u \in Ready' : u <= x
    BY DEF Served
  <2> QED
    BY <1>2, <2>1, OnlyVersion
<1>4. run[v].day \in Nat /\ \A t \in Tables : run[v].seen[t] \in Nat
  BY <1>1, StoreAssumption DEF IInv, TypeOK, Copies, Days
<1> QED
  BY <1>1, <1>3, <1>4

LEMMA SwapAdvances ==
    ASSUME IInv, Served # None, NEW b \in Procs, Swap(b)
    PROVE  /\ Served' # None /\ run'[Served'].day >= run[Served].day
           /\ \A t \in Tables : run'[Served'].seen[t] >= run[Served].seen[t]
<1> DEFINE n == mine[b]
<1>1. n \in Versions /\ UnderwayOf(b)
  BY Holder DEF Swap, Active, Building
<1>2. Ready' = {n}
  BY SwitchRows, Types DEF Swap, IInv
<1>3. run'[n].seen = run[n].seen /\ run'[n].day = run[n].day
  BY <1>1, RowStatus, Types DEF Swap, Switch, IInv, RunTypes
<1>4. Served \in Ready /\ Served \in Versions
  BY ServedReady DEF IInv, Ready
<1>5. Served' = n
  <2>1. Served' = CHOOSE x \in Ready' : \A u \in Ready' : u <= x
    BY <1>2 DEF Served
  <2> QED
    BY <1>1, <1>2, <2>1, OnlyVersion
<1>6. n # None
  BY <1>1, StoreAssumption DEF Versions
<1>7. /\ run[n].day \in Nat /\ run[Served].day \in Nat
      /\ \A t \in Tables : run[n].seen[t] \in Nat /\ run[Served].seen[t] \in Nat
  BY <1>1, <1>4, StoreAssumption DEF IInv, TypeOK, Copies, Days
<1>8. run[Served].day <= run[n].day /\ \A t \in Tables : run[Served].seen[t] <= run[n].seen[t]
  BY <1>1, <1>4 DEF UnderwayOf
<1> QED
  BY <1>3, <1>5, <1>6, <1>7, <1>8

\* Once something is served something is served for ever, and neither its day nor
\* any table's data goes back: a build holds the lock from before it reads the day
\* and the fingerprint until it has switched.
THEOREM NeverBackHolds ==
    ASSUME LockLoss = FALSE
    PROVE  Spec => NeverBack
<1>1. ASSUME IInv, [Next]_vars, Served # None
      PROVE  /\ Served' # None /\ run'[Served'].day >= run[Served].day
             /\ \A t \in Tables : run'[Served'].seen[t] >= run[Served].seen[t]
  <2>1. OneReady' /\ TypeOK'
    BY <1>1, StoreTypeStep DEF IInv
  <2>2. Served \in Ready /\ Served \in Versions /\ run[Served].status = "ready"
    BY <1>1, ServedReady DEF IInv, Ready
  <2>a. (Served \in Ready' /\ run'[Served] = run[Served]) =>
          /\ Served' # None /\ run'[Served'].day >= run[Served].day
          /\ \A t \in Tables : run'[Served'].seen[t] >= run[Served].seen[t]
    BY <1>1, <2>1, SameServed
  <2>3. CASE UNCHANGED run
    BY <2>2, <2>3, <2>a DEF Ready
  <2>4. ASSUME NEW b \in Procs, Start(b)
        PROVE  Served \in Ready' /\ run'[Served] = run[Served]
    <3>1. next \in Versions /\ Ready' = Ready \ {next} /\ \A v \in Versions : v # next => run'[v] = run[v]
      BY <1>1, <2>4, StartRows DEF IInv
    <3>2. Served # next
      BY <1>1, <2>2, <3>1, StoreAssumption DEF IInv, NewVersions, Versions
    <3> QED
      BY <2>2, <3>1, <3>2
  <2>5. ASSUME NEW b \in Procs, Fail(b) \/ CopiesGone(b)
        PROVE  Served \in Ready' /\ run'[Served] = run[Served]
    <3>1. Building(b) /\ Raises(b)
      BY <2>5 DEF Fail, CopiesGone, Building
    <3>2. Served # mine[b]
      BY <1>1, <2>2, <3>1, Holder DEF Active, Building
    <3> QED
      BY <1>1, <2>2, <3>1, <3>2, RaisesRows, Types DEF IInv
  <2>6. ASSUME StartUp PROVE Served \in Ready' /\ run'[Served] = run[Served]
    BY <1>1, <2>2, <2>6, StartUpRows, Types DEF IInv
  <2>7. ASSUME NEW b \in Procs, Swap(b)
        PROVE  /\ Served' # None /\ run'[Served'].day >= run[Served].day
               /\ \A t \in Tables : run'[Served'].seen[t] >= run[Served].seen[t]
    BY <1>1, <2>7, SwapAdvances
  <2>8. \/ UNCHANGED run \/ StartUp
        \/ \E b \in Procs : Start(b) \/ Swap(b) \/ Fail(b) \/ CopiesGone(b)
    BY <1>1 DEF Next, BuildStep, vars, storeVars, Midnight, LoseLock, LoadRows, RecordLoad, Draft, Capture, PostPlan,
       Resolve, RefreshMaterial, RefreshFails, CatchUpFails, Launch, Decline, CopyKinds, Cleanup, Exit, ClearFailed, CopyTable, BuildBatch, CatchUp, Kill
  <2> QED
    BY <2>3, <2>4, <2>5, <2>6, <2>7, <2>8, <2>a
<1>2. IInv /\ [Next]_vars => [Served # None =>
         /\ Served' # None
         /\ run'[Served'].day >= run[Served].day
         /\ \A t \in Tables : run'[Served'].seen[t] >= run[Served].seen[t]]_vars
  BY <1>1
<1> QED
  BY <1>2, StoreInvariant, PTL DEF Spec, NeverBack

----------------------------------------------------------------------------
(* Captured plans.                                                           *)

\* A process has the plans committed before it started in the batches it built.
KnownHeld(b) ==
    /\ known[b].committed \subseteq captured
    /\ \A m \in known[b].committed \ todo[b] : HasPlan(mine[b], m)
KnownPlans == \A b \in Procs : Building(b) => KnownHeld(b)

\* A captured plan is about to be refreshed into what is served, or is in it, or
\* will be caught up with; if not, it is missed.
Held(m) == refresh[m] \in {Due, Served} \/ HasPlan(Served, m) \/ \E b \in Procs : m \in ToCome(b)
PlansHeld == Served # None => \A m \in captured \ missed : Held(m)

PInv == KnownPlans /\ PlansHeld

LEMMA WithPlanHas ==
    ASSUME TypeOK, NEW v \in Versions, NEW m \in Materials, dated' = WithPlan(v, m)
    PROVE  /\ HasIn(dated', v, m)
           /\ \A u \in Versions, k \in Materials : HasPlan(u, k) => HasIn(dated', u, k)
<1>1. PICK r : r = [day |-> run[v].day, plan |-> TRUE]
  OBVIOUS
<1>2. run[v] \in Row /\ dated \in [Versions -> [Materials -> Record \cup {None}]]
  BY Types DEF RunTypes, DataTypes
<1>3. r # None /\ r.plan
  <2>1. run[v].day \in Nat
    BY <1>2, StoreAssumption DEF Row, Days
  <2>2. r \in [day : Nat, plan : BOOLEAN]
    BY <1>1, <2>1
  <2> QED
    BY <1>1, <2>2, StoreAssumption
<1>4. \A u \in Versions, k \in Materials : dated'[u][k] = IF u = v /\ k = m THEN r ELSE dated[u][k]
  BY <1>1, <1>2 DEF WithPlan
<1> QED
  BY <1>3, <1>4 DEF HasIn, HasPlan

\* What a step that serves the same version must leave for the plans to be held.
LEMMA PlansKept ==
    ASSUME KnownPlans, PlansHeld, Served' = Served,
           \A b \in Procs : Building(b)' =>
              \/ KnownHeld(b)'
              \/ /\ Building(b) /\ todo'[b] = todo[b] /\ mine'[b] = mine[b] /\ known'[b] = known[b]
                 /\ captured \subseteq captured'
                 /\ \A m \in known[b].committed : HasPlan(mine[b], m) => HasIn(dated', mine[b], m),
           \A m \in captured' \ missed' : Served # None => Held(m)'
    PROVE  KnownPlans' /\ PlansHeld'
<1>1. KnownPlans'
  BY DEF KnownPlans, KnownHeld, HasPlan
<1> QED
  BY <1>1 DEF PlansHeld

LEMMA SameReady == ASSUME Ready' = Ready PROVE Served' = Served
BY DEF Served

\* Steps that leave the records and the rows of every version.
LEMMA PlansIdle ==
    ASSUME IInv, PInv, UNCHANGED <<run, dated, mine, known, captured, refresh>>, missed \subseteq missed',
           \A b \in Procs :
              /\ Building(b)' => Building(b) /\ todo'[b] = todo[b]
              /\ \A m \in Materials \ missed' : m \in ToCome(b) => m \in ToCome(b)'
    PROVE  KnownPlans' /\ PlansHeld'
<1>1. Served' = Served
  BY SameReady DEF Ready
<1>2. captured \subseteq Materials
  BY DEF IInv, TypeOK
<1>3. ASSUME NEW m \in captured' \ missed', Served # None PROVE Held(m)'
  BY <1>1, <1>2, <1>3 DEF PInv, PlansHeld, Held, HasPlan
<1> QED
  BY <1>1, <1>3, PlansKept DEF PInv, HasPlan

LEMMA PlansAround ==
    ASSUME IInv, PInv,
           \/ Midnight \/ UNCHANGED vars \/ \E t \in Tables : LoadRows(t) \/ RecordLoad(t)
           \/ \E m \in Materials : Draft(m)
           \/ \E b \in Procs : \/ Decline(b) \/ Exit(b) \/ CopyKinds(b) \/ Kill(b) \/ CatchUpFails(b)
                               \/ \E j \in Jobs : Launch(b, j)
                               \/ \E t \in Tables : CopyTable(b, t)
    PROVE  KnownPlans' /\ PlansHeld'
<1>1. UNCHANGED <<run, dated, mine, known, captured, refresh>> /\ missed \subseteq missed'
  BY DEF Midnight, vars, sapVars, storeVars, procVars, LoadRows, RecordLoad, Draft, Decline, Exit, CopyKinds,
     Kill, CatchUpFails, Launch, CopyTable
<1>2. CASE UNCHANGED <<pc, job, todo>>
  BY <1>1, <1>2, PlansIdle DEF Building, ToCome, ToCatchUp
<1>3. CASE \/ Midnight \/ UNCHANGED vars \/ \E t \in Tables : LoadRows(t) \/ RecordLoad(t)
           \/ \E m \in Materials : Draft(m)
  BY <1>2, <1>3 DEF Midnight, vars, procVars, LoadRows, RecordLoad, Draft
<1>4. ASSUME NEW b \in Procs,
             \/ Decline(b) \/ Exit(b) \/ CopyKinds(b)
             \/ (\E j \in Jobs : Launch(b, j)) \/ (\E t \in Tables : CopyTable(b, t))
      PROVE  KnownPlans' /\ PlansHeld'
  <2>1. /\ todo' = todo /\ \A c \in Procs \ {b} : pc'[c] = pc[c] /\ job'[c] = job[c]
        /\ pc'[b] \in {"idle", "launched", "copying", "building", "copied"}
        /\ Building(b)' => Building(b)
        /\ pc[b] # "swapped" /\ (pc[b] = "cleaned" => todo[b] = {})
    BY <1>4 DEF Decline, Exit, CopyKinds, Launch, CopyTable, Building, IInv, TypeOK
  <2>2. ASSUME NEW c \in Procs, NEW m \in Materials, m \in ToCome(c) PROVE m \in ToCome(c)'
    BY <1>1, <2>1, <2>2 DEF ToCome, ToCatchUp
  <2> QED
    BY <1>1, <2>1, <2>2, PlansIdle DEF Building
<1>5. ASSUME NEW b \in Procs, Kill(b)
      PROVE  KnownPlans' /\ PlansHeld'
  <2>1. /\ pc'[b] = "idle" /\ \A c \in Procs \ {b} : pc'[c] = pc[c] /\ todo'[c] = todo[c]
        /\ job' = job /\ ToCome(b) \subseteq missed'
    BY <1>5 DEF Kill, IInv, TypeOK
  <2>2. ASSUME NEW c \in Procs, NEW m \in Materials \ missed', m \in ToCome(c) PROVE m \in ToCome(c)'
    BY <1>1, <2>1, <2>2 DEF ToCome, ToCatchUp
  <2> QED
    BY <1>1, <2>1, <2>2, PlansIdle DEF Building
<1>6. ASSUME NEW b \in Procs, CatchUpFails(b)
      PROVE  KnownPlans' /\ PlansHeld'
  <2>1. /\ pc' = pc /\ job' = job /\ pc[b] = "cleaned"
        /\ \A c \in Procs \ {b} : todo'[c] = todo[c]
        /\ todo[b] \subseteq todo'[b] \cup missed'
    BY <1>6 DEF CatchUpFails, IInv, TypeOK
  <2>2. ASSUME NEW c \in Procs, NEW m \in Materials \ missed', m \in ToCome(c) PROVE m \in ToCome(c)'
    BY <1>1, <2>1, <2>2 DEF ToCome, ToCatchUp
  <2> QED
    BY <1>1, <2>1, <2>2, PlansIdle DEF Building
<1> QED
  BY <1>3, <1>4, <1>5, <1>6

\* A capture is due its refresh, a refresh that resolves resolves what is served,
\* one that writes writes the plan, and one that fails misses it, as does a plan
\* posted directly.
LEMMA PlansCaptured ==
    ASSUME IInv, PInv, NEW m \in Materials,
           Capture(m) \/ PostPlan(m) \/ Resolve(m) \/ RefreshMaterial(m) \/ RefreshFails(m)
    PROVE  KnownPlans' /\ PlansHeld'
<1>1. UNCHANGED <<run, mine, known, pc, job, todo>>
  BY DEF Capture, PostPlan, Resolve, RefreshMaterial, RefreshFails, storeVars, procVars
<1>2. Served' = Served
  BY <1>1, SameReady DEF Ready
<1>3. /\ captured \subseteq Materials /\ refresh \in [Materials -> Versions \cup {Due, None}]
      /\ \A b \in Procs : mine[b] \in Versions
  BY DEF IInv, TypeOK
<1>4. Served # None => Served \in Versions
  BY ServedReady DEF IInv, Ready
<1>5. \A u \in Versions, k \in Materials : HasPlan(u, k) => HasIn(dated', u, k)
  <2>1. CASE dated' = dated
    BY <2>1 DEF HasPlan
  <2>2. CASE RefreshMaterial(m)
    BY <2>2, WithPlanHas DEF RefreshMaterial, IInv
  <2> QED
    BY <2>1, <2>2 DEF Capture, PostPlan, Resolve, RefreshFails, storeVars
<1>6. /\ captured' \subseteq captured \cup {m} /\ captured \subseteq captured'
      /\ missed \subseteq missed' \cup {m}
  BY DEF Capture, PostPlan, Resolve, RefreshMaterial, RefreshFails, sapVars
<1>7. \A b \in Procs : ToCome(b) \subseteq ToCome(b)'
  BY <1>1, <1>6 DEF ToCome, ToCatchUp
<1>8. ASSUME NEW k \in captured' \ missed', Served # None PROVE Held(k)'
  <2>1. CASE k # m
    <3>1. k \in captured \ missed /\ Held(k) /\ k \in Materials
      BY <1>3, <1>6, <1>8, <2>1 DEF PInv, PlansHeld
    <3>2. refresh'[k] = refresh[k]
      BY <1>3, <2>1, <3>1 DEF Capture, PostPlan, Resolve, RefreshMaterial, RefreshFails
    <3> QED
      <4>1. CASE refresh[k] \in {Due, Served}
        BY <1>2, <3>2, <4>1 DEF Held
      <4>2. CASE HasPlan(Served, k)
        BY <1>2, <1>4, <1>5, <1>8, <3>1, <4>2 DEF Held, HasPlan
      <4>3. CASE \E b \in Procs : k \in ToCome(b)
        BY <1>7, <4>3 DEF Held
      <4> QED
        BY <3>1, <4>1, <4>2, <4>3 DEF Held
  <2>2. CASE k = m /\ (Capture(m) \/ Resolve(m))
    BY <1>2, <1>3, <2>2 DEF Held, Capture, Resolve
  <2>3. CASE k = m /\ RefreshMaterial(m)
    <3>1. CASE refresh[m] = Served
      <4>1. refresh[m] \in Versions /\ dated' = WithPlan(refresh[m], m)
        BY <2>3 DEF RefreshMaterial
      <4>2. HasIn(dated', Served, m)
        BY <3>1, <4>1, WithPlanHas DEF IInv
      <4> QED
        BY <1>2, <2>3, <4>2 DEF Held, HasPlan
    <3>2. CASE refresh[m] # Served
      <4>1. refresh[m] # Due /\ m \in captured \ missed
        BY <2>3, <1>8, <3>2 DEF RefreshMaterial, sapVars, Due, Versions
      <4>2. HasPlan(Served, m) \/ \E b \in Procs : m \in ToCome(b)
        BY <1>8, <3>2, <4>1 DEF PInv, PlansHeld, Held
      <4>3. CASE HasPlan(Served, m)
        BY <1>2, <1>4, <1>5, <1>8, <2>3, <4>3 DEF Held, HasPlan
      <4>4. CASE \E b \in Procs : m \in ToCome(b)
        BY <1>7, <2>3, <4>4 DEF Held
      <4> QED
        BY <4>2, <4>3, <4>4
    <3> QED
      BY <3>1, <3>2
  <2>4. CASE PostPlan(m) \/ RefreshFails(m)
    BY <1>8, <2>1, <2>4 DEF PostPlan, RefreshFails
  <2> QED
    BY <2>1, <2>2, <2>3, <2>4
<1>9. ASSUME NEW b \in Procs, Building(b)'
      PROVE  /\ Building(b) /\ todo'[b] = todo[b] /\ mine'[b] = mine[b] /\ known'[b] = known[b]
             /\ \A k \in known[b].committed : HasPlan(mine[b], k) => HasIn(dated', mine[b], k)
  <2>1. Building(b) /\ known[b].committed \subseteq Materials
    BY <1>1, <1>9 DEF Building, IInv, TypeOK
  <2> QED
    BY <1>1, <1>3, <1>5, <2>1
<1> QED
  BY <1>2, <1>6, <1>8, <1>9, PlansKept DEF PInv

\* Only a holder of the lock is at work.
LEMMA PlansHolder ==
    ASSUME IInv, PInv, NEW b \in Procs, Active(b)
    PROVE  /\ \A c \in Procs \ {b} : ~Active(c) /\ ~Building(c) /\ ToCome(c) = {}
           /\ pc[b] \notin {"swapped", "cleaned"} => ToCome(b) = {}
           /\ mine[b] \in Versions
           /\ Building(b) => mine[b] \notin Ready
           /\ pc[b] \in {"swapped", "cleaned"} => Served = mine[b] /\ Served # None
           /\ pc[b] = "failed" => mine[b] \notin Ready
<1>1. /\ mine[b] \in Versions /\ PhaseOf(b) /\ \A c \in Procs \ {b} : ~Active(c)
      /\ Building(b) => mine[b] \notin Ready
  BY Holder
<1>2. pc[b] \in {"swapped", "cleaned"} => Served = mine[b] /\ Served # None
  BY <1>1, ServedReady DEF IInv, PhaseOf, Ready
<1>3. pc[b] = "failed" => mine[b] \notin Ready
  BY <1>1 DEF PhaseOf, Ready
<1> QED
  BY <1>1, <1>2, <1>3 DEF Active, Building, ToCome

\* A step of the process at work that leaves what is served its plans, and
\* catches up with what it leaves behind.
LEMMA PlansAtWork ==
    ASSUME IInv, PInv, NEW b \in Procs,
           \A c \in Procs \ {b} : ~Building(c) /\ pc'[c] = pc[c] /\ ToCome(c) = {},
           Served' = Served, captured' = captured, refresh' = refresh,
           Served # None => \A m \in Materials : HasPlan(Served, m) => HasIn(dated', Served, m),
           Served # None => \A m \in captured \ missed' : m \notin missed \/ HasIn(dated', Served, m),
           Served # None => \A m \in captured : m \in ToCome(b) => m \in ToCome(b)' \/ HasIn(dated', Served, m),
           Building(b)' => KnownHeld(b)'
    PROVE  KnownPlans' /\ PlansHeld'
<1>1. \A c \in Procs : Building(c)' => KnownHeld(c)'
  BY DEF Building
<1>2. captured \subseteq Materials
  BY DEF IInv, TypeOK
<1>3. ASSUME NEW m \in captured' \ missed', Served # None PROVE Held(m)'
  <2>0. CASE HasIn(dated', Served, m)
    BY <2>0 DEF Held, HasPlan
  <2> SUFFICES ASSUME ~HasIn(dated', Served, m) PROVE Held(m)'
    BY <2>0
  <2>1. Held(m) /\ m \in Materials /\ m \in captured
    BY <1>2, <1>3 DEF PInv, PlansHeld
  <2>2. CASE refresh[m] \in {Due, Served}
    BY <2>2 DEF Held
  <2>3. CASE HasPlan(Served, m)
    BY <1>3, <2>1, <2>3 DEF Held, HasPlan
  <2>4. CASE \E c \in Procs : m \in ToCome(c)
    <3>1. m \in ToCome(b)
      BY <2>4
    <3> QED
      BY <1>3, <2>1, <3>1 DEF Held, HasPlan
  <2> QED
    BY <2>1, <2>2, <2>3, <2>4 DEF Held
<1> QED
  BY <1>1, <1>3, PlansKept DEF PInv

LEMMA PlansStart ==
    ASSUME IInv, PInv, NEW b \in Procs, Start(b)
    PROVE  KnownPlans' /\ PlansHeld'
<1>1. /\ \A c \in Procs \ {b} : ~Active(c) /\ pc'[c] = pc[c]
      /\ ~Active(b)
  <2>1. lock = None /\ pc[b] = "launched"
    BY DEF Start, Declines
  <2>2. \A c \in Procs \ {b} : ~Active(c)
    BY <2>1, Alone DEF IInv
  <2> QED
    BY <2>1, <2>2 DEF Start, IInv, TypeOK, Active
<1>2. \A c \in Procs : ~Building(c) /\ ToCome(c) = {}
  BY <1>1 DEF Active, Building, ToCome
<1>3. Served' = Served
  <2>1. next \in Versions /\ Ready' = Ready \ {next}
    BY StartRows DEF IInv
  <2>2. next \notin Ready
    BY <2>1, StoreAssumption DEF IInv, NewVersions, Ready, Versions
  <2>3. Ready' = Ready
    BY <2>1, <2>2
  <2> QED
    BY <2>3, SameReady
<1>4. UNCHANGED <<captured, refresh, missed, dated>> /\ known'[b].committed = captured /\ todo'[b] = Materials
  BY DEF Start, sapVars, IInv, TypeOK
<1>5. KnownHeld(b)'
  BY <1>4 DEF KnownHeld, IInv, TypeOK
<1> QED
  BY <1>1, <1>2, <1>3, <1>4, <1>5, PlansAtWork DEF HasPlan

LEMMA PlansBuilt ==
    ASSUME IInv, PInv, NEW b \in Procs, NEW m \in Materials, BuildBatch(b, m)
    PROVE  KnownPlans' /\ PlansHeld'
<1>1. /\ \A c \in Procs \ {b} : ~Building(c) /\ ToCome(c) = {}
      /\ mine[b] \in Versions /\ mine[b] \notin Ready /\ pc[b] = "building"
      /\ ToCome(b) = {}
  BY PlansHolder DEF BuildBatch, Active, Building
<1>2. UNCHANGED <<run, captured, refresh, missed, pc, mine, known>> /\ todo'[b] = todo[b] \ {m}
  BY DEF BuildBatch, sapVars, IInv, TypeOK
<1>3. Served' = Served
  BY <1>2, SameReady DEF Ready
<1>4. PICK r : r = [day |-> run[mine[b]].day, plan |-> m \in captured]
  OBVIOUS
<1>5. r # None /\ (m \in captured => r.plan)
  <2>1. run[mine[b]].day \in Nat
    BY <1>1, Types, StoreAssumption DEF IInv, RunTypes, Row, Days
  <2>2. r \in [day : Nat, plan : BOOLEAN]
    BY <1>4, <2>1
  <2>3. m \in captured => r.plan
    BY <1>4
  <2> QED
    BY <2>2, <2>3, StoreAssumption
<1>6. \A u \in Versions, k \in Materials :
        dated'[u][k] = IF u = mine[b] /\ k = m THEN r ELSE dated[u][k]
  <2>1. dated' = [dated EXCEPT ![mine[b]][m] = r]
    BY <1>4 DEF BuildBatch
  <2> QED
    BY <2>1 DEF IInv, TypeOK
<1>7. Served # None => Served \in Versions /\ Served # mine[b]
  BY <1>1, ServedReady DEF IInv, Ready
<1>8. Served # None => \A k \in Materials : HasPlan(Served, k) => HasIn(dated', Served, k)
  BY <1>6, <1>7 DEF HasPlan, HasIn
<1>9. KnownHeld(b)'
  <2>1. KnownHeld(b) /\ known[b].committed \subseteq Materials
    BY <1>1 DEF PInv, KnownPlans, Building, IInv, TypeOK
  <2>2. ASSUME NEW k \in known[b].committed \ todo'[b] PROVE HasIn(dated', mine[b], k)
    <3>1. CASE k = m
      BY <1>1, <1>5, <1>6, <2>1, <3>1 DEF HasIn, KnownHeld
    <3>2. CASE k # m
      <4>1. HasPlan(mine[b], k) /\ k \in Materials
        BY <1>2, <2>1, <2>2, <3>2 DEF KnownHeld
      <4> QED
        BY <1>1, <1>6, <3>2, <4>1 DEF HasIn, HasPlan
    <3> QED
      BY <3>1, <3>2
  <2> QED
    BY <1>2, <2>1, <2>2 DEF KnownHeld, HasPlan
<1> QED
  BY <1>1, <1>2, <1>3, <1>8, <1>9, PlansAtWork

\* The new version has the plans committed before its process started; of the
\* others, what it leaves out is missed and the rest come.
LEMMA PlansSwapped ==
    ASSUME IInv, PInv, NEW b \in Procs, Swap(b)
    PROVE  KnownPlans' /\ PlansHeld'
<1>1. /\ \A c \in Procs \ {b} : ~Building(c)
      /\ mine[b] \in Versions /\ pc[b] \in {"building", "copied"}
  BY PlansHolder DEF Swap, Active
<1>2. /\ todo[b] = {} /\ pc'[b] = "swapped"
      /\ \A c \in Procs \ {b} : pc'[c] = pc[c]
      /\ UNCHANGED <<dated, captured, refresh, mine, known, job>>
      /\ missed' = LeftOut(b) /\ job[b] \in Jobs /\ captured \subseteq Materials
  BY <1>1 DEF Swap, sapVars, IInv, TypeOK
<1>3. KnownHeld(b)
  BY <1>1 DEF PInv, KnownPlans, Building
<1>4. Served' = mine[b]
  <2>1. Ready' = {mine[b]}
    BY SwitchRows, Types DEF Swap, IInv
  <2>2. Served' = CHOOSE x \in Ready' : \A u \in Ready' : u <= x
    BY <2>1 DEF Served
  <2> QED
    BY <1>1, <2>1, <2>2, OnlyVersion
<1>5. ASSUME NEW m \in captured' \ missed' PROVE Held(m)'
  <2>1. CASE HasPlan(mine[b], m)
    BY <1>2, <1>4, <2>1 DEF Held, HasPlan
  <2>2. CASE m \in known[b].committed
    BY <1>2, <1>3, <2>1, <2>2 DEF KnownHeld
  <2>3. CASE refresh[m] = Due
    BY <1>2, <2>3 DEF Held
  <2>4. CASE job[b] = "reage" /\ m \notin known[b].stamped
    <3>1. m \in captured \ known[b].stamped /\ m \in Materials
      BY <1>2, <1>5, <2>4
    <3>2. ToCatchUp(b)' = captured \ known[b].stamped
      BY <1>2, <2>4 DEF ToCatchUp
    <3>3. pc'[b] = "swapped"
      BY <1>2
    <3>4. m \in ToCome(b)'
      BY <3>1, <3>2, <3>3 DEF ToCome
    <3> QED
      BY <3>4 DEF Held
  <2> QED
    BY <1>2, <1>5, <2>1, <2>2, <2>3, <2>4 DEF LeftOut, Jobs
<1>6. \A c \in Procs : ~Building(c)'
  BY <1>1, <1>2 DEF Building
<1> QED
  BY <1>5, <1>6 DEF KnownPlans, PlansHeld

LEMMA ClearedPlans ==
    ASSUME NEW vs, Cleared(vs), NEW v \in Versions, v \notin vs, NEW m
    PROVE  HasPlan(v, m) => HasIn(dated', v, m)
BY DEF Cleared, HasPlan, HasIn

LEMMA PlansCleaned ==
    ASSUME IInv, PInv, NEW b \in Procs, Cleanup(b)
    PROVE  KnownPlans' /\ PlansHeld'
<1>1. /\ \A c \in Procs \ {b} : ~Building(c) /\ ToCome(c) = {}
      /\ mine[b] \in Versions /\ Served = mine[b]
  BY PlansHolder DEF Cleanup, Active
<1>2. /\ pc[b] = "swapped" /\ pc'[b] = "cleaned" /\ \A c \in Procs \ {b} : pc'[c] = pc[c]
      /\ UNCHANGED <<run, captured, refresh, missed, mine, known, job>>
      /\ todo'[b] = ToCatchUp(b)
      /\ Cleared(Versions \ {mine[b]})
  BY <1>1 DEF Cleanup, sapVars, IInv, TypeOK
<1>3. Served' = Served
  BY <1>2, SameReady DEF Ready
<1>4. \A m \in Materials : HasPlan(Served, m) => HasIn(dated', Served, m)
  BY <1>1, <1>2, ClearedPlans
<1>5. \A m \in captured : m \in ToCome(b) => m \in ToCome(b)'
  BY <1>2 DEF ToCome
<1>6. ~Building(b)'
  BY <1>2 DEF Building
<1> QED
  BY <1>1, <1>2, <1>3, <1>4, <1>5, <1>6, PlansAtWork

LEMMA PlansCaughtUp ==
    ASSUME IInv, PInv, NEW b \in Procs, NEW m \in Materials, CatchUp(b, m)
    PROVE  KnownPlans' /\ PlansHeld'
<1>1. /\ \A c \in Procs \ {b} : ~Building(c) /\ ToCome(c) = {}
      /\ Served \in Versions /\ Served # None
  BY PlansHolder DEF CatchUp, Active
<1>2. /\ pc[b] = "cleaned" /\ todo'[b] = todo[b] \ {m} /\ missed' = missed \ {m}
      /\ UNCHANGED <<run, captured, refresh, mine, known, job, pc>>
      /\ dated' = WithPlan(Served, m)
  BY <1>1 DEF CatchUp, sapVars, IInv, TypeOK
<1>3. Served' = Served
  BY <1>2, SameReady DEF Ready
<1>4. HasIn(dated', Served, m) /\ \A k \in Materials : HasPlan(Served, k) => HasIn(dated', Served, k)
  BY <1>1, <1>2, WithPlanHas DEF IInv
<1>5. \A k \in captured : k \in ToCome(b) => k \in ToCome(b)' \/ HasIn(dated', Served, k)
  BY <1>2, <1>4 DEF ToCome
<1>6. \A k \in captured \ missed' : k \notin missed \/ HasIn(dated', Served, k)
  BY <1>2, <1>4
<1>7. ~Building(b)'
  BY <1>2 DEF Building
<1> QED
  BY <1>1, <1>2, <1>3, <1>4, <1>5, <1>6, <1>7, PlansAtWork

LEMMA PlansRaised ==
    ASSUME IInv, PInv, NEW b \in Procs, Fail(b) \/ CopiesGone(b)
    PROVE  KnownPlans' /\ PlansHeld'
<1>1. Building(b) /\ Raises(b)
  BY DEF Fail, CopiesGone, Building
<1>2. /\ \A c \in Procs \ {b} : ~Building(c) /\ ToCome(c) = {}
      /\ mine[b] \notin Ready /\ ToCome(b) = {}
  BY <1>1, PlansHolder DEF Active, Building
<1>3. /\ pc'[b] = "failed" /\ \A c \in Procs \ {b} : pc'[c] = pc[c]
      /\ UNCHANGED <<captured, refresh, missed, dated>>
  BY <1>1 DEF Raises, sapVars, IInv, TypeOK
<1>4. Served' = Served
  <2>1. Ready' = Ready \ {mine[b]}
    BY <1>1, RaisesRows, Types DEF IInv
  <2>2. Ready' = Ready
    BY <1>2, <2>1
  <2> QED
    BY <2>2, SameReady
<1>5. ~Building(b)'
  BY <1>3 DEF Building
<1> QED
  BY <1>2, <1>3, <1>4, <1>5, PlansAtWork DEF HasPlan

LEMMA PlansFailed ==
    ASSUME IInv, PInv, NEW b \in Procs, ClearFailed(b)
    PROVE  KnownPlans' /\ PlansHeld'
<1>1. /\ \A c \in Procs \ {b} : ~Building(c) /\ ToCome(c) = {}
      /\ mine[b] \notin Ready /\ ToCome(b) = {}
  BY PlansHolder DEF ClearFailed, Active
<1>2. /\ pc'[b] = "idle" /\ \A c \in Procs \ {b} : pc'[c] = pc[c]
      /\ UNCHANGED <<run, captured, refresh, missed>> /\ Cleared({mine[b]})
  BY DEF ClearFailed, sapVars, IInv, TypeOK
<1>3. Served' = Served
  BY <1>2, SameReady DEF Ready
<1>4. Served # None => Served \in Versions /\ Served # mine[b]
  BY <1>1, ServedReady DEF IInv, Ready
<1>5. Served # None => \A m \in Materials : HasPlan(Served, m) => HasIn(dated', Served, m)
  BY <1>2, <1>4, ClearedPlans
<1>6. ~Building(b)'
  BY <1>2 DEF Building
<1> QED
  BY <1>1, <1>2, <1>3, <1>5, <1>6, PlansAtWork

LEMMA PlansStartUp ==
    ASSUME IInv, PInv, StartUp
    PROVE  KnownPlans' /\ PlansHeld'
<1>1. \A c \in Procs : ~Active(c)
  BY StoreAssumption DEF StartUp, IInv, LockHeld
<1>2. \A c \in Procs : ~Building(c) /\ ~Building(c)' /\ ToCome(c) = {}
  BY <1>1 DEF StartUp, procVars, Active, Building, ToCome
<1>3. PICK vs : vs = {v \in Versions : run[v].status = "building"}
  OBVIOUS
<1>4. Cleared(vs) /\ UNCHANGED <<captured, refresh, missed>>
  BY <1>3 DEF StartUp, sapVars
<1>5. Served' = Served
  BY StartUpRows, SameReady, Types DEF IInv
<1>6. ASSUME NEW m \in captured' \ missed', Served # None PROVE Held(m)'
  <2>1. m \in captured /\ Held(m)
    BY <1>4, <1>6 DEF PInv, PlansHeld
  <2>2. Served \in Versions /\ Served \notin vs
    BY <1>3, <1>6, ServedReady DEF IInv, Ready
  <2>3. HasPlan(Served, m) => HasIn(dated', Served, m)
    BY <1>4, <2>2, ClearedPlans
  <2> QED
    BY <1>2, <1>4, <1>5, <2>1, <2>3 DEF Held, HasPlan
<1> QED
  BY <1>2, <1>5, <1>6, PlansKept DEF PInv

LEMMA PlansStep ==
    ASSUME LockLoss = FALSE, IInv, PInv, [Next]_vars
    PROVE  PInv'
<1>1. ~LoseLock
  BY DEF LoseLock
<1>2. KnownPlans' /\ PlansHeld'
  BY <1>1, PlansAround, PlansCaptured, PlansStart, PlansBuilt, PlansSwapped, PlansCleaned,
     PlansCaughtUp, PlansRaised, PlansFailed, PlansStartUp DEF Next, BuildStep
<1> QED
  BY <1>2 DEF PInv

\* Once nothing runs, every captured plan is in what is served, but for those the
\* code can lose: it was posted with no refresh, its refresh or its catch-up
\* failed, its process was killed before it had caught up, or a build, or a re-age
\* begun after the plan was stamped, swapped after the refresh had gone into the
\* version it retired.  Nothing else loses one: no load, failed or killed build, start-up, or refresh
\* that writes into a retired version, as long as no lock connection drops
\* (builder._catch_up, refresh.refresh_material).
THEOREM PlansServedHolds ==
    ASSUME LockLoss = FALSE
    PROVE  Spec => []PlansServed
<1>1. Init => PInv
  BY DEF Init, PInv, KnownPlans, Building, PlansHeld
<1>2. IInv /\ PInv /\ [Next]_vars => PInv'
  BY PlansStep
<1>3. ASSUME IInv, PInv PROVE PlansServed
  <2> SUFFICES ASSUME Quiet, NEW m \in captured \ missed
               PROVE  HasPlan(Served, m)
    BY DEF PlansServed
  <2>1. Held(m) /\ m \in Materials
    BY <1>3 DEF Quiet, PInv, PlansHeld, IInv, TypeOK
  <2>2. refresh[m] \notin {Due, Served}
    BY <2>1, StoreAssumption DEF Quiet, Due
  <2> QED
    BY <2>1, <2>2 DEF Quiet, Held, ToCome
<1> QED
  BY <1>1, <1>2, <1>3, StoreInvariant, PTL DEF Spec
=============================================================================
