-------------------------- MODULE FullRefresh_proofs --------------------------
(* Proofs about the daily full refresh beside the delta, for every family of *)
(* tables and every bound.                                                   *)
EXTENDS FullRefresh, SequenceTheorems, TLAPS

\* The events behind an extract, and none dated after its day, or before it and missing.
Whole(x) ==
    /\ x.day <= today
    /\ \A e \in x.rows : e \in Posted /\ stamp[e] <= x.day
    /\ \A e \in Posted : stamp[e] < x.day => e \in x.rows

\* Nothing is dated or marked ahead of SAP's calendar.
OnTime == mark <= today /\ \A e \in Posted : stamp[e] <= today

\* Every extract that waits is of one moment.
ExtractsWhole == \A t \in Tables : \A i \in 1..Len(landed[t]) : Whole(landed[t][i])

\* A table holds every change older than the extract it was replaced from.
Replaced ==
    \A t \in Tables :
        /\ taken[t] <= today
        /\ \A e \in Posted : stamp[e] < taken[t] => e \in raw[t]

\* What the delta in flight has read and merged is all that lies below the mark
\* it would set.
Covers ==
    delta.step = "merge" =>
        /\ delta.rows \subseteq Posted
        /\ delta.candidate # NoDay =>
            /\ delta.candidate <= today
            /\ \A t \in Tables \ loose : \A e \in Posted :
                stamp[e] < delta.candidate => e \in raw[t] \/ (t \in delta.todo /\ e \in delta.rows)

\* The table being loaded has the rows of its extract, which is still there.
Loading ==
    at.step # "none" =>
        /\ phase = "load" /\ landed[at.table] # <<>> /\ at.table \in todo
        /\ at.step = "seed" => at.table = Owner /\ Extract(Owner).rows \subseteq raw[Owner]

IInv == TypeOK /\ OnTime /\ ExtractsWhole /\ Replaced /\ Covers /\ Loading /\ NoGap
----------------------------------------------------------------------------
(* Types. *)

Extracts == [rows : SUBSET Events, day : 0..MaxDay]

\* The extract about to be loaded is one of those that wait.
LEMMA ExtractFacts ==
    ASSUME TypeOK, NEW t \in Tables, landed[t] # <<>>
    PROVE  /\ Len(landed[t]) \in 1..Len(landed[t]) /\ Extract(t) = landed[t][Len(landed[t])]
           /\ Extract(t) \in Extracts
<1>1. landed[t] \in Seq(Extracts)
  BY DEF TypeOK, Extracts
<1>2. Len(landed[t]) \in Nat /\ Len(landed[t]) # 0
  BY <1>1, EmptySeq, LenProperties
<1> QED
  BY <1>1, <1>2, ElementOfSeq DEF Extract

\* Events are numbered in the order they happen.
LEMMA PostFacts ==
    ASSUME TypeOK, Post
    PROVE  /\ stamp' \in Seq(0..MaxDay) /\ Len(stamp') = Len(stamp) + 1 /\ Len(stamp') <= MaxPosted
           /\ \A e \in Posted : stamp'[e] = stamp[e]
           /\ \A e \in Posted' : e \in Posted \/ stamp'[e] = today
           /\ Posted \subseteq Posted'
<1>1. stamp \in Seq(0..MaxDay) /\ today \in 0..MaxDay /\ Len(stamp) \in Nat
  BY LenProperties DEF TypeOK
<1>2. stamp' = Append(stamp, today) /\ Len(stamp) < MaxPosted
  BY DEF Post
<1>3. /\ stamp' \in Seq(0..MaxDay) /\ Len(stamp') = Len(stamp) + 1
      /\ \A i \in 1..Len(stamp) : stamp'[i] = stamp[i]
      /\ stamp'[Len(stamp) + 1] = today
  BY <1>1, <1>2, AppendProperties
<1> QED
  BY <1>1, <1>2, <1>3, RefreshAssumption DEF Posted

\* A mark seeded from an extract is a day.
LEMMA SeedFacts ==
    ASSUME TypeOK, Seed
    PROVE  \E newest \in {OldDay} \cup 0..MaxDay :
               /\ IsNewest(newest, Extract(Owner).rows)
               /\ mark' = newest - 1 /\ mark' \in (OldDay - 1)..MaxDay
               /\ LET behind == {t \in Tables \ {Owner} : taken[t] < newest - 1}
                  IN  loose' = (IF newest - 1 > mark THEN behind ELSE {})
                                 \cup (loose \cap IF delta.step = "idle" THEN behind ELSE Tables)
BY DEF Seed, SeedMark

LEMMA FaultFacts ==
    ASSUME TypeOK, Fault
    PROVE  faults' \in 0..MaxFaults
BY RefreshAssumption DEF TypeOK, Fault

LEMMA TypeStep == TypeOK /\ Loading /\ [Next]_vars => TypeOK'
<1> SUFFICES ASSUME TypeOK, Loading, [Next]_vars PROVE TypeOK'
  OBVIOUS
<1> USE DEF sap, refresh, history
<1>1. CASE Post
  BY <1>1, PostFacts DEF Post, TypeOK
<1>2. CASE Midnight
  <2>1. today' \in 0..MaxDay
    BY <1>2, RefreshAssumption DEF Midnight, TypeOK
  <2> QED
    BY <1>2, <2>1 DEF Midnight, TypeOK
<1>3. CASE StartPull
  BY <1>3 DEF StartPull, TypeOK
<1>4. CASE StartLoad
  BY <1>4 DEF StartLoad, TypeOK
<1>5. CASE Seed
  <2>1. mark' \in (OldDay - 1)..MaxDay /\ loose' \subseteq Tables
    BY <1>5, SeedFacts DEF TypeOK
  <2> QED
    BY <1>5, <2>1 DEF Seed, TypeOK
<1>6. CASE SeedFails
  <2>1. faults' \in 0..MaxFaults
    BY <1>6, FaultFacts DEF SeedFails
  <2> QED
    BY <1>6, <2>1, RefreshAssumption DEF SeedFails, TypeOK
<1>7. CASE MarkLoaded
  <2>1. at.table \in Tables /\ landed[at.table] # <<>> /\ at.step # "none"
    BY <1>7 DEF MarkLoaded, Loading, TypeOK
  <2>2. PICK n \in Nat : n = Len(landed[at.table]) /\ n # 0
    BY <2>1, ExtractFacts
  <2>3. landed[at.table] \in Seq(Extracts)
    BY <2>1 DEF TypeOK, Extracts
  <2>4. SubSeq(landed[at.table], 1, n - 1) \in Seq(Extracts)
    BY <2>2, <2>3, SubSeqProperties
  <2>5. landed' = [landed EXCEPT ![at.table] = SubSeq(@, 1, n - 1)]
    BY <1>7, <2>2 DEF MarkLoaded
  <2>6. landed' \in [Tables -> Seq(Extracts)]
    BY <2>4, <2>5 DEF TypeOK, Extracts
  <2> QED
    BY <1>7, <2>6, RefreshAssumption DEF MarkLoaded, NotLoading, TypeOK, Extracts
<1>8. CASE EndRefresh
  BY <1>8 DEF EndRefresh, TypeOK
<1>9. CASE Kill
  <2>1. faults' \in 0..MaxFaults
    BY <1>9, FaultFacts DEF Kill
  <2> QED
    BY <1>9, <2>1, RefreshAssumption DEF Kill, NotLoading, TypeOK
<1>10. ASSUME NEW t \in Tables, Pull(t) PROVE TypeOK'
  <2>1. PICK x : x = [rows |-> Posted, day |-> today]
    OBVIOUS
  <2>2. x \in Extracts
    BY <2>1, RefreshAssumption, LenProperties DEF Extracts, Posted, Events, TypeOK
  <2>3. landed[t] \in Seq(Extracts) /\ landed' = [landed EXCEPT ![t] = Append(@, x)]
    BY <1>10, <2>1 DEF Pull, TypeOK, Extracts
  <2>4. landed' \in [Tables -> Seq(Extracts)]
    BY <2>2, <2>3, AppendProperties DEF TypeOK, Extracts
  <2> QED
    BY <1>10, <2>4 DEF Pull, TypeOK, Extracts
<1>11. ASSUME NEW t \in Tables, PullFails(t) PROVE TypeOK'
  <2>1. faults' \in 0..MaxFaults
    BY <1>11, FaultFacts DEF PullFails
  <2> QED
    BY <1>11, <2>1, RefreshAssumption DEF PullFails, TypeOK
<1>12. ASSUME NEW t \in Tables, Replace(t) PROVE TypeOK'
  <2>1. Extract(t) \in Extracts
    BY <1>12, ExtractFacts DEF Replace
  <2> QED
    BY <1>12, <2>1 DEF Replace, TypeOK, Extracts
<1>13. ASSUME NEW t \in Tables, LoadsNothing(t) PROVE TypeOK'
  <2>1. faults' \in 0..MaxFaults
    BY <1>13, FaultFacts DEF LoadsNothing, TypeOK
  <2> QED
    BY <1>13, <2>1 DEF LoadsNothing, TypeOK
<1>14. CASE DeltaReads
  <2>1. PICK w \in SUBSET Events : w = {e \in Posted : stamp[e] >= mark}
    <3>1. stamp \in Seq(0..MaxDay) /\ Len(stamp) <= MaxPosted
      BY DEF TypeOK
    <3>2. Len(stamp) \in Nat
      BY <3>1, LenProperties
    <3>3. {e \in Posted : stamp[e] >= mark} \in SUBSET Events
      BY <3>1, <3>2, RefreshAssumption DEF Posted, Events
    <3> QED
      BY <3>3
  <2>2. PICK c \in {NoDay} \cup 0..MaxDay :
            delta' = [step |-> "merge", rows |-> w, candidate |-> c, todo |-> Tables]
    BY <1>14, <2>1 DEF DeltaReads
  <2> QED
    BY <1>14, <2>2 DEF DeltaReads, TypeOK
<1>15. ASSUME NEW t \in Tables, DeltaMerges(t) PROVE TypeOK'
  BY <1>15 DEF DeltaMerges, TypeOK
<1>16. CASE DeltaMarks
  <2>1. mark' \in (OldDay - 1)..MaxDay
    <3>1. PICK c \in 0..MaxDay \cup {NoDay} : c = delta.candidate
      BY DEF TypeOK
    <3>2. mark \in (OldDay - 1)..MaxDay /\ mark' = IF c = NoDay THEN mark ELSE c
      BY <1>16, <3>1 DEF DeltaMarks, TypeOK
    <3> QED
      BY <3>2, RefreshAssumption DEF OldDay
  <2>2. delta' \in [step : {"idle", "merge"}, rows : SUBSET Events,
                    candidate : 0..MaxDay \cup {NoDay}, todo : SUBSET Tables]
    BY <1>16 DEF DeltaMarks, NoDelta
  <2> QED
    BY <1>16, <2>1, <2>2 DEF DeltaMarks, TypeOK
<1>17. CASE DeltaStops
  BY <1>17, RefreshAssumption DEF DeltaStops, NoDelta, TypeOK
<1>18. CASE UNCHANGED vars
  BY <1>18 DEF vars, TypeOK
<1> QED
  BY <1>1, <1>2, <1>3, <1>4, <1>5, <1>6, <1>7, <1>8, <1>9, <1>10, <1>11, <1>12, <1>13, <1>14, <1>15,
     <1>16, <1>17, <1>18 DEF Next, Refresh
----------------------------------------------------------------------------
(* The mark and the tables. *)

Held == OnTime /\ ExtractsWhole /\ Replaced /\ Covers /\ Loading /\ NoGap

\* Integers of the state, for the arithmetic below.
LEMMA Numbers ==
    ASSUME TypeOK
    PROVE  /\ today \in Int /\ mark \in Int /\ MaxDay \in Int /\ Len(stamp) \in Nat
           /\ \A e \in Posted : stamp[e] \in 0..MaxDay
           /\ \A t \in Tables : taken[t] \in Int /\ taken[t] <= MaxDay /\ landed[t] \in Seq(Extracts)
           /\ \A t \in Tables : \A i \in 1..Len(landed[t]) :
                landed[t][i].day \in 0..MaxDay /\ landed[t][i].rows \subseteq Events
           /\ delta.candidate # NoDay => delta.candidate \in 0..MaxDay
<1>1. stamp \in Seq(0..MaxDay)
  BY DEF TypeOK
<1>2. Len(stamp) \in Nat /\ \A e \in Posted : stamp[e] \in 0..MaxDay
  BY <1>1, LenProperties, ElementOfSeq DEF Posted
<1>3. \A t \in Tables : landed[t] \in Seq(Extracts)
  BY DEF TypeOK, Extracts
<1>4. ASSUME NEW t \in Tables, NEW i \in 1..Len(landed[t])
      PROVE landed[t][i].day \in 0..MaxDay /\ landed[t][i].rows \subseteq Events
  <2>1. landed[t][i] \in Extracts
    BY <1>3, ElementOfSeq
  <2> QED
    BY <2>1 DEF Extracts
<1>5. \A t \in Tables : taken[t] \in 0..MaxDay
  BY DEF TypeOK
<1>6. delta.candidate # NoDay => delta.candidate \in 0..MaxDay
  BY DEF TypeOK
<1>7. today \in 0..MaxDay /\ mark \in (OldDay - 1)..MaxDay
  BY DEF TypeOK
<1> QED
  BY <1>2, <1>3, <1>4, <1>5, <1>6, <1>7, RefreshAssumption DEF OldDay

\* A step that leaves tables, marks and extracts alone.
LEMMA Frame ==
    ASSUME IInv, UNCHANGED <<today, stamp, raw, mark, landed, taken, loose>>,
           delta' = delta \/ delta' = NoDelta, Loading'
    PROVE  Held'
<1>1. OnTime' /\ Replaced' /\ NoGap'
  BY DEF IInv, OnTime, Replaced, NoGap, Lacks, Posted
<1>2. ExtractsWhole'
  <2>1. \A x : Whole(x) => Whole(x)'
    BY DEF Whole, Posted
  <2> QED
    BY <2>1 DEF IInv, ExtractsWhole
<1>3. Covers'
  <2>1. CASE delta' = delta
    BY <2>1 DEF IInv, Covers, Posted
  <2>2. CASE delta' = NoDelta
    BY <2>2 DEF Covers, NoDelta
  <2> QED
    BY <2>1, <2>2
<1> QED
  BY <1>1, <1>2, <1>3 DEF Held

LEMMA QuietSteps ==
    ASSUME IInv,
           \/ StartPull \/ StartLoad \/ SeedFails \/ EndRefresh \/ Kill \/ DeltaStops
           \/ \E t \in Tables : PullFails(t) \/ LoadsNothing(t)
           \/ UNCHANGED vars
    PROVE  Held'
<1> USE DEF sap, refresh, history
<1>1. CASE StartPull
  BY <1>1, Frame DEF StartPull, IInv, Loading
<1>2. CASE StartLoad
  BY <1>2, Frame DEF StartLoad, IInv, Loading
<1>3. CASE SeedFails
  <2>1. Loading'
    BY <1>3 DEF SeedFails, IInv, TypeOK, Loading
  <2> QED
    BY <1>3, <2>1, Frame DEF SeedFails
<1>4. CASE EndRefresh
  BY <1>4, Frame DEF EndRefresh, IInv, Loading
<1>5. CASE Kill
  BY <1>5, Frame DEF Kill, IInv, Loading, NotLoading
<1>6. CASE DeltaStops
  BY <1>6, Frame DEF DeltaStops, IInv, Loading, Extract
<1>7. ASSUME NEW t \in Tables, PullFails(t) PROVE Held'
  BY <1>7, Frame DEF PullFails, IInv, Loading
<1>8. ASSUME NEW t \in Tables, LoadsNothing(t) PROVE Held'
  BY <1>8, Frame DEF LoadsNothing, IInv, Loading
<1>9. CASE UNCHANGED vars
  BY <1>9, Frame DEF vars, IInv, Loading, Extract
<1> QED
  BY <1>1, <1>2, <1>3, <1>4, <1>5, <1>6, <1>7, <1>8, <1>9

\* A change is dated no earlier than anything already read.
LEMMA PostStep ==
    ASSUME IInv, Post
    PROVE  Held'
<1>1. /\ \A e \in Posted : stamp'[e] = stamp[e]
      /\ \A e \in Posted' : e \in Posted \/ stamp'[e] = today
      /\ Posted \subseteq Posted'
  BY PostFacts DEF IInv
<1>2. UNCHANGED <<today, raw, mark, landed, phase, todo, at, delta, taken, loose>>
  BY DEF Post, refresh, history
<1>3. OnTime'
  BY <1>1, <1>2, Numbers DEF IInv, OnTime
<1>4. ExtractsWhole'
  <2> SUFFICES ASSUME NEW t \in Tables, NEW i \in 1..Len(landed[t]) PROVE Whole(landed[t][i])'
    BY <1>2 DEF ExtractsWhole
  <2>1. PICK x : x = landed[t][i]
    OBVIOUS
  <2>2. Whole(x) /\ x.day \in Int
    BY <2>1, Numbers DEF IInv, ExtractsWhole
  <2>3. Whole(x)'
    BY <1>1, <1>2, <2>2, Numbers DEF IInv, Whole
  <2> QED
    BY <1>2, <2>1, <2>3
<1>5. Replaced'
  BY <1>1, <1>2, Numbers DEF IInv, Replaced
<1>6. Covers'
  BY <1>1, <1>2, Numbers DEF IInv, Covers
<1>7. Loading'
  BY <1>2 DEF IInv, Loading, Extract
<1>8. NoGap'
  BY <1>1, <1>2, Numbers DEF IInv, NoGap, Lacks, OnTime
<1> QED
  BY <1>3, <1>4, <1>5, <1>6, <1>7, <1>8 DEF Held

LEMMA MidnightStep ==
    ASSUME IInv, Midnight
    PROVE  Held'
<1>1. today' = today + 1 /\ today' >= today
      /\ UNCHANGED <<stamp, raw, mark, landed, phase, todo, at, delta, taken, loose>>
  BY Numbers DEF Midnight, IInv, refresh, history
<1>2. OnTime' /\ Replaced' /\ NoGap'
  BY <1>1, Numbers DEF IInv, OnTime, Replaced, NoGap, Lacks, Posted
<1>3. ExtractsWhole'
  <2> SUFFICES ASSUME NEW t \in Tables, NEW i \in 1..Len(landed[t]) PROVE Whole(landed[t][i])'
    BY <1>1 DEF ExtractsWhole
  <2> QED
    BY <1>1, Numbers DEF IInv, ExtractsWhole, Whole, Posted
<1>4. Covers'
  BY <1>1, Numbers DEF IInv, Covers, Posted
<1>5. Loading'
  BY <1>1 DEF IInv, Loading, Extract
<1> QED
  BY <1>2, <1>3, <1>4, <1>5 DEF Held

\* An extract is of the moment it is taken.
LEMMA PullStep ==
    ASSUME IInv, NEW t \in Tables, Pull(t)
    PROVE  Held'
<1>1. PICK x : x = [rows |-> Posted, day |-> today]
  OBVIOUS
<1>2. /\ landed' = [landed EXCEPT ![t] = Append(@, x)]
      /\ UNCHANGED <<today, stamp, raw, mark, phase, at, delta, taken, loose>>
      /\ phase = "pull"
  BY <1>1 DEF Pull, sap, history
<1>3. Whole(x)
  BY <1>1, Numbers DEF Whole, IInv, OnTime
<1>4. \A y : Whole(y) => Whole(y)'
  BY <1>2 DEF Whole, Posted
<1>5. ExtractsWhole'
  <2> SUFFICES ASSUME NEW u \in Tables, NEW i \in 1..Len(landed'[u]) PROVE Whole(landed[u][i])'
    BY DEF ExtractsWhole
  <2>1. CASE u = t
    <3>1. landed[t] \in Seq(Extracts) /\ x \in Extracts
      <4>1. Len(stamp) \in Nat /\ Len(stamp) <= MaxPosted /\ today \in 0..MaxDay
        BY Numbers DEF IInv, TypeOK
      <4>2. Posted \in SUBSET Events
        BY <4>1, RefreshAssumption DEF Posted, Events
      <4>3. landed[t] \in Seq(Extracts)
        BY Numbers DEF IInv
      <4> QED
        BY <1>1, <4>1, <4>2, <4>3 DEF Extracts
    <3>2. landed'[t] = Append(landed[t], x)
      BY <1>2 DEF IInv, TypeOK
    <3>3. \/ i \in 1..Len(landed[t]) /\ landed'[t][i] = landed[t][i]
          \/ landed'[t][i] = x
      BY <2>1, <3>1, <3>2, AppendProperties, LenProperties
    <3>4. PICK y : y = landed'[t][i]
      OBVIOUS
    <3>5. Whole(y)
      BY <1>3, <3>3, <3>4 DEF IInv, ExtractsWhole
    <3> QED
      BY <1>4, <2>1, <3>4, <3>5
  <2>2. CASE u # t
    BY <1>2, <1>4, <2>2 DEF IInv, TypeOK, ExtractsWhole
  <2> QED
    BY <2>1, <2>2
<1>6. OnTime' /\ Replaced' /\ NoGap' /\ Covers'
  BY <1>2 DEF IInv, OnTime, Replaced, NoGap, Lacks, Covers, Posted
<1>7. Loading'
  BY <1>2 DEF IInv, Loading
<1> QED
  BY <1>5, <1>6, <1>7 DEF Held
\* The table goes back to its extract, and is left loose where that is a day
\* behind the mark or behind what the delta in flight may mark.
LEMMA ReplaceStep ==
    ASSUME IInv, NEW t \in Tables, Replace(t)
    PROVE  Held'
<1>1. PICK x : x = Extract(t)
  OBVIOUS
<1>2. /\ raw' = [raw EXCEPT ![t] = x.rows]
      /\ at' = [step |-> IF t = Owner THEN "seed" ELSE "mark", table |-> t]
      /\ taken' = [taken EXCEPT ![t] = x.day]
      /\ loose' = IF x.day < mark \/ (x.day < today /\ delta.step # "idle")
                  THEN loose \cup {t} ELSE loose \ {t}
      /\ UNCHANGED <<today, stamp, mark, landed, phase, todo, delta>>
      /\ phase = "load" /\ t \in todo /\ landed[t] # <<>>
  BY <1>1 DEF Replace, sap
<1>3. Whole(x) /\ x.day \in Int
  <2>1. Len(landed[t]) \in 1..Len(landed[t]) /\ Extract(t) = landed[t][Len(landed[t])]
    BY <1>2, ExtractFacts DEF IInv
  <2> QED
    BY <1>1, <2>1, Numbers DEF IInv, ExtractsWhole
<1>4. raw \in [Tables -> SUBSET Events] /\ taken \in [Tables -> 0..MaxDay]
  BY DEF IInv, TypeOK
<1>5. /\ raw'[t] = x.rows /\ taken'[t] = x.day
      /\ \A u \in Tables : u # t => raw'[u] = raw[u] /\ taken'[u] = taken[u]
  BY <1>2, <1>4
<1>6. OnTime'
  BY <1>2 DEF IInv, OnTime, Posted
<1>7. ExtractsWhole'
  <2>1. \A y : Whole(y) => Whole(y)'
    BY <1>2 DEF Whole, Posted
  <2> QED
    BY <1>2, <2>1 DEF IInv, ExtractsWhole
<1>8. Replaced'
  BY <1>2, <1>3, <1>5 DEF IInv, Replaced, Whole, Posted
<1>9. Loading'
  <2>1. landed' = landed /\ x = Extract(t) /\ x = Extract(t)'
    BY <1>1, <1>2 DEF Extract
  <2> QED
    BY <1>2, <1>5, <2>1 DEF Loading
<1>10. NoGap'
  <2> SUFFICES ASSUME NEW u \in Tables, u \notin loose', NEW e \in Posted, stamp[e] < mark
               PROVE  e \in raw'[u]
    BY <1>2 DEF NoGap, Lacks, Posted
  <2>1. CASE u = t
    <3>1. mark <= x.day
      BY <1>2, <1>3, <2>1, Numbers DEF IInv
    <3>2. stamp[e] < x.day
      BY <1>3, <3>1, Numbers DEF IInv
    <3> QED
      BY <1>3, <1>5, <2>1, <3>2 DEF Whole
  <2>2. CASE u # t
    BY <1>2, <1>5, <2>2 DEF IInv, NoGap, Lacks
  <2> QED
    BY <2>1, <2>2
<1>11. Covers'
  <2> SUFFICES ASSUME delta.step = "merge", delta.candidate # NoDay,
                      NEW u \in Tables, u \notin loose', NEW e \in Posted, stamp[e] < delta.candidate
               PROVE  e \in raw'[u] \/ (u \in delta.todo /\ e \in delta.rows)
    BY <1>2 DEF IInv, Covers, Posted
  <2>1. CASE u = t
    <3>1. today <= x.day
      BY <1>2, <1>3, <2>1, Numbers DEF IInv
    <3>2. delta.candidate <= today /\ delta.candidate \in Int
      BY Numbers DEF IInv, Covers
    <3>3. stamp[e] < x.day
      BY <1>3, <3>1, <3>2, Numbers DEF IInv
    <3> QED
      BY <1>3, <1>5, <2>1, <3>3 DEF Whole
  <2>2. CASE u # t
    BY <1>2, <1>5, <2>2 DEF IInv, Covers
  <2> QED
    BY <2>1, <2>2
<1> QED
  BY <1>6, <1>7, <1>8, <1>9, <1>10, <1>11 DEF Held

\* The extract is dropped; those before it are as they were.
LEMMA MarkLoadedStep ==
    ASSUME IInv, MarkLoaded
    PROVE  Held'
<1>1. PICK u : u = at.table
  OBVIOUS
<1>2. u \in Tables /\ landed[u] # <<>>
  BY <1>1 DEF MarkLoaded, IInv, TypeOK, Loading
<1>3. PICK n \in Nat : n = Len(landed[u]) /\ n # 0
  BY <1>2, ExtractFacts DEF IInv
<1>4. /\ landed' = [landed EXCEPT ![u] = SubSeq(@, 1, n - 1)]
      /\ at' = NotLoading
      /\ UNCHANGED <<today, stamp, raw, mark, delta, taken, loose>>
  BY <1>1, <1>3 DEF MarkLoaded, sap, history
<1>5. landed[u] \in Seq(Extracts) /\ landed \in [Tables -> Seq(Extracts)]
  BY <1>2 DEF IInv, TypeOK, Extracts
<1>6. /\ landed'[u] = SubSeq(landed[u], 1, n - 1)
      /\ \A v \in Tables : v # u => landed'[v] = landed[v]
  BY <1>2, <1>4, <1>5
<1>7. /\ Len(landed'[u]) = n - 1
      /\ \A i \in 1..(n - 1) : landed'[u][i] = landed[u][i]
  BY <1>3, <1>5, <1>6, SubSeqProperties
<1>8. \A y : Whole(y) => Whole(y)'
  BY <1>4 DEF Whole, Posted
<1>9. ExtractsWhole'
  <2> SUFFICES ASSUME NEW v \in Tables, NEW i \in 1..Len(landed'[v]) PROVE Whole(landed[v][i])'
    BY DEF ExtractsWhole
  <2>1. i \in 1..Len(landed[v]) /\ landed'[v][i] = landed[v][i]
    BY <1>3, <1>6, <1>7
  <2>2. PICK y : y = landed[v][i]
    OBVIOUS
  <2>3. Whole(y)
    BY <2>1, <2>2 DEF IInv, ExtractsWhole
  <2> QED
    BY <1>8, <2>1, <2>2, <2>3
<1>10. OnTime' /\ Replaced' /\ NoGap' /\ Covers'
  BY <1>4 DEF IInv, OnTime, Replaced, NoGap, Lacks, Covers, Posted
<1>11. Loading'
  BY <1>4 DEF Loading, NotLoading
<1> QED
  BY <1>9, <1>10, <1>11 DEF Held
\* Nothing the family lacks passes behind a seeded mark: the owner's rows are the
\* extract's, and a table replaced from an older one is loose if the mark moved on.
LEMMA SeedStep ==
    ASSUME IInv, Seed
    PROVE  Held'
<1>1. PICK newest \in {OldDay} \cup 0..MaxDay :
          /\ IsNewest(newest, Extract(Owner).rows)
          /\ mark' = newest - 1
          /\ LET behind == {t \in Tables \ {Owner} : taken[t] < newest - 1}
             IN  loose' = (IF newest - 1 > mark THEN behind ELSE {})
                            \cup (loose \cap IF delta.step = "idle" THEN behind ELSE Tables)
  BY SeedFacts DEF IInv
<1>2. PICK x : x = Extract(Owner)
  OBVIOUS
<1>3. /\ at.step = "seed" /\ at' = [at EXCEPT !.step = "mark"]
      /\ UNCHANGED <<today, stamp, raw, landed, phase, todo, delta, taken>>
  BY DEF Seed, sap
<1>4. landed[Owner] # <<>> /\ x.rows \subseteq raw[Owner]
  BY <1>2, <1>3 DEF IInv, Loading
<1>5. Whole(x) /\ x.day \in 0..MaxDay
  <2>1. Len(landed[Owner]) \in 1..Len(landed[Owner]) /\ Extract(Owner) = landed[Owner][Len(landed[Owner])]
    BY <1>4, ExtractFacts, RefreshAssumption DEF IInv
  <2> QED
    BY <1>2, <2>1, Numbers, RefreshAssumption DEF IInv, ExtractsWhole
<1>6. newest \in Int /\ newest <= x.day
  BY <1>1, <1>2, <1>5, RefreshAssumption DEF IsNewest, OldDay, Whole
<1>7. OnTime'
  <2>1. mark' <= today
    BY <1>1, <1>5, <1>6, Numbers DEF IInv, Whole
  <2> QED
    BY <1>3, <2>1 DEF IInv, OnTime, Posted
<1>8. ExtractsWhole'
  <2>1. \A y : Whole(y) => Whole(y)'
    BY <1>3 DEF Whole, Posted
  <2> QED
    BY <1>3, <2>1 DEF IInv, ExtractsWhole
<1>9. Replaced'
  BY <1>3 DEF IInv, Replaced, Posted
<1>10. Covers'
  <2>1. delta.step = "merge" => loose \subseteq loose'
    BY <1>1 DEF IInv, TypeOK
  <2> QED
    BY <1>3, <2>1 DEF IInv, Covers, Posted
<1>11. Loading'
  BY <1>3 DEF IInv, TypeOK, Loading, Extract
<1>12. NoGap'
  <2> SUFFICES ASSUME NEW u \in Tables, u \notin loose', NEW e \in Posted, stamp[e] < newest - 1
               PROVE  e \in raw[u]
    BY <1>1, <1>3 DEF NoGap, Lacks, Posted
  <2>1. stamp[e] \in Int /\ taken[u] \in Int /\ mark \in Int
    BY Numbers DEF IInv
  <2>2. CASE u = Owner
    BY <1>4, <1>5, <1>6, <2>1, <2>2 DEF Whole
  <2>3. CASE taken[u] >= newest - 1
    <3>1. stamp[e] < taken[u]
      BY <1>6, <2>1, <2>3
    <3> QED
      BY <3>1 DEF IInv, Replaced
  <2>4. CASE u # Owner /\ ~(taken[u] >= newest - 1)
    <3>1. ~(newest - 1 > mark) /\ u \notin loose
      BY <1>1, <1>6, <2>1, <2>4
    <3>2. stamp[e] < mark
      BY <1>6, <2>1, <3>1
    <3> QED
      BY <3>1, <3>2 DEF IInv, NoGap, Lacks
  <2> QED
    BY <2>2, <2>3, <2>4
<1> QED
  BY <1>7, <1>8, <1>9, <1>10, <1>11, <1>12 DEF Held

\* What lies below the mark is in the tables, and what does not is in the window.
LEMMA DeltaReadsStep ==
    ASSUME IInv, DeltaReads
    PROVE  Held'
<1>1. PICK c \in {NoDay} \cup 0..MaxDay, w \in {{e \in Posted : stamp[e] >= mark}} :
          /\ IF w = {} THEN c = NoDay ELSE IsNewest(c, w)
          /\ delta' = [step |-> "merge", rows |-> w, candidate |-> c, todo |-> Tables]
  BY DEF DeltaReads
<1>2. UNCHANGED <<today, stamp, raw, mark, landed, phase, todo, at, taken, loose>>
  BY DEF DeltaReads, sap, refresh, history
<1>3. OnTime' /\ Replaced' /\ NoGap'
  BY <1>2 DEF IInv, OnTime, Replaced, NoGap, Lacks, Posted
<1>4. ExtractsWhole'
  <2>1. \A y : Whole(y) => Whole(y)'
    BY <1>2 DEF Whole, Posted
  <2> QED
    BY <1>2, <2>1 DEF IInv, ExtractsWhole
<1>5. Loading'
  BY <1>2 DEF IInv, Loading, Extract
<1>6. ASSUME c # NoDay
      PROVE  c <= today
  <2>1. c \in {stamp[e] : e \in w} \cup {OldDay}
    BY <1>1, <1>6 DEF IsNewest
  <2>2. today \in 0..MaxDay
    BY DEF IInv, TypeOK
  <2> QED
    BY <1>1, <1>6, <2>1, <2>2 DEF IInv, OnTime, OldDay
<1>7. ASSUME NEW u \in Tables \ loose, NEW e \in Posted
      PROVE  e \in raw[u] \/ e \in w
  <2>1. stamp[e] \in Int /\ mark \in Int
    BY Numbers DEF IInv
  <2> QED
    BY <1>1, <2>1 DEF IInv, NoGap, Lacks
<1>8. Covers'
  <2>1. w \subseteq Posted
    BY <1>1
  <2>2. delta'.rows = w /\ delta'.candidate = c /\ delta'.todo = Tables
    BY <1>1
  <2> QED
    BY <1>2, <1>6, <1>7, <2>1, <2>2 DEF Covers, Posted
<1> QED
  BY <1>3, <1>4, <1>5, <1>8 DEF Held

LEMMA DeltaMergesStep ==
    ASSUME IInv, NEW t \in Tables, DeltaMerges(t)
    PROVE  Held'
<1>1. /\ raw' = [raw EXCEPT ![t] = @ \cup delta.rows]
      /\ delta' = [delta EXCEPT !.todo = @ \ {t}]
      /\ UNCHANGED <<today, stamp, mark, landed, phase, todo, at, taken, loose>>
  BY DEF DeltaMerges, sap, refresh, history
<1>2. /\ raw'[t] = raw[t] \cup delta.rows
      /\ \A u \in Tables : raw[u] \subseteq raw'[u]
  BY <1>1 DEF IInv, TypeOK
<1>3. /\ delta'.step = delta.step /\ delta'.rows = delta.rows
      /\ delta'.candidate = delta.candidate /\ delta'.todo = delta.todo \ {t}
  BY <1>1 DEF IInv, TypeOK
<1>4. OnTime' /\ Replaced' /\ NoGap'
  BY <1>1, <1>2 DEF IInv, OnTime, Replaced, NoGap, Lacks, Posted
<1>5. ExtractsWhole'
  <2>1. \A y : Whole(y) => Whole(y)'
    BY <1>1 DEF Whole, Posted
  <2> QED
    BY <1>1, <2>1 DEF IInv, ExtractsWhole
<1>6. Covers'
  BY <1>1, <1>2, <1>3 DEF IInv, Covers, Posted
<1>7. Loading'
  BY <1>1, <1>2, RefreshAssumption DEF IInv, Loading, Extract
<1> QED
  BY <1>4, <1>5, <1>6, <1>7 DEF Held

\* The mark moves to a day below which nothing is left to merge.
LEMMA DeltaMarksStep ==
    ASSUME IInv, DeltaMarks
    PROVE  Held'
<1>1. /\ delta.step = "merge" /\ delta.todo = {} /\ delta' = NoDelta
      /\ mark' = IF delta.candidate = NoDay THEN mark ELSE delta.candidate
      /\ UNCHANGED <<today, stamp, raw, landed, phase, todo, at, taken, loose>>
  BY DEF DeltaMarks, sap, refresh, history
<1>2. OnTime'
  BY <1>1 DEF IInv, OnTime, Covers, Posted
<1>3. NoGap'
  BY <1>1 DEF IInv, NoGap, Lacks, Covers, Posted
<1>4. ExtractsWhole'
  <2>1. \A y : Whole(y) => Whole(y)'
    BY <1>1 DEF Whole, Posted
  <2> QED
    BY <1>1, <2>1 DEF IInv, ExtractsWhole
<1>5. Replaced' /\ Covers' /\ Loading'
  BY <1>1 DEF IInv, Replaced, Covers, Loading, Extract, Posted, NoDelta
<1> QED
  BY <1>2, <1>3, <1>4, <1>5 DEF Held

LEMMA InitIInv == Init => IInv
<1> SUFFICES ASSUME Init PROVE IInv
  OBVIOUS
<1>1. Len(stamp) = 0 /\ Posted = {}
  BY EmptySeq DEF Init, Posted
<1>2. TypeOK
  <2>1. stamp \in Seq(0..MaxDay) /\ \A t \in Tables : landed[t] \in Seq(Extracts)
    BY EmptySeq DEF Init
  <2>2. landed \in [Tables -> Seq(Extracts)]
    BY <2>1 DEF Init
  <2>3. mark \in (OldDay - 1)..MaxDay /\ today \in 0..MaxDay /\ faults \in 0..MaxFaults
    BY RefreshAssumption DEF Init, OldDay
  <2>4. taken \in [Tables -> 0..MaxDay]
    BY RefreshAssumption DEF Init
  <2>5. Len(stamp) <= MaxPosted
    BY <1>1, RefreshAssumption
  <2> QED
    BY <2>1, <2>2, <2>3, <2>4, <2>5, RefreshAssumption DEF Init, TypeOK, Extracts, NoDelta, NotLoading
<1>3. \A t \in Tables : Len(landed[t]) = 0
  BY EmptySeq DEF Init
<1>4. OnTime
  BY <1>1 DEF Init, OnTime, OldDay
<1>5. ExtractsWhole
  BY <1>3 DEF ExtractsWhole
<1>6. Replaced /\ Covers /\ Loading /\ NoGap
  BY <1>1 DEF Init, Replaced, Covers, Loading, NoGap, Lacks, NoDelta, NotLoading
<1> QED
  BY <1>2, <1>4, <1>5, <1>6 DEF IInv

LEMMA NextIInv == IInv /\ [Next]_vars => IInv'
<1> SUFFICES ASSUME IInv, [Next]_vars PROVE IInv'
  OBVIOUS
<1>1. TypeOK'
  BY TypeStep DEF IInv
<1>2. Held'
  BY PostStep, MidnightStep, PullStep, ReplaceStep, MarkLoadedStep, SeedStep, DeltaReadsStep,
     DeltaMergesStep, DeltaMarksStep, QuietSteps DEF Next, Refresh
<1> QED
  BY <1>1, <1>2 DEF IInv, Held

LEMMA InductiveInv == Spec => []IInv
BY InitIInv, NextIInv, PTL DEF Spec

\* Every variable of the refresh and of the delta beside it keeps its type.
THEOREM RefreshTypes == Spec => []TypeOK
<1>1. IInv => TypeOK
  BY DEF IInv
<1> QED
  BY <1>1, InductiveInv, PTL

\* Whichever extracts and loads fail, wherever a refresh is killed (csv_load.py:
\* load_table, _seed_watermark) and however delta cycles run beside it, the mark
\* passes no change that a table not put back behind it lacks.
THEOREM RefreshNoGap == Spec => []NoGap
<1>1. IInv => NoGap
  BY DEF IInv
<1> QED
  BY <1>1, InductiveInv, PTL
=============================================================================
