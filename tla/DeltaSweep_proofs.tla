--------------------------- MODULE DeltaSweep_proofs ---------------------------
(* Proofs about the delta sweep, for every family of sets and every bound. *)
EXTENDS DeltaSweep, TLAPS

\* Every mark day is a day.
LEMMA MarkDaysAreDays ==
    ASSUME TypeOK, NEW s \in Sets, NEW ceiling
    PROVE  MarkDays(s, ceiling) \subseteq Int
BY DaysAssumption, EventsAssumption DEF MarkDays, OldDay, OwnWindow, Posted, TypeOK

\* Every step keeps the variables in their types.
LEMMA TypeStep == TypeOK /\ [Next]_vars => TypeOK'
<1> SUFFICES ASSUME TypeOK, [Next]_vars PROVE TypeOK'
    OBVIOUS
<1> USE SetsAssumption, EventsAssumption, DaysAssumption
<1>1. ASSUME NEW e \in Events, Post(e) PROVE TypeOK'
  <2>1. PICK d \in {today} \cup BadDays :
          /\ stamp' = [stamp EXCEPT ![e] = d]
          /\ skipped' = IF Behind(Carrier[e], d) THEN skipped \cup ({e} \X Readers(Carrier[e])) ELSE skipped
    BY <1>1 DEF Post
  <2>2. Readers(Carrier[e]) \subseteq Sets
    BY DEF Readers
  <2>3. skipped' \subseteq Events \X Sets
    BY <2>1, <2>2 DEF TypeOK
  <2> QED
    BY <1>1, <2>1, <2>3 DEF Post, TypeOK, dbVars, sweepVars
<1>2. CASE Midnight
    BY <1>2 DEF Midnight, TypeOK, dbVars, sweepVars
<1>3. CASE Wipe
    BY <1>3 DEF Wipe, TypeOK, sapVars, sweepVars
<1>4. ASSUME NEW C \in Choices, Begin(C) PROVE TypeOK'
  <2>1. Seeded(C) \in [Direct -> Day]
    BY DEF Seeded, TypeOK, Day
  <2>2. ResolveWindows(C) \in [Direct -> Day]
    BY <2>1 DEF ResolveWindows, Day
  <2> QED
    BY <1>4, <2>1, <2>2 DEF Begin, ForcedFull, TypeOK, sapVars
<1>5. ASSUME NEW s \in Sets, NEW p \in Via[s], CollectKeys(s, p) PROVE TypeOK'
    BY <1>5 DEF CollectKeys, OwnWindow, TypeOK, sapVars, dbVars
<1>6. ASSUME NEW s \in Sets, Fetch(s) PROVE TypeOK'
  <2>1. FetchedRows(s) \in SUBSET Events
    BY DEF FetchedRows, OwnWindow, TypeOK
  <2>2. PICK ceiling \in Ceilings : \E c \in MarkDays(s, ceiling) \cup {OldDay, NoDay} :
            IsCandidate(s, c, ceiling) /\ candidate' = [candidate EXCEPT ![s] = c]
    BY <1>6 DEF Fetch
  <2>3. PICK c \in MarkDays(s, ceiling) \cup {OldDay, NoDay} : candidate' = [candidate EXCEPT ![s] = c]
    BY <2>2
  <2>4. c \in Day
    BY <2>3, MarkDaysAreDays DEF OldDay, Day
  <2> QED
    BY <1>6, <2>1, <2>3, <2>4 DEF Fetch, TypeOK, sapVars, dbVars
<1>7. ASSUME NEW s \in Sets, Load(s) PROVE TypeOK'
    BY <1>7 DEF Load, Merge, IsNext, TypeOK, sapVars
<1>8. CASE StartLoads
    BY <1>8 DEF StartLoads, TypeOK, sapVars, dbVars
<1>9. CASE StartMarks
    BY <1>9 DEF StartMarks, TypeOK, sapVars, dbVars
<1>10. CASE EndSweep
    BY <1>10 DEF EndSweep, Reset, TypeOK, Day, sapVars, dbVars
<1>11. ASSUME NEW p \in Direct, SetMark(p) PROVE TypeOK'
  <2>1. LeftOut(p) \subseteq Events \X Sets
    BY DEF LeftOut
  <2>2. mark' \in [Direct -> Day] /\ skipped' \subseteq Events \X Sets
    BY <1>11, <2>1 DEF SetMark, TypeOK, Day
  <2> QED
    BY <1>11, <2>2 DEF SetMark, TypeOK, sapVars
<1>12. CASE Crash
    BY <1>12 DEF Crash, Reset, TypeOK, Day, sapVars, dbVars
<1>13. ASSUME NEW s \in Sets, FetchFails(s) PROVE TypeOK'
    BY <1>13 DEF FetchFails, TypeOK, sapVars, dbVars
<1>14. ASSUME NEW s \in Sets, LoadFails(s) PROVE TypeOK'
  <2>1. /\ raw' \in [Sets -> SUBSET Events]
        /\ populated' \in SUBSET Sets
        /\ loadDay' \in [Direct -> Nat \cup {NoDay}]
    <3>1. CASE Merge(s)
      BY <3>1 DEF Merge, TypeOK
    <3>2. CASE UNCHANGED <<raw, populated, loadDay>>
      BY <3>2 DEF TypeOK
    <3> QED
      BY <1>14, <3>1, <3>2 DEF LoadFails
  <2>2. /\ outcome' \in [Sets -> {"none", "failed", "fetched", "loaded"}]
        /\ todo' \in SUBSET chosen
        /\ faults' \in 0..MaxFaults
        /\ UNCHANGED <<sapVars, mark, pc, chosen, window, forced, cached, keys, rows, candidate, skipped>>
    BY <1>14 DEF LoadFails, TypeOK
  <2> QED
    BY <2>1, <2>2 DEF TypeOK, sapVars
<1>15. CASE UNCHANGED vars
    BY <1>15 DEF TypeOK, vars, sapVars, dbVars, sweepVars
<1> QED
    BY <1>1, <1>2, <1>3, <1>4, <1>5, <1>6, <1>7, <1>8, <1>9, <1>10, <1>11, <1>12,
       <1>13, <1>14, <1>15 DEF Next, SweepStep, Fault

LEMMA TypeInit == Init => TypeOK
BY SetsAssumption, DaysAssumption DEF Init, NoSweep, TypeOK, Day

\* The variables of the sweep, the tables and the marks keep their types.
THEOREM TypeCorrect == Spec => []TypeOK
<1>1. Init => TypeOK
    BY TypeInit
<1>2. TypeOK /\ [Next]_vars => TypeOK'
    BY TypeStep
<1> QED
    BY <1>1, <1>2, PTL DEF Spec

----------------------------------------------------------------------------
(* NoGap.  Every action below leaves IInv true; the conjuncts it can disturb *)
(* each have a step.                                                         *)

LEMMA InitIInv == Deployed /\ Init => IInv
<1> SUFFICES ASSUME Deployed, Init PROVE IInv
    OBVIOUS
<1> USE SetsAssumption, EventsAssumption, DaysAssumption
<1>1. TypeOK
    BY TypeInit
<1>2. Seedable /\ NoGap
    BY DEF Init, NoSweep, Seedable, NoGap, Posted, Deployed, LoadedInTime, Readers
<1>3. WindowsHeld /\ ParentsFirst /\ KeysComplete /\ WholeLanded /\ CandidateCovered /\ Phases
    BY DEF Init, NoSweep, WindowsHeld, ParentsFirst, KeysComplete, WholeLanded,
           CandidateCovered, Phases, Readers
<1> QED
    BY <1>1, <1>2, <1>3 DEF IInv

\* A parent of the sets a sweep handles owns a window of the sweep.
LEMMA ReadersAreOwned ==
    ASSUME TypeOK, NEW s \in chosen, NEW p \in Direct, s \in Readers(p)
    PROVE  p \in Owners(chosen) /\ p \in Direct
BY SetsAssumption DEF Readers, Owners, TypeOK

\* An event posted behind a mark or a candidate is skipped, any other lies below
\* none.
LEMMA PostStep ==
    ASSUME IInv, NEW e \in Events, Post(e), TypeOK'
    PROVE  IInv'
<1> USE SetsAssumption, EventsAssumption, DaysAssumption
<1>1. /\ UNCHANGED <<today, dbVars, sweepVars, faults>>
      /\ \A x \in Events : x # e => stamp'[x] = stamp[x]
      /\ skipped \subseteq skipped'
      /\ stamp'[e] \in Nat
      /\ Behind(Carrier[e], stamp'[e]) => \A s \in Readers(Carrier[e]) : <<e, s>> \in skipped'
  <2>1. PICK d \in {today} \cup BadDays :
          /\ stamp' = [stamp EXCEPT ![e] = d]
          /\ skipped' = IF Behind(Carrier[e], d) THEN skipped \cup ({e} \X Readers(Carrier[e])) ELSE skipped
    BY DEF Post
  <2>2. stamp'[e] = d /\ d \in Nat
    BY <2>1 DEF IInv, TypeOK
  <2> QED
    BY <2>1, <2>2 DEF Post, IInv, TypeOK
<1>a. /\ TypeOK /\ WindowsHeld /\ KeysComplete /\ WholeLanded /\ CandidateCovered
      /\ Phases /\ NoGap
    BY DEF IInv
<1>b. ASSUME NEW x \in Events, NEW s \in Readers(Carrier[x]), <<x, s>> \notin skipped', Posted(x)',
             Behind(Carrier[x], stamp'[x])
      PROVE  Posted(x) /\ stamp'[x] = stamp[x] /\ <<x, s>> \notin skipped
  <2>1. x # e
    BY <1>1, <1>b
  <2> QED
    BY <1>1, <1>b, <2>1 DEF Posted
<1>4. Seedable' /\ WindowsHeld' /\ ParentsFirst' /\ Phases'
    BY <1>1 DEF IInv, Seedable, WindowsHeld, ParentsFirst, Phases, NoSweep, dbVars, sweepVars
<1>5. KeysComplete'
  <2> SUFFICES ASSUME NEW p \in cached, NEW x \in Events, Posted(x)', Carrier[x] = p,
                      NEW s \in Readers(p), <<x, s>> \notin skipped',
                      candidate[p] # NoDay, window[p] <= stamp'[x], stamp'[x] < candidate[p]
               PROVE  x \in keys[p]
    BY <1>1 DEF KeysComplete, Readers, sweepVars
  <2>1. Posted(x) /\ stamp'[x] = stamp[x] /\ <<x, s>> \notin skipped
    BY <1>b DEF Behind
  <2> QED
    BY <1>a, <2>1 DEF KeysComplete
<1>6. WholeLanded'
  <2> SUFFICES ASSUME NEW s \in forced, NEW x \in Events, outcome[s] = "fetched",
                      <<x, s>> \notin skipped',
                      Posted(x)', s \in Readers(Carrier[x]), stamp'[x] < window[Carrier[x]]
               PROVE  x \in rows[s]
    BY <1>1 DEF WholeLanded, Readers, dbVars, sweepVars
  <2>1. Carrier[x] \in Direct /\ Carrier[x] \in Owners(chosen)
    <3>1. s \in chosen /\ Carrier[x] \in Direct
      BY <1>a DEF Phases
    <3> QED
      BY <1>a, <3>1, ReadersAreOwned
  <2>2. pc \in {"fetch", "load"}
    BY <1>a DEF Phases, NoSweep, TypeOK, Readers
  <2>3. mark[Carrier[x]] # NoDay /\ window[Carrier[x]] = mark[Carrier[x]]
    BY <1>a, <2>1, <2>2 DEF WindowsHeld
  <2>4. Posted(x) /\ stamp'[x] = stamp[x] /\ <<x, s>> \notin skipped
    BY <1>b, <2>3 DEF Behind
  <2> QED
    BY <1>a, <2>4 DEF WholeLanded
<1>7. CandidateCovered'
  <2> SUFFICES ASSUME NEW x \in Events, NEW s \in Readers(Carrier[x]), <<x, s>> \notin skipped',
                      Posted(x)', candidate[Carrier[x]] # NoDay, stamp'[x] < candidate[Carrier[x]]
               PROVE  /\ outcome[s] = "fetched" =>
                            x \in rows[s] \/ (s \notin forced /\ stamp'[x] < window[Carrier[x]])
                      /\ outcome[s] = "loaded" => x \in raw[s]
    BY <1>1 DEF CandidateCovered, Readers, dbVars, sweepVars
  <2>1. Posted(x) /\ stamp'[x] = stamp[x] /\ <<x, s>> \notin skipped
    BY <1>b DEF Behind
  <2> QED
    BY <1>a, <2>1 DEF CandidateCovered
<1>8. NoGap'
  <2> SUFFICES ASSUME NEW x \in Events, NEW s \in Readers(Carrier[x]), Posted(x)',
                      <<x, s>> \notin skipped',
                      s \in populated, mark[Carrier[x]] # NoDay, stamp'[x] < mark[Carrier[x]]
               PROVE  x \in raw[s]
    BY <1>1 DEF NoGap, Readers, dbVars, sweepVars
  <2>1. Posted(x) /\ stamp'[x] = stamp[x] /\ <<x, s>> \notin skipped
    BY <1>b DEF Behind
  <2> QED
    BY <1>a, <2>1 DEF NoGap
<1> QED
    BY <1>4, <1>5, <1>6, <1>7, <1>8 DEF IInv
\* The calendar alone changes nothing.
LEMMA MidnightStep ==
    ASSUME IInv, Midnight, TypeOK'
    PROVE  IInv'
<1>1. UNCHANGED <<stamp, dbVars, sweepVars, skipped, faults>>
    BY DEF Midnight
<1>2. Seedable' /\ WindowsHeld' /\ ParentsFirst' /\ Phases'
    BY <1>1 DEF IInv, Seedable, WindowsHeld, ParentsFirst, Phases, NoSweep, dbVars, sweepVars
<1>3. KeysComplete' /\ WholeLanded' /\ CandidateCovered' /\ NoGap'
    BY <1>1 DEF IInv, KeysComplete, WholeLanded, CandidateCovered, NoGap, Posted, Readers,
                dbVars, sweepVars
<1> QED
    BY <1>2, <1>3 DEF IInv

\* A wipe empties every table: nothing is claimed of an empty one.
LEMMA WipeStep ==
    ASSUME IInv, Wipe, TypeOK'
    PROVE  IInv'
<1> USE SetsAssumption, EventsAssumption, DaysAssumption
<1>1. /\ pc = "idle" /\ populated' = {} /\ \A p \in Direct : mark[p] # NoDay
      /\ UNCHANGED <<sapVars, mark, loadDay, sweepVars, skipped>>
    BY DEF Wipe
<1>2. NoSweep
    BY <1>1 DEF IInv, Phases
<1>3. Seedable'
    BY <1>1 DEF IInv, Seedable, sapVars, sweepVars
<1>4. WindowsHeld' /\ ParentsFirst' /\ Phases'
    BY <1>1, <1>2 DEF IInv, WindowsHeld, ParentsFirst, Phases, NoSweep, sweepVars
<1>5. KeysComplete' /\ WholeLanded' /\ CandidateCovered'
  <2>1. (Carrier \in [Events -> Direct]) /\ NoSweep'
    BY <1>1, <1>2 DEF NoSweep, sweepVars
  <2> QED
    BY <2>1 DEF NoSweep, KeysComplete, WholeLanded, CandidateCovered
<1>6. NoGap'
    BY <1>1 DEF NoGap
<1> QED
    BY <1>3, <1>4, <1>5, <1>6 DEF IInv

\* A sweep that ends, or dies, leaves the tables and the marks as they are.
LEMMA ResetStep ==
    ASSUME IInv, Reset, UNCHANGED <<sapVars, dbVars, skipped>>, TypeOK'
    PROVE  IInv'
<1> USE SetsAssumption, EventsAssumption, DaysAssumption
<1>1. NoSweep'
    BY DEF Reset, NoSweep
<1>2. /\ WindowsHeld' /\ ParentsFirst' /\ KeysComplete' /\ WholeLanded' /\ CandidateCovered'
      /\ Phases'
    BY <1>1 DEF NoSweep, WindowsHeld, ParentsFirst, KeysComplete, WholeLanded,
                CandidateCovered, Phases
<1>3. Seedable' /\ NoGap'
    BY <1>1 DEF IInv, NoSweep, Seedable, NoGap, Posted, Readers, sapVars, dbVars
<1> QED
    BY <1>2, <1>3 DEF IInv
\* Seeding a mark at the load day less the margin passes no event, since every
\* event is dated after the extract.
LEMMA BeginStep ==
    ASSUME IInv, Deployed, NEW C \in Choices, Begin(C), TypeOK'
    PROVE  IInv'
<1> USE SetsAssumption, EventsAssumption, DaysAssumption
<1>1. /\ pc = "idle" /\ pc' = "fetch" /\ chosen' = C /\ todo' = C
      /\ mark' = Seeded(C) /\ window' = ResolveWindows(C) /\ forced' = C \ populated
      /\ UNCHANGED <<sapVars, raw, populated, loadDay, cached, keys, rows, candidate, outcome, skipped, faults>>
    BY DEF Begin, ForcedFull
<1>2. TypeOK /\ Seedable /\ NoGap /\ NoSweep
    BY <1>1 DEF IInv, Phases
<1>3. C \subseteq Sets /\ Owners(C) \subseteq Direct
    BY DEF Owners
<1>4. ASSUME NEW p \in Direct
      PROVE  /\ mark'[p] # NoDay => mark'[p] \in Int
             /\ mark[p] # NoDay => mark'[p] = mark[p]
             /\ mark[p] = NoDay /\ mark'[p] # NoDay => mark'[p] <= 0
             /\ p \in Owners(C) => mark'[p] # NoDay /\ window'[p] = mark'[p]
             /\ p \notin Owners(C) => mark'[p] = mark[p] /\ window'[p] = NoDay
  <2>1. CASE mark[p] = NoDay
    BY <1>1, <1>2, <2>1 DEF Seeded, ResolveWindows, Seedable, TypeOK, Day
  <2>2. CASE mark[p] # NoDay
    BY <1>1, <1>2, <2>2 DEF Seeded, ResolveWindows, TypeOK, Day
  <2> QED
    BY <2>1, <2>2
<1>6. Seedable'
    BY <1>1, <1>2, <1>4 DEF Seedable
<1>7. WindowsHeld'
    BY <1>1, <1>3, <1>4 DEF WindowsHeld, Owners
<1>8. ParentsFirst' /\ Phases'
    BY <1>1, <1>2, <1>3 DEF ParentsFirst, Phases, NoSweep
<1>9. KeysComplete' /\ WholeLanded' /\ CandidateCovered'
    BY <1>1, <1>2, <1>3 DEF NoSweep, KeysComplete, WholeLanded, CandidateCovered, Readers
<1>10. NoGap'
  <2> SUFFICES ASSUME NEW x \in Events, NEW s \in Readers(Carrier[x]), Posted(x),
                      <<x, s>> \notin skipped,
                      s \in populated, mark'[Carrier[x]] # NoDay, stamp[x] < mark'[Carrier[x]]
               PROVE  x \in raw[s]
    BY <1>1 DEF NoGap, Readers, Posted, sapVars
  <2>1. mark[Carrier[x]] # NoDay
    BY <1>2, <1>4 DEF TypeOK, Posted
  <2> QED
    BY <1>2, <1>4, <2>1 DEF NoGap
<1> QED
    BY <1>6, <1>7, <1>8, <1>9, <1>10 DEF IInv

\* Keys are collected when the parent itself is done: all it dated below its
\* candidate is in SAP by then.
LEMMA CollectKeysStep ==
    ASSUME IInv, NEW s \in Sets, NEW p \in Via[s], CollectKeys(s, p), Deployed, TypeOK'
    PROVE  IInv'
<1> USE SetsAssumption, EventsAssumption, DaysAssumption
<1>1. /\ pc = "fetch" /\ s \in todo /\ p \in Direct
      /\ \A t \in todo : Before(s, t)
      /\ keys' = [keys EXCEPT ![p] = OwnWindow(p)] /\ cached' = cached \cup {p}
      /\ UNCHANGED <<sapVars, dbVars, pc, chosen, window, forced, todo, rows, candidate, outcome, skipped, faults>>
    BY DEF CollectKeys, IsNext
<1>2. TypeOK /\ ParentsFirst /\ KeysComplete
    BY DEF IInv
<1>3. p \notin todo
  <2> SUFFICES ASSUME p \in todo PROVE FALSE
    OBVIOUS
  <2>1. s \in chosen /\ p \in chosen /\ IsParent(p) /\ Before(s, p)
    BY <1>1, <1>2 DEF TypeOK, IsParent
  <2>2. Name[p] < Name[s] \/ ~IsParent(s)
    BY <1>1, <1>2, <2>1 DEF IsParent, Deployed, ChainsInOrder, TypeOK
  <2> QED
    BY <1>1, <2>1, <2>2 DEF Before
<1>4. ParentsFirst'
    BY <1>1, <1>2, <1>3 DEF ParentsFirst
<1>5. KeysComplete'
    BY <1>1, <1>2 DEF KeysComplete, OwnWindow, Posted, TypeOK, sapVars
<1>6. Seedable' /\ WindowsHeld' /\ Phases'
    BY <1>1 DEF IInv, Seedable, WindowsHeld, Phases, NoSweep, sapVars, dbVars
<1>7. WholeLanded' /\ CandidateCovered' /\ NoGap'
    BY <1>1 DEF IInv, WholeLanded, CandidateCovered, NoGap, Posted, Readers, sapVars, dbVars
<1> QED
    BY <1>4, <1>5, <1>6, <1>7 DEF IInv
\* While a sweep fetches or loads, its windows are the marks: by NoGap a table
\* that holds rows holds all that lies below the window.
LEMMA BelowWindow ==
    ASSUME IInv, pc \in {"fetch", "load"}, NEW s \in chosen \ forced, NEW e \in Events,
           s \in Readers(Carrier[e]), Posted(e), stamp[e] < window[Carrier[e]], <<e, s>> \notin skipped
    PROVE  e \in raw[s]
<1> USE SetsAssumption, EventsAssumption, DaysAssumption
<1>1. TypeOK /\ WindowsHeld /\ NoGap /\ Carrier[e] \in Direct /\ s \in chosen
    BY DEF IInv
<1>2. Carrier[e] \in Owners(chosen)
    BY <1>1, ReadersAreOwned
<1>3. mark[Carrier[e]] = window[Carrier[e]] /\ mark[Carrier[e]] # NoDay /\ s \in populated
    BY <1>1, <1>2 DEF WindowsHeld
<1> QED
    BY <1>1, <1>3 DEF NoGap

\* A chosen set is read whole only when its table is empty: every window is known.
LEMMA WholeIsForced ==
    ASSUME IInv, pc # "idle", NEW s \in chosen
    PROVE  Whole(s) <=> s \in forced
<1> USE SetsAssumption
<1>1. TypeOK /\ WindowsHeld
    BY DEF IInv
<1>2. s \in Direct => s \in Owners(chosen)
    BY DEF Owners
<1>3. \A p \in Via[s] : p \in Owners(chosen)
    BY DEF Owners
<1> QED
    BY <1>1, <1>2, <1>3 DEF Whole, WindowsHeld

\* What a fetch lands covers everything below the candidate of every set it
\* reads through, and below its own.
LEMMA FetchStep ==
    ASSUME IInv, Deployed, NEW s \in Sets, Fetch(s), TypeOK'
    PROVE  IInv'
<1> USE SetsAssumption, EventsAssumption, DaysAssumption
<1>0. PICK ceiling \in Ceilings : \E c \in MarkDays(s, ceiling) \cup {OldDay, NoDay} :
         IsCandidate(s, c, ceiling) /\ candidate' = [candidate EXCEPT ![s] = c]
    BY DEF Fetch
<1>1. PICK c \in MarkDays(s, ceiling) \cup {OldDay, NoDay} :
         IsCandidate(s, c, ceiling) /\ candidate' = [candidate EXCEPT ![s] = c]
    BY <1>0
<1>2. /\ pc = "fetch" /\ s \in todo /\ \A t \in todo : Before(s, t)
      /\ Whole(s) \/ Via[s] \subseteq cached
      /\ rows' = [rows EXCEPT ![s] = FetchedRows(s)]
      /\ outcome' = [outcome EXCEPT ![s] = "fetched"]
      /\ todo' = todo \ {s}
      /\ UNCHANGED <<sapVars, dbVars, pc, chosen, window, forced, cached, keys, skipped, faults>>
    BY DEF Fetch, IsNext
<1>3. /\ TypeOK /\ WindowsHeld /\ ParentsFirst /\ KeysComplete /\ WholeLanded
      /\ CandidateCovered /\ Phases
    BY DEF IInv
<1>4. s \in chosen /\ s \notin cached /\ outcome[s] = "none"
    BY <1>2, <1>3 DEF TypeOK, ParentsFirst
<1>5. Whole(s) <=> s \in forced
    BY <1>2, <1>4, WholeIsForced
<1>8. Seedable' /\ WindowsHeld'
    BY <1>2 DEF IInv, Seedable, WindowsHeld, dbVars
<1>9. ASSUME NEW t \in chosen, s \in Via[t] PROVE t \in todo /\ t # s
    BY <1>2, <1>3, <1>9 DEF ParentsFirst
<1>10. ParentsFirst'
  <2>1. ASSUME NEW t \in chosen, NEW p \in Via[t], p \in todo'
        PROVE  t \in todo'
    <3> SUFFICES ASSUME t = s PROVE FALSE
      BY <1>2, <1>3, <2>1 DEF ParentsFirst
    <3>1. p \in chosen /\ IsParent(p) /\ Before(s, p) /\ p \in Via[s] /\ p \in Sets
      BY <1>2, <1>3, <1>4, <2>1 DEF TypeOK, IsParent
    <3>2. Name[p] < Name[s] \/ ~IsParent(s)
      BY <1>3, <3>1 DEF IsParent, Deployed, ChainsInOrder, TypeOK
    <3> QED
      BY <3>1, <3>2 DEF Before
  <2> QED
    BY <1>2, <1>3, <2>1 DEF ParentsFirst, TypeOK
<1>11. KeysComplete'
  <2>1. \A p \in cached : candidate'[p] = candidate[p]
    BY <1>1, <1>3, <1>4 DEF TypeOK
  <2> QED
    BY <1>2, <1>3, <2>1 DEF KeysComplete, Posted, Readers, sapVars
<1>12. WholeLanded'
  <2>1. s \in forced => FetchedRows(s) = {e \in Events : Posted(e) /\ s \in Readers(Carrier[e])}
    BY <1>5 DEF FetchedRows
  <2> QED
    BY <1>2, <1>3, <2>1 DEF WholeLanded, Posted, TypeOK, Readers, sapVars
<1>13. CandidateCovered'
  <2> SUFFICES ASSUME NEW e \in Events, NEW r \in Readers(Carrier[e]), Posted(e),
                      <<e, r>> \notin skipped,
                      candidate'[Carrier[e]] # NoDay, stamp[e] < candidate'[Carrier[e]]
               PROVE  /\ outcome'[r] = "fetched" =>
                            e \in rows'[r] \/ (r \notin forced /\ stamp[e] < window[Carrier[e]])
                      /\ outcome'[r] = "loaded" => e \in raw[r]
    BY <1>2 DEF CandidateCovered, Readers, Posted, sapVars, dbVars
  <2>0. r \in Sets /\ Carrier[e] \in Direct /\ Carrier[e] \in Sets
    BY DEF Readers
  <2>1. CASE r = s /\ s \in forced
    BY <1>2, <1>3, <1>5, <2>0, <2>1 DEF FetchedRows, TypeOK
  <2>2. CASE r = s /\ s \notin forced /\ Carrier[e] = s
    BY <1>2, <1>3, <1>5, <2>0, <2>2 DEF FetchedRows, OwnWindow, TypeOK, WindowsHeld, Owners, Day, Posted
  <2>3. CASE r = s /\ s \notin forced /\ Carrier[e] # s
    <3>1. Carrier[e] \in Via[s] /\ Carrier[e] \in cached
      BY <1>2, <1>5, <2>0, <2>3 DEF Readers
    <3>2. candidate'[Carrier[e]] = candidate[Carrier[e]]
      BY <1>1, <1>3, <2>0, <2>3 DEF TypeOK
    <3>3. window[Carrier[e]] \in Int /\ stamp[e] \in Int
      BY <1>2, <1>3, <1>4, <2>0, <3>1 DEF WindowsHeld, Owners, TypeOK, Day, Posted
    <3>4. stamp[e] >= window[Carrier[e]] => e \in keys[Carrier[e]]
      BY <1>3, <2>3, <3>1, <3>2, <3>3 DEF KeysComplete
    <3> QED
      BY <1>2, <1>3, <1>5, <2>0, <2>3, <3>1, <3>3, <3>4 DEF FetchedRows, TypeOK
  <2>4. CASE r # s /\ Carrier[e] # s
    BY <1>1, <1>2, <1>3, <2>0, <2>4 DEF CandidateCovered, TypeOK
  <2>5. CASE r # s /\ Carrier[e] = s
    <3>1. s \in Via[r]
      BY <2>5 DEF Readers
    <3>2. outcome[r] = "none"
      BY <1>2, <1>3, <1>9, <2>0, <3>1 DEF Phases, ParentsFirst, TypeOK
    <3> QED
      BY <1>2, <1>3, <2>0, <2>5, <3>2 DEF TypeOK
  <2> QED
    BY <2>1, <2>2, <2>3, <2>4, <2>5
<1>14. Phases' /\ NoGap'
    BY <1>2, <1>3, <1>4 DEF IInv, Phases, NoGap, Readers, Posted, TypeOK, sapVars, dbVars
<1> QED
    BY <1>8, <1>10, <1>11, <1>12, <1>13, <1>14 DEF IInv
\* A set taken off the list without its rows claims nothing.
LEMMA FetchFailsStep ==
    ASSUME IInv, Deployed, NEW s \in Sets, FetchFails(s), TypeOK'
    PROVE  IInv'
<1> USE SetsAssumption, EventsAssumption, DaysAssumption
<1>1. /\ pc = "fetch" /\ s \in todo /\ \A t \in todo : Before(s, t)
      /\ outcome' = [outcome EXCEPT ![s] = "failed"] /\ todo' = todo \ {s}
      /\ UNCHANGED <<sapVars, dbVars, pc, chosen, window, forced, cached, keys, rows, candidate, skipped>>
    BY DEF FetchFails, IsNext
<1>2. TypeOK /\ ParentsFirst /\ WholeLanded /\ CandidateCovered /\ Phases /\ s \in chosen
    BY <1>1 DEF IInv, TypeOK
<1>3. ParentsFirst'
  <2>1. ASSUME NEW t \in chosen, NEW p \in Via[t], p \in todo'
        PROVE  t \in todo'
    <3> SUFFICES ASSUME t = s PROVE FALSE
      BY <1>1, <1>2, <2>1 DEF ParentsFirst
    <3>1. p \in chosen /\ IsParent(p) /\ Before(s, p) /\ p \in Via[s] /\ p \in Sets
      BY <1>1, <1>2, <2>1 DEF TypeOK, IsParent
    <3>2. Name[p] < Name[s] \/ ~IsParent(s)
      BY <1>2, <3>1 DEF IsParent, Deployed, ChainsInOrder, TypeOK
    <3> QED
      BY <3>1, <3>2 DEF Before
  <2> QED
    BY <1>1, <1>2, <2>1 DEF ParentsFirst, TypeOK
<1>4. WholeLanded' /\ CandidateCovered'
    BY <1>1, <1>2 DEF WholeLanded, CandidateCovered, Readers, Posted, TypeOK, sapVars, dbVars
<1>5. Phases'
    BY <1>1, <1>2 DEF Phases, TypeOK
<1>6. Seedable' /\ WindowsHeld' /\ KeysComplete' /\ NoGap'
    BY <1>1 DEF IInv, Seedable, WindowsHeld, KeysComplete, NoGap, Posted, Readers, sapVars, dbVars
<1> QED
    BY <1>3, <1>4, <1>5, <1>6 DEF IInv

\* A change of phase touches neither tables nor marks.
LEMMA StartLoadsStep ==
    ASSUME IInv, StartLoads, TypeOK'
    PROVE  IInv'
<1>1. /\ pc = "fetch" /\ pc' = "load" /\ todo' = {s \in chosen : outcome[s] = "fetched"}
      /\ UNCHANGED <<sapVars, dbVars, chosen, window, forced, cached, keys, rows, candidate, outcome, skipped, faults>>
    BY DEF StartLoads
<1>2. WindowsHeld' /\ ParentsFirst' /\ Phases'
    BY <1>1 DEF IInv, WindowsHeld, ParentsFirst, Phases, dbVars
<1>3. Seedable' /\ KeysComplete' /\ WholeLanded' /\ CandidateCovered' /\ NoGap'
    BY <1>1 DEF IInv, Seedable, KeysComplete, WholeLanded, CandidateCovered, NoGap,
                Posted, Readers, sapVars, dbVars
<1> QED
    BY <1>2, <1>3 DEF IInv

LEMMA StartMarksStep ==
    ASSUME IInv, StartMarks, TypeOK'
    PROVE  IInv'
<1>1. /\ pc = "load" /\ pc' = "marks" /\ todo = {} /\ todo' = chosen \cap Direct
      /\ UNCHANGED <<sapVars, dbVars, chosen, window, forced, cached, keys, rows, candidate, outcome, skipped, faults>>
    BY DEF StartMarks
<1>2. WindowsHeld' /\ ParentsFirst' /\ Phases'
    BY <1>1 DEF IInv, WindowsHeld, ParentsFirst, Phases, dbVars
<1>3. Seedable' /\ KeysComplete' /\ WholeLanded' /\ CandidateCovered' /\ NoGap'
    BY <1>1 DEF IInv, Seedable, KeysComplete, WholeLanded, CandidateCovered, NoGap,
                Posted, Readers, sapVars, dbVars
<1> QED
    BY <1>2, <1>3 DEF IInv

\* A merge only adds rows.  A table it fills was pulled whole, so it holds all
\* that lies below every mark of its family.
LEMMA MergeStep ==
    ASSUME IInv, pc = "load", NEW s \in todo, Merge(s), NEW o \in {"loaded", "failed"},
           outcome' = [outcome EXCEPT ![s] = o], todo' = todo \ {s},
           UNCHANGED <<sapVars, mark, pc, chosen, window, forced, cached, keys, rows, candidate, skipped>>,
           TypeOK'
    PROVE  IInv'
<1> USE SetsAssumption, EventsAssumption, DaysAssumption
<1>1. /\ TypeOK /\ Seedable /\ WindowsHeld /\ KeysComplete /\ WholeLanded
      /\ CandidateCovered /\ Phases /\ NoGap /\ s \in chosen /\ s \in Sets /\ outcome[s] = "fetched"
    BY DEF IInv, Phases, TypeOK
<1>2. raw' = [raw EXCEPT ![s] = @ \cup rows[s]] /\ populated' = populated \cup {s}
    BY DEF Merge
<1>3. ASSUME NEW t \in Sets, NEW e \in Events PROVE e \in raw[t] => e \in raw'[t]
    BY <1>1, <1>2 DEF TypeOK
<1>4. loadDay' = loadDay
  <2>1. s \in Direct => mark[s] # NoDay
    BY <1>1 DEF WindowsHeld, Owners
  <2> QED
    BY <2>1 DEF Merge
<1>5. Seedable' /\ WindowsHeld'
    BY <1>1, <1>2, <1>4 DEF Seedable, WindowsHeld, sapVars
<1>6. ParentsFirst' /\ KeysComplete' /\ Phases'
    BY <1>1 DEF ParentsFirst, KeysComplete, Phases, Posted, TypeOK, sapVars
<1>7. WholeLanded'
    BY <1>1 DEF WholeLanded, Readers, Posted, TypeOK, sapVars
<1>8. CandidateCovered'
  <2> SUFFICES ASSUME NEW e \in Events, NEW r \in Readers(Carrier[e]), Posted(e),
                      <<e, r>> \notin skipped,
                      candidate[Carrier[e]] # NoDay, stamp[e] < candidate[Carrier[e]]
               PROVE  /\ outcome'[r] = "fetched" =>
                            e \in rows[r] \/ (r \notin forced /\ stamp[e] < window[Carrier[e]])
                      /\ outcome'[r] = "loaded" => e \in raw'[r]
    BY DEF CandidateCovered, Readers, Posted, sapVars
  <2>0. r \in Sets /\ Carrier[e] \in Direct
    BY DEF Readers
  <2>1. CASE r # s
    BY <1>1, <1>3, <2>0, <2>1 DEF CandidateCovered, TypeOK
  <2>2. CASE r = s /\ e \in rows[s]
    BY <1>1, <1>2, <2>0, <2>2 DEF TypeOK
  <2>3. CASE r = s /\ e \notin rows[s]
    <3>1. s \notin forced /\ stamp[e] < window[Carrier[e]]
      BY <1>1, <2>3 DEF CandidateCovered
    <3>2. e \in raw[s]
      BY <1>1, <2>3, <3>1, BelowWindow
    <3> QED
      BY <1>1, <1>3, <2>0, <2>3, <3>2 DEF TypeOK
  <2> QED
    BY <2>1, <2>2, <2>3
<1>9. NoGap'
  <2> SUFFICES ASSUME NEW e \in Events, NEW r \in Readers(Carrier[e]), Posted(e),
                      <<e, r>> \notin skipped,
                      r \in populated', mark[Carrier[e]] # NoDay, stamp[e] < mark[Carrier[e]]
               PROVE  e \in raw'[r]
    BY DEF NoGap, Readers, Posted, sapVars
  <2>0. r \in Sets /\ Carrier[e] \in Direct
    BY DEF Readers
  <2>1. CASE r \in populated
    BY <1>1, <1>3, <2>0, <2>1 DEF NoGap
  <2>2. CASE r \notin populated
    <3>1. r = s /\ s \in forced
      BY <1>1, <1>2, <2>2 DEF WindowsHeld
    <3>2. mark[Carrier[e]] = window[Carrier[e]]
      BY <1>1, <2>0, <3>1, ReadersAreOwned DEF WindowsHeld
    <3>3. e \in rows[s]
      BY <1>1, <3>1, <3>2 DEF WholeLanded
    <3> QED
      BY <1>1, <1>2, <3>1, <3>3 DEF TypeOK
  <2> QED
    BY <2>1, <2>2
<1> QED
    BY <1>5, <1>6, <1>7, <1>8, <1>9 DEF IInv

\* A refused merge claims nothing.
LEMMA RefusedStep ==
    ASSUME IInv, pc = "load", NEW s \in todo, UNCHANGED <<raw, populated, loadDay>>,
           outcome' = [outcome EXCEPT ![s] = "failed"], todo' = todo \ {s},
           UNCHANGED <<sapVars, mark, pc, chosen, window, forced, cached, keys, rows, candidate, skipped>>,
           TypeOK'
    PROVE  IInv'
<1> USE SetsAssumption, EventsAssumption, DaysAssumption
<1>1. TypeOK /\ s \in Sets /\ s \in chosen
    BY DEF IInv, TypeOK
<1>2. Seedable' /\ WindowsHeld' /\ ParentsFirst' /\ KeysComplete' /\ NoGap'
    BY DEF IInv, Seedable, WindowsHeld, ParentsFirst, KeysComplete, NoGap, Posted, Readers, sapVars
<1>3. WholeLanded' /\ CandidateCovered'
    BY <1>1 DEF IInv, WholeLanded, CandidateCovered, Readers, Posted, TypeOK, sapVars
<1>4. Phases'
    BY <1>1 DEF IInv, Phases, TypeOK
<1> QED
    BY <1>2, <1>3, <1>4 DEF IInv

\* The mark moves to a candidate only when what was chosen of the family is
\* loaded; what the rest lacks is skipped.
LEMMA SetMarkStep ==
    ASSUME IInv, NEW p \in Direct, SetMark(p), TypeOK'
    PROVE  IInv'
<1> USE SetsAssumption, EventsAssumption, DaysAssumption
<1>1. /\ pc = "marks" /\ p \in todo /\ todo' = todo \ {p}
      /\ \/ /\ Settled(p) /\ candidate[p] # NoDay
            /\ mark' = [mark EXCEPT ![p] = candidate[p]] /\ skipped' = skipped \cup LeftOut(p)
         \/ UNCHANGED <<mark, skipped>>
      /\ UNCHANGED <<sapVars, raw, populated, loadDay, pc, chosen, window, forced, cached, keys, rows,
                     candidate, outcome, faults>>
    BY DEF SetMark
<1>2. TypeOK /\ WindowsHeld /\ CandidateCovered /\ NoGap /\ p \in chosen
    BY <1>1 DEF IInv, TypeOK
<1>3. ASSUME NEW q \in Direct
      PROVE  \/ mark'[q] = mark[q]
             \/ /\ q = p /\ Settled(p) /\ candidate[p] # NoDay /\ mark'[p] = candidate[p]
                /\ skipped' = skipped \cup LeftOut(p)
    BY <1>1, <1>2 DEF TypeOK
<1>4. skipped \subseteq skipped'
    BY <1>1
<1>5. Seedable' /\ WindowsHeld'
  <2>1. Owners(chosen) \subseteq Direct
    BY <1>2 DEF Owners, TypeOK
  <2> QED
    BY <1>1, <1>2, <1>3, <2>1 DEF IInv, Seedable, WindowsHeld
<1>6. ParentsFirst' /\ KeysComplete' /\ WholeLanded' /\ CandidateCovered' /\ Phases'
    BY <1>1, <1>4 DEF IInv, ParentsFirst, KeysComplete, WholeLanded, CandidateCovered, Phases, Posted,
                Readers, sapVars
<1>7. NoGap'
  <2> SUFFICES ASSUME NEW e \in Events, NEW r \in Readers(Carrier[e]), Posted(e),
                      <<e, r>> \notin skipped',
                      r \in populated, mark'[Carrier[e]] # NoDay, stamp[e] < mark'[Carrier[e]]
               PROVE  e \in raw[r]
    BY <1>1 DEF NoGap, Readers, Posted, sapVars
  <2>0. <<e, r>> \notin skipped /\ r \in Sets
    BY <1>4 DEF Readers
  <2>1. CASE mark'[Carrier[e]] = mark[Carrier[e]]
    BY <1>2, <2>0, <2>1 DEF NoGap
  <2>2. CASE /\ Carrier[e] = p /\ Settled(p) /\ candidate[p] # NoDay /\ mark'[p] = candidate[p]
             /\ skipped' = skipped \cup LeftOut(p)
    <3>1. CASE r \in chosen
      <4>1. outcome[r] = "loaded"
        BY <2>2, <3>1 DEF Settled
      <4> QED
        BY <1>2, <2>0, <2>2, <4>1 DEF CandidateCovered
    <3>2. CASE r \notin chosen
      BY <2>0, <2>2, <3>2 DEF LeftOut
    <3> QED
      BY <3>1, <3>2
  <2> QED
    BY <1>3, <2>1, <2>2
<1> QED
    BY <1>5, <1>6, <1>7 DEF IInv

\* IInv is inductive.
LEMMA IInvStep == Deployed /\ IInv /\ [Next]_vars => IInv'
<1> SUFFICES ASSUME Deployed, IInv, [Next]_vars PROVE IInv'
    OBVIOUS
<1>0. TypeOK'
    BY TypeStep DEF IInv
<1>1. ASSUME NEW e \in Events, Post(e) PROVE IInv'
    BY <1>0, <1>1, PostStep
<1>2. CASE Midnight
    BY <1>0, <1>2, MidnightStep
<1>3. CASE Wipe
    BY <1>0, <1>3, WipeStep
<1>4. ASSUME NEW C \in Choices, Begin(C) PROVE IInv'
    BY <1>0, <1>4, BeginStep
<1>5. ASSUME NEW s \in Sets, NEW p \in Via[s], CollectKeys(s, p) PROVE IInv'
    BY <1>0, <1>5, CollectKeysStep
<1>6. ASSUME NEW s \in Sets, Fetch(s) PROVE IInv'
    BY <1>0, <1>6, FetchStep
<1>7. ASSUME NEW s \in Sets, FetchFails(s) PROVE IInv'
    BY <1>0, <1>7, FetchFailsStep
<1>8. ASSUME NEW s \in Sets, Load(s) PROVE IInv'
    BY <1>0, <1>8, MergeStep DEF Load, IsNext
<1>9. ASSUME NEW s \in Sets, LoadFails(s) PROVE IInv'
    BY <1>0, <1>9, MergeStep, RefusedStep DEF LoadFails, IsNext
<1>10. CASE StartLoads
    BY <1>0, <1>10, StartLoadsStep
<1>11. CASE StartMarks
    BY <1>0, <1>11, StartMarksStep
<1>12. ASSUME NEW p \in Direct, SetMark(p) PROVE IInv'
    BY <1>0, <1>12, SetMarkStep
<1>13. CASE EndSweep
    BY <1>0, <1>13, ResetStep DEF EndSweep
<1>14. CASE Crash
    BY <1>0, <1>14, ResetStep DEF Crash
<1>15. CASE UNCHANGED vars
    BY <1>0, <1>15 DEF IInv, Seedable, WindowsHeld, ParentsFirst, KeysComplete, WholeLanded,
           CandidateCovered, Phases, NoSweep, NoGap, Posted, Readers, vars, sapVars, dbVars, sweepVars
<1> QED
    BY <1>1, <1>2, <1>3, <1>4, <1>5, <1>6, <1>7, <1>8, <1>9, <1>10, <1>11, <1>12, <1>13,
       <1>14, <1>15 DEF Next, SweepStep, Fault

\* A watermark never passes a change that has not reached every populated table
\* it alters, for every family of sets, every selection of them and every date,
\* but what the steps of Post and SetMark record as skipped.
THEOREM NoGapHolds ==
    ASSUME Deployed
    PROVE  Spec => []NoGap
<1>1. Init => IInv
    BY InitIInv
<1>2. IInv /\ [Next]_vars => IInv'
    BY IInvStep
<1>3. IInv => NoGap
    BY DEF IInv
<1> QED
    BY <1>1, <1>2, <1>3, PTL DEF Spec
----------------------------------------------------------------------------
(* What NoGap leaves out: nothing, where dates are sound and families whole. *)

\* No candidate of an on-time table lies ahead of the calendar, whatever the ceiling.
LEMMA CandidateOnTime ==
    ASSUME TypeOK, OnTime, NEW s \in Sets, Fetch(s)
    PROVE  \A p \in Direct : candidate'[p] # NoDay => candidate'[p] <= today
<1> USE SetsAssumption, EventsAssumption, DaysAssumption
<1>1. PICK ceiling \in Ceilings : \E c \in MarkDays(s, ceiling) \cup {OldDay, NoDay} :
         IsCandidate(s, c, ceiling) /\ candidate' = [candidate EXCEPT ![s] = c]
    BY DEF Fetch
<1>2. PICK c \in MarkDays(s, ceiling) \cup {OldDay, NoDay} : candidate' = [candidate EXCEPT ![s] = c]
    BY <1>1
<1>3. today \in Nat /\ today <= MaxDay /\ ceiling \in Nat /\ ceiling <= MaxDay + 1
    BY DEF Ceilings, TypeOK
<1>4. c # NoDay => c <= today
  <2>1. CASE c = OldDay
    BY <1>3, <2>1 DEF OldDay
  <2>2. CASE c \in MarkDays(s, ceiling) /\ c # OldDay
    <3>1. PICK e \in Events : Posted(e) /\ c = stamp[e] /\ c <= ceiling
      BY <2>2 DEF MarkDays, OwnWindow
    <3>2. c \in Nat
      BY <3>1 DEF TypeOK, Posted
    <3> QED
      BY <1>3, <3>1, <3>2 DEF OnTime
  <2> QED
    BY <1>2, <2>1, <2>2
<1> QED
    BY <1>2, <1>4 DEF OnTime, TypeOK

LEMMA SkipsNothingInit == Init => OnTime /\ NothingSkipped
BY SetsAssumption, DaysAssumption DEF Init, NoSweep, OnTime, NothingSkipped, Posted

LEMMA SkipsNothingStep ==
    ASSUME WellDated, WholeFamilies, TypeOK, TypeOK', OnTime, NothingSkipped, [Next]_vars
    PROVE  OnTime' /\ NothingSkipped'
<1> USE SetsAssumption, EventsAssumption, DaysAssumption
<1>1. ASSUME NEW e \in Events, Post(e) PROVE OnTime' /\ NothingSkipped'
  <2>1. PICK d \in {today} \cup BadDays :
          /\ stamp' = [stamp EXCEPT ![e] = d]
          /\ skipped' = IF Behind(Carrier[e], d) THEN skipped \cup ({e} \X Readers(Carrier[e])) ELSE skipped
    BY <1>1 DEF Post
  <2>2. d \in Nat /\ today \in Nat /\ today <= d /\ (d <= today \/ d > MaxDay + 1)
    BY DEF TypeOK, WellDated
  <2>3. /\ mark[Carrier[e]] # NoDay => mark[Carrier[e]] \in Int /\ mark[Carrier[e]] <= today
        /\ candidate[Carrier[e]] # NoDay => candidate[Carrier[e]] \in Int /\ candidate[Carrier[e]] <= today
    BY DEF TypeOK, OnTime, Day
  <2>4. ~Behind(Carrier[e], d)
    BY <2>2, <2>3 DEF Behind
  <2>5. \A x \in Events : stamp'[x] = IF x = e THEN d ELSE stamp[x]
    BY <2>1 DEF TypeOK
  <2> QED
    BY <1>1, <2>1, <2>2, <2>4, <2>5 DEF Post, OnTime, NothingSkipped, Posted, dbVars, sweepVars
<1>2. CASE Midnight
    BY <1>2 DEF Midnight, OnTime, NothingSkipped, Posted, TypeOK, Day, dbVars, sweepVars
<1>3. CASE Wipe
    BY <1>3 DEF Wipe, OnTime, NothingSkipped, Posted, sapVars, sweepVars
<1>4. ASSUME NEW C \in Choices, Begin(C) PROVE OnTime' /\ NothingSkipped'
  <2>1. \A p \in Direct : mark'[p] # NoDay => mark'[p] <= today
    BY <1>4 DEF Begin, Seeded, OnTime, TypeOK, Day
  <2> QED
    BY <1>4, <2>1 DEF Begin, OnTime, NothingSkipped, Posted, sapVars
<1>5. ASSUME NEW s \in Sets, NEW p \in Via[s], CollectKeys(s, p) PROVE OnTime' /\ NothingSkipped'
    BY <1>5 DEF CollectKeys, OnTime, NothingSkipped, Posted, sapVars, dbVars
<1>6. ASSUME NEW s \in Sets, Fetch(s) PROVE OnTime' /\ NothingSkipped'
    BY <1>6, CandidateOnTime DEF Fetch, OnTime, NothingSkipped, Posted, sapVars, dbVars
<1>7. ASSUME NEW s \in Sets, Load(s) \/ LoadFails(s) PROVE OnTime' /\ NothingSkipped'
  <2>1. loadDay' = loadDay \/ loadDay' = [loadDay EXCEPT ![s] = today]
    BY <1>7 DEF Load, LoadFails, Merge
  <2>2. \A p \in Direct : loadDay'[p] # NoDay => loadDay'[p] <= today
    BY <2>1 DEF OnTime, TypeOK
  <2>3. UNCHANGED <<sapVars, mark, pc, chosen, candidate, skipped>>
    BY <1>7 DEF Load, LoadFails
  <2> QED
    BY <2>2, <2>3 DEF OnTime, NothingSkipped, Posted, sapVars
<1>8. CASE StartLoads \/ StartMarks \/ \E s \in Sets : FetchFails(s)
    BY <1>8 DEF StartLoads, StartMarks, FetchFails, OnTime, NothingSkipped, Posted, sapVars, dbVars
<1>9. CASE EndSweep \/ Crash
    BY <1>9 DEF EndSweep, Crash, Reset, OnTime, NothingSkipped, Posted, sapVars, dbVars
<1>10. ASSUME NEW p \in Direct, SetMark(p) PROVE OnTime' /\ NothingSkipped'
  <2>1. pc = "marks" /\ p \in chosen /\ chosen \in Choices
    BY <1>10 DEF SetMark, OnTime, TypeOK
  <2>2. Readers(p) \subseteq chosen
    BY <2>1 DEF Readers, WholeFamilies
  <2>3. LeftOut(p) = {}
    BY <2>2 DEF LeftOut
  <2>4. \A q \in Direct : mark'[q] # NoDay => mark'[q] <= today
    BY <1>10 DEF SetMark, OnTime, TypeOK
  <2> QED
    BY <1>10, <2>3, <2>4 DEF SetMark, OnTime, NothingSkipped, Posted, sapVars
<1>11. CASE UNCHANGED vars
    BY <1>11 DEF OnTime, NothingSkipped, Posted, vars, sapVars, dbVars, sweepVars
<1> QED
    BY <1>1, <1>2, <1>3, <1>4, <1>5, <1>6, <1>7, <1>8, <1>9, <1>10, <1>11 DEF Next, SweepStep, Fault

\* Where mistyped dates lie beyond every ceiling and sweeps take whole families,
\* nothing is skipped, so that no watermark ever passes a change a populated
\* table lacks.
THEOREM SkipsNothing ==
    ASSUME WellDated, WholeFamilies
    PROVE  Spec => []NothingSkipped
<1>1. Init => TypeOK /\ OnTime /\ NothingSkipped
    BY TypeInit, SkipsNothingInit
<1>2. TypeOK /\ OnTime /\ NothingSkipped /\ [Next]_vars => (TypeOK /\ OnTime /\ NothingSkipped)'
    BY TypeStep, SkipsNothingStep
<1> QED
    BY <1>1, <1>2, PTL DEF Spec

----------------------------------------------------------------------------
(* The marks never go back. *)

\* A mark still to be handled is the one the sweep's window was read from, and
\* what an incremental read measured lies in its window.
MarksHeld ==
    pc # "idle" =>
        \A p \in chosen \cap Direct : (pc = "marks" => p \in todo) => mark[p] = window[p]
CandidateAhead ==
    \A p \in Direct : candidate[p] # NoDay /\ ~Whole(p) => candidate[p] >= window[p]
NothingMeasured == pc = "idle" => candidate = [s \in Sets |-> NoDay]
ForwardInv == TypeOK /\ MarksHeld /\ CandidateAhead /\ NothingMeasured

\* An incremental read measures no day before its window.
LEMMA MeasuredAhead ==
    ASSUME TypeOK, NEW p \in Direct, ~Whole(p), NEW ceiling, NEW c \in MarkDays(p, ceiling)
    PROVE  c >= window[p]
<1>1. window[p] \in Int
  BY SetsAssumption DEF Whole, TypeOK, Day
<1>2. CASE c = OldDay /\ window[p] <= OldDay
  BY <1>1, <1>2 DEF OldDay
<1>3. CASE \E e \in OwnWindow(p) : c = stamp[e]
  BY <1>1, <1>3, DaysAssumption DEF OwnWindow, TypeOK, Posted
<1> QED
  BY <1>2, <1>3 DEF MarkDays

\* Steps that touch neither marks nor what the sweep measured.
LEMMA ForwardQuiet ==
    ASSUME ForwardInv, UNCHANGED <<mark, chosen, window, forced, candidate>>,
           pc' = pc \/ (pc \notin {"idle", "marks"} /\ pc' # "idle"),
           pc' = "marks" /\ pc = "marks" => todo' \subseteq todo
    PROVE  MarksHeld' /\ CandidateAhead' /\ NothingMeasured'
<1>1. MarksHeld'
  <2> SUFFICES ASSUME pc' # "idle", NEW p \in chosen \cap Direct, pc' = "marks" => p \in todo'
               PROVE  mark[p] = window[p]
    BY DEF MarksHeld
  <2>1. pc # "idle" /\ (pc = "marks" => pc' # "marks" \/ p \in todo)
    OBVIOUS
  <2> QED
    BY <2>1 DEF ForwardInv, MarksHeld
<1>2. \A p \in Direct : Whole(p)' <=> Whole(p)
  BY DEF Whole
<1>3. CandidateAhead'
  BY <1>2 DEF ForwardInv, CandidateAhead
<1>4. NothingMeasured'
  BY DEF ForwardInv, NothingMeasured
<1> QED
  BY <1>1, <1>3, <1>4

\* Resetting the sweep leaves nothing measured.
LEMMA ForwardReset ==
    ASSUME ForwardInv, Reset
    PROVE  MarksHeld' /\ CandidateAhead' /\ NothingMeasured'
BY SetsAssumption DEF Reset, MarksHeld, CandidateAhead, NothingMeasured

LEMMA ForwardInit == Init => ForwardInv
BY TypeInit, SetsAssumption DEF Init, NoSweep, ForwardInv, MarksHeld, CandidateAhead, NothingMeasured

LEMMA ForwardStep == ForwardInv /\ [Next]_vars => ForwardInv'
<1> SUFFICES ASSUME ForwardInv, [Next]_vars PROVE MarksHeld' /\ CandidateAhead' /\ NothingMeasured'
  BY TypeStep DEF ForwardInv
<1> USE SetsAssumption
<1>1. ASSUME NEW e \in Events, Post(e) PROVE MarksHeld' /\ CandidateAhead' /\ NothingMeasured'
  BY <1>1, ForwardQuiet DEF Post, dbVars, sweepVars
<1>2. CASE Midnight
  BY <1>2, ForwardQuiet DEF Midnight, dbVars, sweepVars
<1>3. CASE Wipe
  BY <1>3, ForwardQuiet DEF Wipe, sweepVars
<1>4. ASSUME NEW C \in Choices, Begin(C) PROVE MarksHeld' /\ CandidateAhead' /\ NothingMeasured'
  <2>1. /\ mark' = Seeded(C) /\ window' = ResolveWindows(C) /\ chosen' = C
        /\ pc' = "fetch" /\ candidate' = [s \in Sets |-> NoDay]
    BY <1>4 DEF Begin, ForwardInv, NothingMeasured
  <2>2. MarksHeld'
    BY <2>1 DEF MarksHeld, ResolveWindows, Owners, Seeded
  <2> QED
    BY <2>1, <2>2 DEF CandidateAhead, NothingMeasured
<1>5. ASSUME NEW s \in Sets, NEW p \in Via[s], CollectKeys(s, p)
      PROVE MarksHeld' /\ CandidateAhead' /\ NothingMeasured'
  BY <1>5, ForwardQuiet DEF CollectKeys, dbVars
<1>6. ASSUME NEW s \in Sets, Fetch(s) PROVE MarksHeld' /\ CandidateAhead' /\ NothingMeasured'
  <2>0. PICK ceiling \in Ceilings : \E c \in MarkDays(s, ceiling) \cup {OldDay, NoDay} :
            IsCandidate(s, c, ceiling) /\ candidate' = [candidate EXCEPT ![s] = c]
    BY <1>6 DEF Fetch
  <2>1. PICK c \in MarkDays(s, ceiling) \cup {OldDay, NoDay} :
            IsCandidate(s, c, ceiling) /\ candidate' = [candidate EXCEPT ![s] = c]
    BY <2>0
  <2>2. UNCHANGED <<mark, chosen, window, forced, pc>> /\ pc = "fetch"
    BY <1>6 DEF Fetch, dbVars
  <2>3. \A p \in Direct : Whole(p)' <=> Whole(p)
    BY <2>2 DEF Whole
  <2>4. CandidateAhead'
    <3> SUFFICES ASSUME NEW p \in Direct, candidate'[p] # NoDay, ~Whole(p)
                 PROVE  candidate'[p] >= window[p]
      BY <2>2, <2>3 DEF CandidateAhead
    <3>1. CASE p = s
      <4>1. candidate'[p] = c
        BY <2>1, <3>1 DEF ForwardInv, TypeOK
      <4>2. c \in MarkDays(p, ceiling)
        BY <2>1, <3>1, <4>1 DEF IsCandidate
      <4> QED
        BY <4>1, <4>2, MeasuredAhead DEF ForwardInv
    <3>2. CASE p # s
      BY <2>1, <3>2 DEF ForwardInv, CandidateAhead, TypeOK
    <3> QED
      BY <3>1, <3>2
  <2> QED
    BY <2>2, <2>4 DEF ForwardInv, MarksHeld, NothingMeasured
<1>7. ASSUME NEW s \in Sets, Load(s) PROVE MarksHeld' /\ CandidateAhead' /\ NothingMeasured'
  BY <1>7, ForwardQuiet DEF Load
<1>8. CASE StartLoads
  BY <1>8, ForwardQuiet DEF StartLoads, dbVars
<1>9. CASE StartMarks
  BY <1>9, ForwardQuiet DEF StartMarks, dbVars
<1>10. CASE EndSweep
  BY <1>10, ForwardReset DEF EndSweep
<1>11. ASSUME NEW p \in Direct, SetMark(p) PROVE MarksHeld' /\ CandidateAhead' /\ NothingMeasured'
  <2>1. /\ UNCHANGED <<chosen, window, forced, candidate, pc>> /\ pc = "marks"
        /\ todo' = todo \ {p}
        /\ \A q \in Direct \ {p} : mark'[q] = mark[q]
    BY <1>11 DEF SetMark, ForwardInv, TypeOK
  <2> QED
    BY <2>1 DEF ForwardInv, MarksHeld, CandidateAhead, NothingMeasured, Whole
<1>12. CASE Crash
  BY <1>12, ForwardReset DEF Crash
<1>13. ASSUME NEW s \in Sets, FetchFails(s) PROVE MarksHeld' /\ CandidateAhead' /\ NothingMeasured'
  BY <1>13, ForwardQuiet DEF FetchFails, dbVars
<1>14. ASSUME NEW s \in Sets, LoadFails(s) PROVE MarksHeld' /\ CandidateAhead' /\ NothingMeasured'
  BY <1>14, ForwardQuiet DEF LoadFails
<1>15. CASE UNCHANGED vars
  BY <1>15, ForwardQuiet DEF vars, dbVars, sweepVars
<1> QED
  BY <1>1, <1>2, <1>3, <1>4, <1>5, <1>6, <1>7, <1>8, <1>9, <1>10, <1>11, <1>12,
     <1>13, <1>14, <1>15 DEF Next, SweepStep, Fault

\* An incremental read never sets a watermark back, for every family of sets,
\* every choice of them and whatever fails (fetch.py, sweep.py's marks).
THEOREM MarkForwardHolds == Spec => MarkForward
<1>1. ForwardInv /\ [Next]_vars =>
        [\A p \in Direct : mark[p] # NoDay =>
            mark'[p] # NoDay /\ (mark'[p] >= mark[p] \/ Whole(p))]_vars
  <2> SUFFICES ASSUME ForwardInv, [Next]_vars, NEW p \in Direct, mark[p] # NoDay
               PROVE  mark'[p] # NoDay /\ (mark'[p] >= mark[p] \/ Whole(p))
    OBVIOUS
  <2>0. mark[p] \in Int
    BY DEF ForwardInv, TypeOK, Day
  <2>1. CASE mark'[p] = mark[p]
    BY <2>0, <2>1
  <2>2. CASE \E C \in Choices : Begin(C)
    BY <2>0, <2>2 DEF Begin, Seeded
  <2>3. ASSUME NEW q \in Direct, SetMark(q) PROVE mark'[p] # NoDay /\ (mark'[p] >= mark[p] \/ Whole(p))
    <3>1. CASE mark' = mark
      BY <2>0, <3>1
    <3>2. CASE mark' # mark
      <4>1. candidate[q] # NoDay /\ mark' = [mark EXCEPT ![q] = candidate[q]] /\ q \in todo /\ pc = "marks"
        BY <2>3, <3>2 DEF SetMark
      <4>2. mark[q] = window[q]
        BY <4>1 DEF ForwardInv, MarksHeld, TypeOK
      <4>3. ~Whole(q) => candidate[q] >= window[q]
        BY <4>1 DEF ForwardInv, CandidateAhead
      <4> QED
        BY <2>0, <4>1, <4>2, <4>3 DEF ForwardInv, TypeOK
    <3> QED
      BY <3>1, <3>2
  <2>4. \/ mark'[p] = mark[p]
        \/ \E C \in Choices : Begin(C)
        \/ \E q \in Direct : SetMark(q)
    BY DEF Next, SweepStep, Fault, vars, Post, Midnight, Wipe, CollectKeys, Fetch, FetchFails, Load,
           LoadFails, StartLoads, StartMarks, EndSweep, Crash, dbVars
  <2> QED
    BY <2>1, <2>2, <2>3, <2>4
<1> QED
  BY <1>1, ForwardInit, ForwardStep, PTL DEF Spec, MarkForward
=============================================================================
