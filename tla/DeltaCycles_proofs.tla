-------------------------- MODULE DeltaCycles_proofs --------------------------
(* Proofs about DeltaCycles: types, one cycle at a time but for workers that *)
(* shut down, and no accepted request without a runner to begin its cycle.   *)
EXTENDS DeltaCycles, TLAPS

\* An owner is its worker and its kind.
LEMMA OwnerParts ==
    ASSUME NEW o \in Owners
    PROVE  /\ o[1] \in Workers /\ o[2] \in Kinds /\ o = <<o[1], o[2]>>
           /\ \A w \in Workers, k \in Kinds : o = <<w, k>> <=> o[1] = w /\ o[2] = k
BY DEF Owners

LEMMA WorkersOwn ==
    ASSUME NEW w \in Workers, NEW k \in Kinds
    PROVE  <<w, k>> \in Owners /\ <<w, k>>[1] = w /\ <<w, k>>[2] = k
BY DEF Owners

LEMMA InitCyclesInv == Init => CyclesInv
<1> SUFFICES ASSUME Init PROVE CyclesInv
    OBVIOUS
<1>1. TypeOK
    BY CyclesAssumption DEF Init, TypeOK
<1>2. OwnThreads /\ LockHeld
    BY WorkersOwn DEF Init, OwnThreads, LockHeld
<1>3. Tasks /\ NoLostRequest
    BY WorkersOwn DEF Init, Tasks, NoLostRequest, Kinds
<1> QED
    BY <1>1, <1>2, <1>3 DEF CyclesInv

\* Every step keeps the types.
LEMMA CyclesTypeStep == TypeOK /\ [Next]_vars => TypeOK'
<1> SUFFICES ASSUME TypeOK, [Next]_vars PROVE TypeOK'
    OBVIOUS
<1> USE CyclesAssumption DEF TypeOK
<1>1. ASSUME NEW r \in Requisitions, Post(r) PROVE TypeOK'
    BY <1>1 DEF Post, taskVars, cycleVars
<1>2. ASSUME NEW r \in Requisitions, NEW w \in Workers, Request(r, w) PROVE TypeOK'
  <2>1. /\ runner' \in [Workers -> {"none", "waiting", "running"}]
        /\ again' \in [Workers -> BOOLEAN]
        /\ attempts' \in [Workers -> 0..(MaxAttempts - 1)]
    <3>1. CASE runner[w] # "none"
      BY <1>2, <3>1 DEF Request
    <3>2. CASE runner[w] = "none"
      <4>1. /\ runner' = [runner EXCEPT ![w] = "waiting"]
            /\ again' = [again EXCEPT ![w] = FALSE]
            /\ attempts' = [attempts EXCEPT ![w] = 0]
        BY <1>2, <3>2 DEF Request
      <4>2. 0 \in 0..(MaxAttempts - 1)
        OBVIOUS
      <4> QED
        BY <4>1, <4>2
    <3> QED
      BY <3>1, <3>2
  <2>2. owed' \in [Workers -> SUBSET posted]
    BY <1>2 DEF Request
  <2> QED
    BY <1>2, <2>1, <2>2 DEF Request, cycleVars
<1>3. ASSUME NEW w \in Workers, TimerTick(w) PROVE TypeOK'
    BY <1>3, WorkersOwn DEF TimerTick, Acquire, taskVars, Kinds
<1>4. ASSUME NEW w \in Workers, RunnerTick(w) PROVE TypeOK'
    BY <1>4, WorkersOwn DEF RunnerTick, Acquire, Kinds
<1>5. ASSUME NEW w \in Workers, Refused(w) PROVE TypeOK'
    BY <1>5 DEF Refused, cycleVars
<1>6. ASSUME NEW w \in Workers, StartCheck(w) \/ EndCheck(w) PROVE TypeOK'
    BY <1>6 DEF StartCheck, EndCheck, taskVars, cycleVars
<1>7. ASSUME NEW w \in Workers, Exit(w) \/ Restart(w) PROVE TypeOK'
    BY <1>7 DEF Exit, Restart, taskVars, cycleVars
<1>8. ASSUME NEW o \in Owners, ReadSap(o) PROVE TypeOK'
    BY <1>8, OwnerParts DEF ReadSap, taskVars
<1>9. ASSUME NEW o \in Owners, Finish(o) PROVE TypeOK'
  <2>1. o[1] \in Workers
    BY OwnerParts
  <2>2. cycle' \in [Owners -> {"none", "started", "read"}] /\ got' \in [Owners -> SUBSET posted] /\ landed' \subseteq posted
    BY <1>9 DEF Finish
  <2>3. CASE Attended(o)
    <3>1. /\ lock' = Free
          /\ runner' \in [Workers -> {"none", "waiting", "running"}]
          /\ attempts' \in [Workers -> 0..(MaxAttempts - 1)]
      BY <1>9, <2>1, <2>3 DEF Finish, Return
    <3>2. refresh' \in [Workers -> {"none", "waiting", "checking"}]
      <4>1. refresh' = [refresh EXCEPT ![o[1]] = IF @ = "none" THEN "waiting" ELSE @]
        BY <1>9, <2>3 DEF Finish, AskRefresh
      <4> QED
        BY <2>1, <4>1
    <3>3. landed' \in SUBSET posted' /\ UNCHANGED <<posted, life, again, owed, faults>>
      BY <1>9, <2>2 DEF Finish
    <3> QED
      BY <2>2, <3>1, <3>2, <3>3
  <2>4. CASE ~Attended(o)
    BY <1>9, <2>2, <2>4 DEF Finish
  <2> QED
    BY <2>3, <2>4
<1>10. ASSUME NEW o \in Owners, FinishFailed(o) PROVE TypeOK'
  <2>1. o[1] \in Workers
    BY OwnerParts
  <2>2. cycle' \in [Owners -> {"none", "started", "read"}] /\ got' \in [Owners -> SUBSET posted]
    BY <1>10 DEF FinishFailed
  <2>3. CASE Attended(o)
    <3>1. /\ lock' = Free
          /\ runner' \in [Workers -> {"none", "waiting", "running"}]
          /\ attempts' \in [Workers -> 0..(MaxAttempts - 1)]
      BY <1>10, <2>1, <2>3 DEF FinishFailed, Return
    <3> QED
      BY <1>10, <2>1, <2>2, <2>3, <3>1 DEF FinishFailed
  <2>4. CASE ~Attended(o)
    BY <1>10, <2>2, <2>4 DEF FinishFailed
  <2> QED
    BY <2>3, <2>4
<1>11. ASSUME NEW w \in Workers, Kill(w) PROVE TypeOK'
    BY <1>11 DEF Kill, EndTasks
<1>12. ASSUME NEW w \in Workers, Stop(w) PROVE TypeOK'
    BY <1>12 DEF Stop, EndTasks, cycleVars
<1>13. CASE UNCHANGED vars
    BY <1>13 DEF vars, taskVars, cycleVars
<1> QED
    BY <1>1, <1>2, <1>3, <1>4, <1>5, <1>6, <1>7, <1>8, <1>9, <1>10, <1>11, <1>12, <1>13 DEF Next, Work

\* Every step keeps the invariant.
LEMMA CyclesStep == CyclesInv /\ [Next]_vars => CyclesInv'
<1> SUFFICES ASSUME CyclesInv, [Next]_vars PROVE CyclesInv'
    OBVIOUS
<1>0. TypeOK /\ TypeOK'
    BY CyclesTypeStep DEF CyclesInv
<1>a. "event" \in Kinds /\ "timer" \in Kinds
    BY DEF Kinds
<1> DEFINE Inv == OwnThreads /\ LockHeld /\ Tasks /\ NoLostRequest
<1> SUFFICES Inv'
    BY <1>0 DEF CyclesInv
<1> USE <1>0, <1>a DEF CyclesInv, TypeOK, OwnThreads, LockHeld, Tasks, NoLostRequest
<1>1. ASSUME NEW r \in Requisitions, Post(r) PROVE Inv'
    BY <1>1 DEF Post, taskVars, cycleVars
<1>2. ASSUME NEW r \in Requisitions, NEW w \in Workers, Request(r, w) PROVE Inv'
    BY <1>2 DEF Request, taskVars, cycleVars
<1>3. ASSUME NEW w \in Workers, TimerTick(w) PROVE Inv'
  <2>1. /\ lock = Free /\ lock' = <<w, "timer">>
        /\ \A x \in Workers, k \in Kinds :
              cycle'[<<x, k>>] = IF x = w /\ k = "timer" THEN "started" ELSE cycle[<<x, k>>]
    BY <1>3, WorkersOwn DEF TimerTick, Acquire
  <2>2. OwnThreads' /\ LockHeld'
    <3>1. OwnThreads'
      BY <1>3, <2>1 DEF TimerTick
    <3>2. ASSUME NEW o \in Owners, cycle'[o] # "none", life'[o[1]] # "stopping" PROVE lock' = o
      <4>1. cycle[o] = "none"
        BY <1>3, <2>1, <3>2, CyclesAssumption DEF TimerTick
      <4> QED
        BY <2>1, <3>2, <4>1, OwnerParts
    <3> QED
      BY <3>1, <3>2
  <2>3. Tasks' /\ NoLostRequest'
    BY <1>3, <2>1 DEF TimerTick, taskVars
  <2> QED
    BY <2>2, <2>3
<1>4. ASSUME NEW w \in Workers, RunnerTick(w) PROVE Inv'
  <2>1. /\ lock = Free /\ lock' = <<w, "event">>
        /\ \A x \in Workers, k \in Kinds :
              cycle'[<<x, k>>] = IF x = w /\ k = "event" THEN "started" ELSE cycle[<<x, k>>]
    BY <1>4, WorkersOwn DEF RunnerTick, Acquire
  <2>2. OwnThreads' /\ LockHeld'
    <3>1. OwnThreads'
      BY <1>4, <2>1 DEF RunnerTick
    <3>2. ASSUME NEW o \in Owners, cycle'[o] # "none", life'[o[1]] # "stopping" PROVE lock' = o
      <4>1. cycle[o] = "none"
        BY <1>4, <2>1, <3>2, CyclesAssumption DEF RunnerTick
      <4> QED
        BY <2>1, <3>2, <4>1, OwnerParts
    <3> QED
      BY <3>1, <3>2
  <2>3. Tasks' /\ NoLostRequest'
    BY <1>4, <2>1 DEF RunnerTick, taskVars
  <2> QED
    BY <2>2, <2>3
<1>5. ASSUME NEW w \in Workers, Refused(w) PROVE Inv'
    BY <1>5 DEF Refused, cycleVars
<1>6. ASSUME NEW w \in Workers, StartCheck(w) \/ EndCheck(w) PROVE Inv'
    BY <1>6 DEF StartCheck, EndCheck, taskVars, cycleVars
<1>7. ASSUME NEW w \in Workers, Exit(w) \/ Restart(w) PROVE Inv'
  <2>1. /\ OwnThreads' /\ Tasks' /\ NoLostRequest'
        /\ \A x \in Workers : life'[x] = life[x] \/ \A k \in Kinds : cycle'[<<x, k>>] = "none"
        /\ UNCHANGED <<lock, cycle>>
    BY <1>7 DEF Exit, Restart, taskVars, cycleVars
  <2>2. LockHeld'
    BY <2>1, OwnerParts
  <2> QED
    BY <2>1, <2>2
<1>8. ASSUME NEW o \in Owners, ReadSap(o) PROVE Inv'
    BY <1>8, OwnerParts, WorkersOwn DEF ReadSap, taskVars
<1>9. ASSUME NEW o \in Owners, Finish(o) PROVE Inv'
    BY <1>9, OwnerParts, WorkersOwn DEF Finish, Attended, Return, AskRefresh
<1>10. ASSUME NEW o \in Owners, FinishFailed(o) PROVE Inv'
    BY <1>10, OwnerParts, WorkersOwn DEF FinishFailed, Attended, Return
<1>11. ASSUME NEW w \in Workers, Kill(w) PROVE Inv'
    BY <1>11, OwnerParts, WorkersOwn DEF Kill, EndTasks
<1>12. ASSUME NEW w \in Workers, Stop(w) PROVE Inv'
    BY <1>12 DEF Stop, EndTasks, cycleVars
<1>13. CASE UNCHANGED vars
    BY <1>13 DEF vars, taskVars, cycleVars
<1> QED
    BY <1>1, <1>2, <1>3, <1>4, <1>5, <1>6, <1>7, <1>8, <1>9, <1>10, <1>11, <1>12, <1>13 DEF Next, Work

LEMMA CyclesInvariant == Spec => []CyclesInv
BY InitCyclesInv, CyclesStep, PTL DEF Spec

\* The workers, the lock, the runners and the threads keep their types.
THEOREM CyclesTypes == Spec => []TypeOK
<1>1. CyclesInv => TypeOK
    BY DEF CyclesInv
<1> QED
    BY <1>1, CyclesInvariant, PTL

\* Two delta cycles never run at once, but for the threads of a worker that is
\* shutting down, however many workers there are and whatever dies.
THEOREM OneCycleHolds == Spec => []OneCycle
<1>1. CyclesInv => OneCycle
    BY DEF CyclesInv, LockHeld, OneCycle
<1> QED
    BY <1>1, CyclesInvariant, PTL

\* A request a worker accepted, for which no cycle has begun, is never without a
\* runner that will begin one, however many workers, requests and refusals there
\* are, whatever cycles fail and however workers stop.  Whether the cycle it gets
\* then reads SAP is another matter.
THEOREM NoLostRequestHolds == Spec => []NoLostRequest
<1>1. CyclesInv => NoLostRequest
    BY DEF CyclesInv
<1> QED
    BY <1>1, CyclesInvariant, PTL
=============================================================================
