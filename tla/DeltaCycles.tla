------------------------------ MODULE DeltaCycles ------------------------------
(***************************************************************************)
(* Who runs a delta cycle, and when (app/ingest/scheduler.py): every worker *)
(* process runs a timer, and an event runner while a purchase requisition   *)
(* SAP posted to it asks for a cycle.  All of them go through one SQL       *)
(* Server application lock, owned by the session that took it.  A cycle     *)
(* runs in a thread of its worker; what it does is DeltaSweep's business,   *)
(* here it reads SAP once and lands what it read, or fails before or after. *)
(***************************************************************************)
EXTENDS Integers

CONSTANTS
    Workers,       \* the gunicorn workers and instances
    Requisitions,  \* purchase requisitions SAP creates and posts
    MaxAttempts,   \* EVENT_MAX_ATTEMPTS
    MaxFaults,     \* bound: kills, stops, failed cycles, an unreachable lock
    Free           \* nobody holds the lock

Kinds == {"timer", "event"}
Owners == Workers \X Kinds

ASSUME CyclesAssumption ==
    /\ MaxAttempts \in Nat \ {0}
    /\ MaxFaults \in Nat
    /\ Free \notin Owners

VARIABLES
    posted,    \* the requisitions that exist in SAP
    landed,    \* those the raw tables hold
    lock,      \* the session holding spares_ai_delta_ingest, or Free
    life,      \* life[w]: the worker process
    runner,    \* runner[w]: its event task (_event_task)
    again,     \* again[w]: _event_again
    attempts,  \* attempts[w]: refusals in a row
    cycle,     \* cycle[o]: the thread running run_delta_cycle
    got,       \* got[o]: the requisitions that thread has read
    refresh,   \* refresh[w]: the snapshot check after a cycle (_refresh_task)
    owed,      \* history: requests w accepted since its runner last began a cycle
    faults     \* failures so far

taskVars  == <<runner, again, attempts>>
cycleVars == <<cycle, got>>
vars == <<posted, landed, lock, life, taskVars, cycleVars, refresh, owed, faults>>

TypeOK ==
    /\ posted \in SUBSET Requisitions /\ landed \in SUBSET posted
    /\ lock \in Owners \cup {Free}
    /\ life \in [Workers -> {"up", "stopping", "down"}]
    /\ runner \in [Workers -> {"none", "waiting", "running"}]
    /\ again \in [Workers -> BOOLEAN]
    /\ attempts \in [Workers -> 0..(MaxAttempts - 1)]
    /\ cycle \in [Owners -> {"none", "started", "read"}]
    /\ got \in [Owners -> SUBSET posted]
    /\ refresh \in [Workers -> {"none", "waiting", "checking"}]
    /\ owed \in [Workers -> SUBSET posted]
    /\ faults \in 0..MaxFaults

Init ==
    /\ posted = {} /\ landed = {}
    /\ lock = Free
    /\ life = [w \in Workers |-> "up"]
    /\ runner = [w \in Workers |-> "none"]
    /\ again = [w \in Workers |-> FALSE]
    /\ attempts = [w \in Workers |-> 0]
    /\ cycle = [o \in Owners |-> "none"]
    /\ got = [o \in Owners |-> {}]
    /\ refresh = [w \in Workers |-> "none"]
    /\ owed = [w \in Workers |-> {}]
    /\ faults = 0

----------------------------------------------------------------------------
(* Requests. *)

\* SAP creates a requisition.  Whether its event arrives is another matter.
Post(r) ==
    /\ r \notin posted
    /\ posted' = posted \cup {r}
    /\ UNCHANGED <<landed, lock, life, taskVars, cycleVars, refresh, owed, faults>>

\* request_delta_cycle: the event reaches w, perhaps more than once.
Request(r, w) ==
    /\ r \in posted /\ life[w] = "up"
    /\ owed' = [owed EXCEPT ![w] = @ \cup {r}]
    /\ \/ /\ runner[w] # "none"
          /\ again' = [again EXCEPT ![w] = TRUE]
          /\ UNCHANGED <<runner, attempts>>
       \/ /\ runner[w] = "none"
          /\ runner' = [runner EXCEPT ![w] = "waiting"]
          /\ again' = [again EXCEPT ![w] = FALSE]
          /\ attempts' = [attempts EXCEPT ![w] = 0]
    /\ UNCHANGED <<posted, landed, lock, life, cycleVars, refresh, faults>>

----------------------------------------------------------------------------
(* _tick: one cycle under the lock. *)

\* Mutant: two sessions may both be granted the lock.
AcquireShared(o) ==
    /\ lock' = o
    /\ cycle' = [cycle EXCEPT ![o] = "started"]
    /\ got' = [got EXCEPT ![o] = {}]

\* sp_getapplock with no timeout: granted at once or not at all.
Acquire(o) ==
    /\ lock = Free
    /\ lock' = o
    /\ cycle' = [cycle EXCEPT ![o] = "started"]
    /\ got' = [got EXCEPT ![o] = {}]

\* The timer's turn; a refused one changes nothing.
TimerTick(w) ==
    /\ life[w] = "up" /\ cycle[<<w, "timer">>] = "none"
    /\ Acquire(<<w, "timer">>)
    /\ UNCHANGED <<posted, landed, life, taskVars, refresh, owed, faults>>

\* _event_runner after its wait: what arrived so far rides this cycle.
RunnerTick(w) ==
    /\ life[w] = "up" /\ runner[w] = "waiting"
    /\ again' = [again EXCEPT ![w] = FALSE]
    /\ Acquire(<<w, "event">>)
    /\ runner' = [runner EXCEPT ![w] = "running"]
    /\ owed' = [owed EXCEPT ![w] = {}]
    /\ UNCHANGED <<posted, landed, life, attempts, refresh, faults>>

\* Mutant: a refusal is not counted, so the runner tries for ever.
RefusedUncounted(w) ==
    /\ life[w] = "up" /\ runner[w] = "waiting" /\ lock # Free
    /\ again' = [again EXCEPT ![w] = FALSE]
    /\ UNCHANGED <<posted, landed, lock, life, runner, attempts, cycleVars, refresh, owed, faults>>

\* Mutant: gives up after one refusal too many.
RefusedOnceMore(w) ==
    /\ life[w] = "up" /\ runner[w] = "waiting" /\ lock # Free
    /\ again' = [again EXCEPT ![w] = FALSE]
    /\ runner' = [runner EXCEPT ![w] = IF attempts[w] >= MaxAttempts THEN "none" ELSE @]
    /\ owed' = [owed EXCEPT ![w] = IF attempts[w] >= MaxAttempts THEN {} ELSE @]
    /\ attempts' = [attempts EXCEPT ![w] = @ + 1]
    /\ UNCHANGED <<posted, landed, lock, life, cycleVars, refresh, faults>>

\* The lock is held, or cannot be reached: wait and try again, or give up.
Refused(w) ==
    /\ life[w] = "up" /\ runner[w] = "waiting"
    /\ \/ lock # Free /\ UNCHANGED faults
       \/ faults < MaxFaults /\ faults' = faults + 1
    /\ again' = [again EXCEPT ![w] = FALSE]
    /\ IF attempts[w] + 1 >= MaxAttempts
       THEN /\ runner' = [runner EXCEPT ![w] = "none"]
            /\ owed' = [owed EXCEPT ![w] = {}]
            /\ attempts' = [attempts EXCEPT ![w] = 0]
       ELSE /\ attempts' = [attempts EXCEPT ![w] = @ + 1]
            /\ UNCHANGED <<runner, owed>>
    /\ UNCHANGED <<posted, landed, lock, life, cycleVars, refresh>>

\* The cycle reads SAP.
ReadSap(o) ==
    /\ cycle[o] = "started"
    /\ cycle' = [cycle EXCEPT ![o] = "read"]
    /\ got' = [got EXCEPT ![o] = posted]
    /\ UNCHANGED <<posted, landed, lock, life, taskVars, refresh, owed, faults>>

\* A task whose worker is being stopped was cancelled: its thread runs on alone.
Attended(o) == life[o[1]] = "up"

\* _schedule_snapshot_refresh: one check at a time is waiting or running.
AskRefresh(w) ==
    refresh' = [refresh EXCEPT ![w] = IF @ = "none" THEN "waiting" ELSE @]

\* Mutant: the runner returns whatever arrived during the cycle.
ReturnAlways(o) ==
    /\ lock' = Free
    /\ runner' = IF o[2] = "event" THEN [runner EXCEPT ![o[1]] = "none"] ELSE runner
    /\ attempts' = IF o[2] = "event" THEN [attempts EXCEPT ![o[1]] = 0] ELSE attempts

\* The end of _tick, and of the runner's turn: the lock is let go, and the
\* runner returns unless an event arrived during the cycle.
Return(o) ==
    /\ lock' = Free
    /\ runner' = IF o[2] = "event"
                 THEN [runner EXCEPT ![o[1]] = IF again[o[1]] THEN "waiting" ELSE "none"]
                 ELSE runner
    /\ attempts' = IF o[2] = "event" THEN [attempts EXCEPT ![o[1]] = 0] ELSE attempts

Finish(o) ==
    /\ cycle[o] = "read"
    /\ cycle' = [cycle EXCEPT ![o] = "none"]
    /\ got' = [got EXCEPT ![o] = {}]
    /\ landed' = landed \cup got[o]
    /\ IF Attended(o) THEN Return(o) /\ AskRefresh(o[1])
       ELSE UNCHANGED <<lock, runner, attempts, refresh>>
    /\ UNCHANGED <<posted, life, again, owed, faults>>

\* It is refused before it reads SAP, or SAP or the database fails it later.
\* run_delta_cycle never raises, and _tick says it ran all the same: the runner
\* returns, and the request that started it has had its cycle.
FinishFailed(o) ==
    /\ cycle[o] # "none" /\ faults < MaxFaults
    /\ faults' = faults + 1
    /\ cycle' = [cycle EXCEPT ![o] = "none"]
    /\ got' = [got EXCEPT ![o] = {}]
    /\ IF Attended(o) THEN Return(o) ELSE UNCHANGED <<lock, runner, attempts>>
    /\ UNCHANGED <<posted, landed, life, again, refresh, owed>>

----------------------------------------------------------------------------
(* The snapshot check that follows a cycle. *)

\* The settle wait is over and the check reads ingestion_run.
StartCheck(w) ==
    /\ refresh[w] = "waiting"
    /\ refresh' = [refresh EXCEPT ![w] = "checking"]
    /\ UNCHANGED <<posted, landed, lock, life, taskVars, cycleVars, owed, faults>>

EndCheck(w) ==
    /\ refresh[w] = "checking"
    /\ refresh' = [refresh EXCEPT ![w] = "none"]
    /\ UNCHANGED <<posted, landed, lock, life, taskVars, cycleVars, owed, faults>>

----------------------------------------------------------------------------
(* Workers come and go. *)

\* Mutant: the lock is a row in a table, and outlives the session that took it.
EndTasksLockStays(w) ==
    /\ runner' = [runner EXCEPT ![w] = "none"]
    /\ again' = [again EXCEPT ![w] = FALSE]
    /\ attempts' = [attempts EXCEPT ![w] = 0]
    /\ refresh' = [refresh EXCEPT ![w] = "none"]
    /\ owed' = [owed EXCEPT ![w] = {}]
    /\ UNCHANGED lock

\* Every task of w ends here, and with it the lock its session held.
EndTasks(w) ==
    /\ runner' = [runner EXCEPT ![w] = "none"]
    /\ again' = [again EXCEPT ![w] = FALSE]
    /\ attempts' = [attempts EXCEPT ![w] = 0]
    /\ refresh' = [refresh EXCEPT ![w] = "none"]
    /\ owed' = [owed EXCEPT ![w] = {}]
    /\ lock' = IF \E k \in Kinds : lock = <<w, k>> THEN Free ELSE lock

\* The process dies; the server ends its sessions.
Kill(w) ==
    /\ life[w] # "down" /\ faults < MaxFaults
    /\ faults' = faults + 1
    /\ life' = [life EXCEPT ![w] = "down"]
    /\ EndTasks(w)
    /\ cycle' = [o \in Owners |-> IF o[1] = w THEN "none" ELSE cycle[o]]
    /\ got' = [o \in Owners |-> IF o[1] = w THEN {} ELSE got[o]]
    /\ UNCHANGED <<posted, landed>>

\* lifespan's shutdown: stop_event_runner, and the timers' task cancelled.  The
\* cancelled tick lets the lock go; a thread cannot be cancelled and goes on.
Stop(w) ==
    /\ life[w] = "up" /\ faults < MaxFaults
    /\ faults' = faults + 1
    /\ life' = [life EXCEPT ![w] = "stopping"]
    /\ EndTasks(w)
    /\ UNCHANGED <<posted, landed, cycleVars>>

\* The interpreter exits once its threads have.
Exit(w) ==
    /\ life[w] = "stopping"
    /\ \A k \in Kinds : cycle[<<w, k>>] = "none"
    /\ life' = [life EXCEPT ![w] = "down"]
    /\ UNCHANGED <<posted, landed, lock, taskVars, cycleVars, refresh, owed, faults>>

Restart(w) ==
    /\ life[w] = "down"
    /\ life' = [life EXCEPT ![w] = "up"]
    /\ UNCHANGED <<posted, landed, lock, taskVars, cycleVars, refresh, owed, faults>>

\* What the event loop, the threads and App Service keep doing.
Work ==
    \/ \E w \in Workers : \/ TimerTick(w) \/ RunnerTick(w) \/ Refused(w)
                          \/ StartCheck(w) \/ EndCheck(w) \/ Exit(w) \/ Restart(w)
    \/ \E o \in Owners : ReadSap(o) \/ Finish(o) \/ FinishFailed(o)

Next ==
    \/ \E r \in Requisitions : Post(r) \/ \E w \in Workers : Request(r, w)
    \/ Work
    \/ \E w \in Workers : Kill(w) \/ Stop(w)

Spec == Init /\ [][Next]_vars

\* Timers fire, waits end, threads run, and a dead worker is started again.
Fairness ==
    /\ \A w \in Workers :
          /\ WF_vars(TimerTick(w)) /\ WF_vars(RunnerTick(w) \/ Refused(w))
          /\ WF_vars(StartCheck(w)) /\ WF_vars(EndCheck(w))
          /\ WF_vars(Exit(w)) /\ WF_vars(Restart(w))
    /\ \A o \in Owners : WF_vars(ReadSap(o)) /\ WF_vars(Finish(o) \/ FinishFailed(o))

FairSpec == Spec /\ Fairness

----------------------------------------------------------------------------
(* Properties. *)

\* "SQL Server application lock, held for the life of one run" (scheduler.py):
\* two cycles never run at once, whatever dies, unless one of them is the thread
\* that a worker shutting down could not cancel.
OneCycle ==
    \A o, q \in Owners :
        /\ cycle[o] # "none" /\ cycle[q] # "none"
        /\ life[o[1]] # "stopping" /\ life[q[1]] # "stopping"
        => o = q

\* "a cycle will start after the debounce", "an event that arrives while the
\* cycle RUNS asks for one more": an accepted request for which no cycle has
\* begun is never without a runner that is going to begin one.  That a cycle
\* begins is all the runner promises: one that fails has used the request up.
NoLostRequest ==
    \A w \in Workers : owed[w] # {} =>
        \/ runner[w] = "waiting"
        \/ runner[w] = "running" /\ again[w]

\* What both rest on: only the session that holds the lock has a thread, those
\* of a stopping worker apart, and a runner that runs is the one whose thread it is.
OwnThreads ==
    \A w \in Workers : life[w] = "down" => \A k \in Kinds : cycle[<<w, k>>] = "none"
LockHeld == \A o \in Owners : cycle[o] # "none" /\ life[o[1]] # "stopping" => lock = o
Tasks == \A w \in Workers :
    /\ life[w] # "up" => runner[w] = "none" /\ owed[w] = {}
    /\ runner[w] = "running" => cycle[<<w, "event">>] # "none"
    /\ life[w] = "up" /\ cycle[<<w, "event">>] # "none" => runner[w] = "running"

CyclesInv == TypeOK /\ OwnThreads /\ LockHeld /\ Tasks /\ NoLostRequest

\* A cycle begins for a request, or it is given up on, or dies with its worker:
\* no lock that stays held keeps a runner waiting for ever.
Served == \A w \in Workers, r \in Requisitions : r \in owed[w] ~> r \notin owed[w]

\* "The next timer tick or event will pick the changes up": once failures stop,
\* every requisition reaches the tables, its event lost, given up on, or used up
\* by a cycle that failed before it read SAP.
PickedUp == \A r \in Requisitions : r \in posted ~> r \in landed
=============================================================================
