------------------------- MODULE I7Pipeline_proofs -------------------------
(* Proofs about I7Pipeline for any number of instances, stages, loads and    *)
(* kills: types, ownership of the running row, and that a fingerprint is     *)
(* recorded as processed only for recommendations at least as new.           *)
EXTENDS I7Pipeline, SequenceTheorems, FiniteSetTheorems, TLAPS

Run == [fp : 1..MaxLoads, status : {"running", "succeeded", "failed", "abandoned"}]
Staging == [fp : Versions, whole : BOOLEAN, saved : Data,
            status : {"none", "running", "succeeded", "failed"}]

\* Who is at work holds the lock and a row that says running.
Holds(i) ==
    /\ lock = i /\ job[i].run \in 1..Len(runs)
    /\ runs[job[i].run].status = "running" /\ runs[job[i].run].fp = job[i].fp

\* How far a run has come, and how new what it has written is.
Progress(i) ==
    /\ job[i].pc # "idle" => job[i].fp \in 1..source
    /\ job[i].pc = "stage" => staging.fp = job[i].fp
    /\ job[i].pc = "later" =>
        /\ job[i].at \in 1..(Len(Later) + 1)
        /\ \A s \in Steps : staging.saved[s] # 0 /\ job[i].fp <= staging.saved[s]
        /\ \A k \in 1..(job[i].at - 1) : \A s \in Steps : job[i].fp <= built[Later[k]][s]
    /\ job[i].pc = "final" => ~job[i].ok

JobsHold == \A i \in Instances : Working(i) => Holds(i)
JobsProgress == \A i \in Instances : Progress(i)

\* No run read a version that had not loaded.
RunsRead == \A r \in 1..Len(runs) : runs[r].fp <= source

\* What the newest staging run saved is as new as its own fingerprint, and as
\* every fingerprint that succeeded.
SavedNew ==
    \A s \in Steps : staging.saved[s] # 0 =>
        /\ staging.fp <= staging.saved[s]
        /\ \A r \in Succeeded : runs[r].fp <= staging.saved[s]

BuiltNew ==
    \A r \in Succeeded : \A k \in LaterStages : \A s \in Steps : runs[r].fp <= built[k][s]

IInv == TypeOK /\ JobsHold /\ JobsProgress /\ RunsRead /\ SavedNew /\ BuiltNew

----------------------------------------------------------------------------
LEMMA Bounds ==
    /\ MaxLoads \in Nat /\ Versions \subseteq Nat /\ 0 \in Versions
    /\ Nothing \in Data /\ Steps # {}
    /\ \A d \in Data : \A s \in Steps : d[s] \in Versions
<1>1. MaxLoads \in Nat /\ NumSteps \in Nat \ {0}
  BY PipelineAssumption
<1>2. Versions \subseteq Nat /\ 0 \in Versions /\ Steps # {}
  BY <1>1 DEF Versions, Steps
<1>3. Nothing \in Data
  BY <1>2 DEF Nothing, Data
<1> QED
  BY <1>1, <1>2, <1>3 DEF Data

\* Stages read staging or stages before them.
LEMMA StageFacts ==
    /\ Len(Later) \in Nat /\ Len(Later) >= 1 /\ Last \in LaterStages
    /\ \A k \in 1..Len(Later) : Later[k] \in LaterStages
    /\ \A k \in 1..Len(Later) : \A x \in Reads[Later[k]] :
            x = "staging" \/ \E j \in 1..(k - 1) : x = Later[j] /\ x # "staging"
<1>1. Later \in Seq(STRING) /\ Later # <<>>
  BY PipelineAssumption
<1>2. Len(Later) \in Nat /\ Len(Later) >= 1
  BY <1>1
<1>3. \A k \in 1..Len(Later) : Later[k] \in LaterStages
  BY DEF LaterStages
<1>4. ASSUME NEW k \in 1..Len(Later), NEW x \in Reads[Later[k]], x # "staging"
      PROVE  \E j \in 1..(k - 1) : x = Later[j] /\ x # "staging"
  <2>1. Reads[Later[k]] \subseteq {"staging"} \cup {Later[j] : j \in 1..(k - 1)}
    BY PipelineAssumption
  <2> QED
    BY <2>1, <1>4
<1> QED
  BY <1>2, <1>3, <1>4 DEF Last

LEMMA JobTypes ==
    /\ Idle \in Jobs
    /\ \A x \in Jobs : \A pc \in {"idle", "judge", "lock", "claim", "stage", "later", "final"} :
            [x EXCEPT !.pc = pc] \in Jobs
<1>1. 0 \in 0..(Len(Later) + 1)
  BY StageFacts
<1>2. Idle \in Jobs
  BY <1>1, Bounds DEF Idle, Jobs
<1> QED
  BY <1>2 DEF Jobs

\* What one instance does to the jobs keeps their type.
LEMMA GoType ==
    ASSUME TypeOK, NEW i \in Instances, NEW changed \in Jobs, Go(i, changed)
    PROVE  job' \in [Instances -> Jobs] /\ job'[i] = changed /\ \A j \in Instances \ {i} : job'[j] = job[j]
BY DEF TypeOK, Go

LEMMA AbandonedType ==
    ASSUME NEW run \in Run
    PROVE  /\ Abandoned(run) \in Run /\ Abandoned(run).fp = run.fp
           /\ Abandoned(run).status # "running"
           /\ Abandoned(run).status = "succeeded" <=> run.status = "succeeded"
BY DEF Abandoned, Run

LEMMA RunTypes ==
    ASSUME TypeOK
    PROVE  /\ Len(runs) \in Nat
           /\ \A r \in 1..Len(runs) : runs[r] \in Run /\ runs[r].fp \in 1..MaxLoads /\ runs[r].fp \in Nat
<1>1. runs \in Seq(Run)
  BY DEF TypeOK, Run
<1>2. \A r \in 1..Len(runs) : runs[r] \in Run
  BY <1>1, ElementOfSeq
<1>3. \A run \in Run : run.fp \in 1..MaxLoads /\ run.fp \in Nat
  BY Bounds DEF Run
<1> QED
  BY <1>1, <1>2, <1>3

----------------------------------------------------------------------------
\* Before the first load nothing runs and nothing is written (PipelineRun).
THEOREM InitIInv == Init => IInv
<1> SUFFICES ASSUME Init PROVE IInv
  OBVIOUS
<1> USE DEF Init
<1>1. TypeOK
  <2>1. job \in [Instances -> Jobs] /\ built \in [LaterStages -> Data]
    BY JobTypes, Bounds
  <2>2. staging \in Staging
    BY Bounds DEF NoStaging, Staging
  <2>3. runs \in Seq(Run)
    OBVIOUS
  <2>4. source \in Versions /\ kills \in 0..MaxKills
    BY Bounds, PipelineAssumption
  <2> QED
    BY <2>1, <2>2, <2>3, <2>4 DEF TypeOK, Run, Staging
<1>2. Len(runs) = 0
  OBVIOUS
<1>3. Succeeded = {} /\ RunsRead /\ BuiltNew
  BY <1>2 DEF Succeeded, RunsRead, BuiltNew
<1>4. JobsHold /\ JobsProgress
  BY DEF JobsHold, JobsProgress, Working, Progress, Idle
<1>5. SavedNew
  BY DEF SavedNew, NoStaging, Nothing
<1> QED
  BY <1>1, <1>3, <1>4, <1>5 DEF IInv

\* Steps that touch no row leave what the rows say as it was.
LEMMA RowsKept ==
    ASSUME IInv, UNCHANGED <<runs, staging, built>>, source' \in Versions, source <= source'
    PROVE  Succeeded' = Succeeded /\ RunsRead' /\ SavedNew' /\ BuiltNew'
<1>1. Succeeded' = Succeeded
  BY DEF Succeeded
<1>2. RunsRead'
  <2> SUFFICES ASSUME NEW r \in 1..Len(runs) PROVE runs[r].fp <= source'
    BY DEF RunsRead
  <2>1. runs[r].fp \in 1..MaxLoads /\ source \in Nat /\ source' \in Nat
    BY Bounds, RunTypes DEF IInv, TypeOK
  <2>2. runs[r].fp <= source
    BY DEF IInv, RunsRead
  <2> QED
    BY <2>1, <2>2, Bounds
<1> QED
  BY <1>1, <1>2 DEF IInv, SavedNew, BuiltNew

LEMMA LoadRawInv == IInv /\ LoadRaw => IInv'
<1> SUFFICES ASSUME IInv, LoadRaw PROVE IInv'
  OBVIOUS
<1>1. source' \in Versions /\ source <= source' /\ source \in Nat
  BY Bounds DEF LoadRaw, IInv, TypeOK, Versions
<1>2. UNCHANGED <<slotOpen, started, runs, staging, stale, built, lock, job, kills>>
  BY DEF LoadRaw, database
<1>3. RunsRead' /\ SavedNew' /\ BuiltNew'
  BY <1>1, <1>2, RowsKept
<1>4. TypeOK'
  BY <1>1, <1>2 DEF IInv, TypeOK
<1>5. JobsHold'
  BY <1>2 DEF IInv, JobsHold, Working, Holds
<1>6. JobsProgress'
  <2> SUFFICES ASSUME NEW j \in Instances PROVE Progress(j)'
    BY DEF JobsProgress
  <2>1. Progress(j)
    BY DEF IInv, JobsProgress
  <2>2. job[j].fp \in 1..source => job[j].fp \in 1..source'
    BY <1>1, Bounds
  <2> QED
    BY <2>1, <2>2, <1>2 DEF Progress
<1> QED
  BY <1>3, <1>4, <1>5, <1>6 DEF IInv

LEMMA SlotInv == IInv /\ (OpenSlot \/ CloseSlot) => IInv'
<1> SUFFICES ASSUME IInv, OpenSlot \/ CloseSlot PROVE IInv'
  OBVIOUS
<1>1. /\ UNCHANGED <<source, runs, staging, stale, built, lock, job, kills>>
      /\ slotOpen' \in BOOLEAN /\ started' \in BOOLEAN
  BY DEF OpenSlot, CloseSlot, database, IInv, TypeOK
<1>2. source' \in Versions /\ source <= source'
  BY <1>1, Bounds DEF IInv, TypeOK
<1>3. RunsRead' /\ SavedNew' /\ BuiltNew'
  BY <1>1, <1>2, RowsKept
<1>4. TypeOK'
  BY <1>1 DEF IInv, TypeOK
<1>5. JobsHold' /\ JobsProgress'
  BY <1>1 DEF IInv, JobsHold, Working, Holds, JobsProgress, Progress
<1> QED
  BY <1>3, <1>4, <1>5 DEF IInv

----------------------------------------------------------------------------
(* Steps of one instance.                                                    *)

\* An instance that is not at work changes only its own job.
LEMMA AloneInv ==
    ASSUME IInv, NEW i \in Instances, NEW changed \in Jobs, Go(i, changed),
           UNCHANGED <<world, lock, database>>, kills' \in 0..MaxKills,
           changed.pc \in {"idle", "judge", "lock"},
           changed.pc # "idle" => changed.fp \in 1..source
    PROVE  IInv'
<1>1. /\ job' \in [Instances -> Jobs] /\ job'[i] = changed
      /\ \A j \in Instances \ {i} : job'[j] = job[j]
  BY GoType DEF IInv
<1>2. UNCHANGED <<source, slotOpen, started, lock, runs, staging, stale, built>>
  BY DEF world, database
<1>3. source' \in Versions /\ source <= source'
  BY <1>2, Bounds DEF IInv, TypeOK
<1>4. RunsRead' /\ SavedNew' /\ BuiltNew'
  BY <1>2, <1>3, RowsKept
<1>5. TypeOK'
  BY <1>1, <1>2 DEF IInv, TypeOK
<1>6. JobsHold'
  BY <1>1, <1>2 DEF IInv, JobsHold, Working, Holds
<1>7. JobsProgress'
  <2> SUFFICES ASSUME NEW j \in Instances PROVE Progress(j)'
    BY DEF JobsProgress
  <2>1. CASE j = i
    BY <2>1, <1>1, <1>2 DEF Progress
  <2>2. CASE j # i
    BY <2>2, <1>1, <1>2 DEF IInv, JobsProgress, Progress
  <2> QED
    BY <2>1, <2>2
<1> QED
  BY <1>4, <1>5, <1>6, <1>7 DEF IInv

LEMMA TickInv == ASSUME IInv, NEW i \in Instances, Tick(i) PROVE IInv'
<1> DEFINE changed == [Idle EXCEPT !.pc = "judge", !.fp = source]
<1>1. source \in Versions /\ source # 0 /\ kills \in 0..MaxKills
  BY DEF Tick, ShouldRun, IInv, TypeOK
<1>2. changed \in Jobs /\ changed.pc = "judge" /\ changed.fp \in 1..source
  <2>1. Idle \in Jobs /\ source \in Nat
    BY <1>1, JobTypes, Bounds
  <2>2. source \in 1..source
    BY <2>1, <1>1
  <2> QED
    BY <1>1, <2>1, <2>2 DEF Jobs
<1>3. Go(i, changed) /\ UNCHANGED <<world, lock, database, kills>>
  BY DEF Tick
<1> HIDE DEF changed
<1> QED
  BY <1>1, <1>2, <1>3, AloneInv

LEMMA JudgeInv == ASSUME IInv, NEW i \in Instances, Judge(i) PROVE IInv'
<1>1. PICK whole \in BOOLEAN : Go(i, [job[i] EXCEPT !.pc = "lock", !.whole = whole])
  BY DEF Judge
<1> DEFINE changed == [job[i] EXCEPT !.pc = "lock", !.whole = whole]
<1>2. job[i] \in Jobs /\ kills \in 0..MaxKills /\ job[i].fp \in 1..source
  BY DEF Judge, IInv, TypeOK, JobsProgress, Progress
<1>3. changed \in Jobs /\ changed.pc = "lock" /\ changed.fp = job[i].fp
  BY <1>2 DEF Jobs
<1>4. Go(i, changed) /\ UNCHANGED <<world, lock, database, kills>>
  BY <1>1 DEF Judge
<1> HIDE DEF changed
<1> QED
  BY <1>2, <1>3, <1>4, AloneInv

LEMMA BusyInv == ASSUME IInv, NEW i \in Instances, Busy(i) PROVE IInv'
<1>1. Idle \in Jobs /\ Idle.pc = "idle" /\ kills \in 0..MaxKills
  BY JobTypes DEF Idle, IInv, TypeOK
<1>2. Go(i, Idle) /\ UNCHANGED <<world, lock, database, kills>>
  BY DEF Busy
<1> QED
  BY <1>1, <1>2, AloneInv

\* Nobody else is at work beside the holder of the lock.
LEMMA OnlyOne ==
    ASSUME IInv, NEW i \in Instances, Working(i) \/ lock = NoOne,
           NEW j \in Instances \ {i}
    PROVE  ~Working(j)
<1>1. NoOne \notin Instances
  BY PipelineAssumption
<1> QED
  BY <1>1 DEF IInv, JobsHold, Holds

\* What closing the rows of dead runs and writing a new one leaves.
LEMMA AppendRun ==
    ASSUME TypeOK, NEW new \in Run, new.status = "running",
           runs' = Append([r \in 1..Len(runs) |-> Abandoned(runs[r])], new)
    PROVE  /\ runs' \in Seq(Run) /\ Len(runs') = Len(runs) + 1 /\ runs'[Len(runs) + 1] = new
           /\ \A r \in 1..Len(runs) : runs'[r].fp = runs[r].fp
           /\ Succeeded' = Succeeded
<1> DEFINE old == [r \in 1..Len(runs) |-> Abandoned(runs[r])]
<1>1. Len(runs) \in Nat /\ \A r \in 1..Len(runs) : runs[r] \in Run
  BY RunTypes
<1>2. \A r \in 1..Len(runs) : Abandoned(runs[r]) \in Run
  BY <1>1, AbandonedType
<1>3. old \in Seq(Run) /\ Len(old) = Len(runs)
  BY <1>1, <1>2, IsASeq
<1>4. \A r \in 1..Len(runs) : old[r] = Abandoned(runs[r])
  OBVIOUS
<1> HIDE DEF old
<1>5. runs' = Append(old, new)
  BY DEF old
<1>6. runs' \in Seq(Run) /\ Len(runs') = Len(runs) + 1 /\ runs'[Len(runs) + 1] = new
  BY <1>1, <1>3, <1>5, AppendProperties
<1>7. \A r \in 1..Len(runs) : runs'[r] = Abandoned(runs[r])
  BY <1>1, <1>3, <1>4, <1>5, AppendProperties
<1>8. \A r \in 1..Len(runs) : runs'[r].fp = runs[r].fp
  BY <1>1, <1>7, AbandonedType
<1>9. \A r \in 1..Len(runs) : runs'[r].status = "succeeded" <=> runs[r].status = "succeeded"
  BY <1>1, <1>7, AbandonedType
<1>10. Succeeded' = Succeeded
  <2>1. 1..Len(runs') = 1..Len(runs) \cup {Len(runs) + 1}
    BY <1>1, <1>6
  <2>2. runs'[Len(runs) + 1].status # "succeeded"
    BY <1>6
  <2> QED
    BY <2>1, <2>2, <1>9 DEF Succeeded
<1> QED
  BY <1>6, <1>8, <1>10

LEMMA BeginInv == ASSUME IInv, NEW i \in Instances, Begin(i) PROVE IInv'
<1> DEFINE new == [fp |-> job[i].fp, status |-> "running"]
           changed == [job[i] EXCEPT !.pc = "claim", !.run = Len(runs) + 1]
<1>1. job[i] \in Jobs /\ job[i].fp \in 1..source /\ source \in Versions /\ Len(runs) \in Nat
  BY RunTypes DEF Begin, IInv, TypeOK, JobsProgress, Progress
<1>2. new \in Run /\ new.status = "running" /\ new.fp = job[i].fp
  BY <1>1, Bounds DEF Run, Versions
<1>3. changed \in Jobs /\ changed.pc = "claim" /\ changed.run = Len(runs) + 1 /\ changed.fp = job[i].fp
  <2>1. PICK n \in Nat : n = Len(runs) + 1
    BY <1>1
  <2>2. changed = [job[i] EXCEPT !.pc = "claim", !.run = n]
    BY <2>1
  <2> HIDE DEF changed
  <2> QED
    BY <1>1, <2>1, <2>2 DEF Jobs
<1>4. Go(i, changed)
  BY DEF Begin
<1>5. runs' = Append([r \in 1..Len(runs) |-> Abandoned(runs[r])], new)
  BY DEF Begin
<1> HIDE DEF new, changed
<1>6. /\ runs' \in Seq(Run) /\ Len(runs') = Len(runs) + 1 /\ runs'[Len(runs) + 1] = new
      /\ \A r \in 1..Len(runs) : runs'[r].fp = runs[r].fp
      /\ Succeeded' = Succeeded
  BY <1>2, <1>5, AppendRun DEF IInv
<1>7. /\ job' \in [Instances -> Jobs] /\ job'[i] = changed
      /\ \A j \in Instances \ {i} : job'[j] = job[j]
  BY <1>3, <1>4, GoType DEF IInv
<1>8. /\ lock = NoOne /\ lock' = i /\ started' = TRUE
      /\ UNCHANGED <<source, slotOpen, staging, stale, built, kills>>
  BY DEF Begin
<1>9. TypeOK'
  BY <1>6, <1>7, <1>8 DEF IInv, TypeOK, Run
<1>10. JobsHold'
  <2> SUFFICES ASSUME NEW j \in Instances, Working(j)' PROVE Holds(j)'
    BY DEF JobsHold
  <2>1. CASE j = i
    BY <2>1, <1>1, <1>2, <1>3, <1>6, <1>7, <1>8 DEF Holds
  <2>2. CASE j # i
    BY <2>2, <1>7, <1>8, OnlyOne DEF Working
  <2> QED
    BY <2>1, <2>2
<1>11. JobsProgress'
  <2> SUFFICES ASSUME NEW j \in Instances PROVE Progress(j)'
    BY DEF JobsProgress
  <2>1. CASE j = i
    BY <2>1, <1>1, <1>3, <1>7, <1>8 DEF Progress
  <2>2. CASE j # i
    BY <2>2, <1>7, <1>8 DEF IInv, JobsProgress, Progress
  <2> QED
    BY <2>1, <2>2
<1>12. RunsRead'
  <2> SUFFICES ASSUME NEW r \in 1..Len(runs') PROVE runs'[r].fp <= source'
    BY DEF RunsRead
  <2>1. CASE r = Len(runs) + 1
    BY <2>1, <1>1, <1>2, <1>6, <1>8, Bounds
  <2>2. CASE r # Len(runs) + 1
    <3>1. r \in 1..Len(runs)
      BY <2>2, <1>1, <1>6
    <3> QED
      BY <3>1, <1>6, <1>8 DEF IInv, RunsRead
  <2> QED
    BY <2>1, <2>2
<1>13. \A r \in Succeeded : runs'[r].fp = runs[r].fp
  BY <1>6 DEF Succeeded
<1>14. SavedNew'
  BY <1>6, <1>8, <1>13 DEF IInv, SavedNew
<1>15. BuiltNew'
  BY <1>6, <1>8, <1>13 DEF IInv, BuiltNew
<1> QED
  BY <1>9, <1>10, <1>11, <1>12, <1>14, <1>15 DEF IInv

\* A step of the holder of the lock that leaves runs and lock alone and keeps
\* its row: types and ownership.
LEMMA HolderKeeps ==
    ASSUME IInv, NEW i \in Instances, Working(i), NEW changed \in Jobs, Go(i, changed),
           changed.run = job[i].run, changed.fp = job[i].fp,
           UNCHANGED <<world, lock, runs, kills>>,
           staging' \in Staging, stale' \in BOOLEAN, built' \in [LaterStages -> Data],
           Progress(i)'
    PROVE  TypeOK' /\ JobsHold' /\ JobsProgress' /\ RunsRead' /\ Succeeded' = Succeeded
<1>1. /\ job' \in [Instances -> Jobs] /\ job'[i] = changed
      /\ \A j \in Instances \ {i} : job'[j] = job[j]
  BY GoType DEF IInv
<1>2. UNCHANGED <<source, slotOpen, started, lock, runs, kills>>
  BY DEF world
<1>3. TypeOK'
  BY <1>1, <1>2 DEF IInv, TypeOK, Staging
<1>4. JobsHold'
  <2> SUFFICES ASSUME NEW j \in Instances, Working(j)' PROVE Holds(j)'
    BY DEF JobsHold
  <2>1. CASE j = i
    BY <2>1, <1>1, <1>2 DEF IInv, JobsHold, Holds
  <2>2. CASE j # i
    BY <2>2, <1>1, OnlyOne DEF Working
  <2> QED
    BY <2>1, <2>2
<1>5. JobsProgress'
  <2> SUFFICES ASSUME NEW j \in Instances, j # i PROVE Progress(j)'
    BY DEF JobsProgress
  <2>1. ~Working(j) /\ job'[j] = job[j] /\ Progress(j)
    BY <1>1, OnlyOne DEF IInv, JobsProgress
  <2> QED
    BY <2>1, <1>2 DEF Progress, Working
<1>6. RunsRead' /\ Succeeded' = Succeeded
  BY <1>2 DEF IInv, RunsRead, Succeeded
<1> QED
  BY <1>3, <1>4, <1>5, <1>6

LEMMA ClaimInv == ASSUME IInv, NEW i \in Instances, Claim(i) PROVE IInv'
<1> DEFINE changed == [job[i] EXCEPT !.pc = "stage"]
           fresh == [fp |-> job[i].fp, whole |-> job[i].whole, status |-> "running", saved |-> Nothing]
<1>1. job[i] \in Jobs /\ job[i].fp \in 1..source /\ staging \in Staging /\ built \in [LaterStages -> Data]
  BY DEF Claim, IInv, TypeOK, Staging, JobsProgress, Progress
<1>2. changed \in Jobs /\ changed.pc = "stage" /\ changed.run = job[i].run /\ changed.fp = job[i].fp
  BY <1>1 DEF Jobs
<1>3. Go(i, changed) /\ UNCHANGED <<world, lock, runs, built, kills>> /\ stale' = FALSE /\ Working(i)
  BY DEF Claim, Working
<1>4. fresh \in Staging /\ fresh.fp = job[i].fp /\ fresh.saved = Nothing
  BY <1>1, Bounds DEF Jobs, Staging
<1>5. \/ staging' = fresh
      \/ staging.fp = job[i].fp /\ staging' = [staging EXCEPT !.status = "running"]
  BY DEF Claim, Resumable
<1>6. staging' \in Staging /\ staging'.fp = job[i].fp
  <2>1. [staging EXCEPT !.status = "running"] \in Staging
    BY <1>1 DEF Staging
  <2>2. [staging EXCEPT !.status = "running"].fp = staging.fp
    BY <1>1 DEF Staging
  <2> HIDE DEF fresh
  <2> QED
    BY <1>4, <1>5, <2>1, <2>2
<1> HIDE DEF changed
<1>7. job'[i] = changed /\ source' = source
  BY <1>2, <1>3, GoType DEF IInv, world
<1>8. Progress(i)'
  BY <1>1, <1>2, <1>6, <1>7 DEF Progress
<1>9. TypeOK' /\ JobsHold' /\ JobsProgress' /\ RunsRead' /\ Succeeded' = Succeeded
  BY <1>1, <1>2, <1>3, <1>6, <1>8, HolderKeeps
<1>10. SavedNew'
  <2>1. CASE staging' = fresh
    <3>1. \A s \in Steps : staging'.saved[s] = 0
      BY <2>1, <1>4 DEF Nothing
    <3> QED
      BY <3>1 DEF SavedNew
  <2>2. CASE staging' = [staging EXCEPT !.status = "running"]
    <3>1. staging'.saved = staging.saved /\ staging'.fp = staging.fp
      BY <2>2, <1>1 DEF Staging
    <3> QED
      BY <3>1, <1>3, <1>9 DEF IInv, SavedNew
  <2> QED
    BY <1>5, <2>1, <2>2
<1>11. BuiltNew'
  BY <1>3, <1>9 DEF IInv, BuiltNew
<1> QED
  BY <1>9, <1>10, <1>11 DEF IInv

LEMMA SaveStepInv == ASSUME IInv, NEW i \in Instances, SaveStep(i) PROVE IInv'
<1>1. job[i] \in Jobs /\ job[i].fp \in 1..source /\ staging \in Staging /\ built \in [LaterStages -> Data]
  BY DEF SaveStep, IInv, TypeOK, Staging, JobsProgress, Progress
<1>2. /\ job[i].pc = "stage" /\ Working(i) /\ job' = job
      /\ UNCHANGED <<world, lock, runs, stale, built, job, kills>>
      /\ UNCHANGED <<source, runs, built>>
  BY DEF SaveStep, Working, world
<1>3. PICK s \in Steps : staging' = [staging EXCEPT !.saved[s] = source]
  BY DEF SaveStep, Unsaved
<1>4. source \in Versions /\ source \in Nat
  BY Bounds DEF IInv, TypeOK
<1>5. /\ staging' \in Staging /\ staging'.fp = staging.fp
      /\ staging'.saved[s] = source
      /\ \A q \in Steps \ {s} : staging'.saved[q] = staging.saved[q]
  <2>1. [staging.saved EXCEPT ![s] = source] \in Data
    BY <1>1, <1>4 DEF Staging, Data
  <2>2. staging' = [staging EXCEPT !.saved = [staging.saved EXCEPT ![s] = source]]
    BY <1>3, <1>1 DEF Staging
  <2> QED
    BY <2>1, <2>2, <1>1 DEF Staging, Data
<1>6. Go(i, job[i])
  BY <1>2 DEF Go, IInv, TypeOK
<1>7. Progress(i)'
  <2>1. Progress(i)
    BY DEF IInv, JobsProgress
  <2> QED
    BY <2>1, <1>2, <1>5 DEF Progress
<1>8. stale' \in BOOLEAN
  BY <1>2 DEF IInv, TypeOK
<1>9. TypeOK' /\ JobsHold' /\ JobsProgress' /\ RunsRead' /\ Succeeded' = Succeeded
  BY <1>1, <1>2, <1>5, <1>6, <1>7, <1>8, HolderKeeps
<1>10. SavedNew'
  <2> SUFFICES ASSUME NEW q \in Steps, staging'.saved[q] # 0
               PROVE  /\ staging'.fp <= staging'.saved[q]
                      /\ \A r \in Succeeded : runs[r].fp <= staging'.saved[q]
    BY <1>2, <1>9 DEF SavedNew
  <2>1. CASE q = s
    <3>1. staging.fp = job[i].fp /\ job[i].fp <= source
      BY <1>1, <1>2 DEF IInv, JobsProgress, Progress
    <3>2. \A r \in Succeeded : runs[r].fp <= source
      BY DEF IInv, RunsRead, Succeeded
    <3> QED
      BY <2>1, <1>5, <3>1, <3>2
  <2>2. CASE q # s
    BY <2>2, <1>5 DEF IInv, SavedNew
  <2> QED
    BY <2>1, <2>2
<1>11. BuiltNew'
  BY <1>2, <1>9 DEF IInv, BuiltNew
<1> QED
  BY <1>9, <1>10, <1>11 DEF IInv

LEMMA EndStagingInv == ASSUME IInv, NEW i \in Instances, EndStaging(i) PROVE IInv'
<1> DEFINE changed == [job[i] EXCEPT !.pc = "later", !.at = 1]
<1>1. job[i] \in Jobs /\ job[i].fp \in 1..source /\ staging \in Staging /\ built \in [LaterStages -> Data]
  BY DEF EndStaging, IInv, TypeOK, Staging, JobsProgress, Progress
<1>2. 1 \in 0..(Len(Later) + 1) /\ 1 \in 1..(Len(Later) + 1) /\ 1..(1 - 1) = {}
  BY StageFacts
<1>3. /\ changed \in Jobs /\ changed.pc = "later" /\ changed.at = 1
      /\ changed.run = job[i].run /\ changed.fp = job[i].fp
  BY <1>1, <1>2 DEF Jobs
<1>4. /\ Go(i, changed) /\ UNCHANGED <<world, lock, runs, stale, built, kills>>
      /\ Working(i) /\ job[i].pc = "stage"
  BY DEF EndStaging, Working
<1>5. /\ staging' \in Staging /\ staging'.fp = staging.fp /\ staging'.saved = staging.saved
      /\ \A s \in Steps : staging.saved[s] # 0
  BY <1>1 DEF EndStaging, Staging, Unsaved
<1> HIDE DEF changed
<1>6. job'[i] = changed /\ source' = source
  BY <1>3, <1>4, GoType DEF IInv, world
<1>7. Progress(i)'
  <2>1. staging.fp = job[i].fp
    BY <1>4 DEF IInv, JobsProgress, Progress
  <2>2. \A s \in Steps : staging'.saved[s] # 0 /\ job[i].fp <= staging'.saved[s]
    BY <1>5, <2>1 DEF IInv, SavedNew
  <2> QED
    BY <1>1, <1>2, <1>3, <1>6, <2>2 DEF Progress
<1>8. stale' \in BOOLEAN
  BY <1>4 DEF IInv, TypeOK
<1>9. TypeOK' /\ JobsHold' /\ JobsProgress' /\ RunsRead' /\ Succeeded' = Succeeded
  BY <1>1, <1>3, <1>4, <1>5, <1>7, <1>8, HolderKeeps
<1>10. SavedNew' /\ BuiltNew'
  BY <1>4, <1>5, <1>9 DEF IInv, SavedNew, BuiltNew
<1> QED
  BY <1>9, <1>10 DEF IInv

LEMMA StageFailsInv == ASSUME IInv, NEW i \in Instances, StageFails(i) PROVE IInv'
<1> DEFINE changed == [job[i] EXCEPT !.pc = "final", !.ok = FALSE]
<1>1. job[i] \in Jobs /\ job[i].fp \in 1..source /\ staging \in Staging /\ built \in [LaterStages -> Data]
  BY DEF StageFails, IInv, TypeOK, Staging, JobsProgress, Progress
<1>2. /\ changed \in Jobs /\ changed.pc = "final" /\ ~changed.ok
      /\ changed.run = job[i].run /\ changed.fp = job[i].fp
  BY <1>1 DEF Jobs
<1>3. Go(i, changed) /\ UNCHANGED <<world, lock, runs, stale, built, kills>> /\ Working(i)
  BY DEF StageFails, Working
<1>4. staging' \in Staging /\ staging'.fp = staging.fp /\ staging'.saved = staging.saved
  BY <1>1 DEF StageFails, Staging
<1> HIDE DEF changed
<1>5. job'[i] = changed /\ source' = source
  BY <1>2, <1>3, GoType DEF IInv, world
<1>6. Progress(i)'
  BY <1>1, <1>2, <1>5 DEF Progress
<1>7. stale' \in BOOLEAN
  BY <1>3 DEF IInv, TypeOK
<1>8. TypeOK' /\ JobsHold' /\ JobsProgress' /\ RunsRead' /\ Succeeded' = Succeeded
  BY <1>1, <1>2, <1>3, <1>4, <1>6, <1>7, HolderKeeps
<1>9. SavedNew' /\ BuiltNew'
  BY <1>3, <1>4, <1>8 DEF IInv, SavedNew, BuiltNew
<1> QED
  BY <1>8, <1>9 DEF IInv

\* What a later stage computes is as new as the run it works for, and as every
\* run that succeeded.
LEMMA ComputedNew ==
    ASSUME IInv, NEW i \in Instances, job[i].pc = "later", job[i].at \in 1..Len(Later),
           NEW data \in Data, Computed(Later[job[i].at], data), NEW s \in Steps
    PROVE  job[i].fp <= data[s] /\ \A r \in Succeeded : runs[r].fp <= data[s]
<1>1. PICK k \in Reads[Later[job[i].at]] : data[s] = Output(k)[s]
  BY DEF Computed
<1>2. /\ staging.saved[s] # 0 /\ job[i].fp <= staging.saved[s]
      /\ \A j \in 1..(job[i].at - 1) : \A q \in Steps : job[i].fp <= built[Later[j]][q]
  BY DEF IInv, JobsProgress, Progress
<1>3. CASE k = "staging"
  BY <1>1, <1>2, <1>3 DEF Output, IInv, SavedNew
<1>4. CASE k # "staging"
  <2>1. PICK j \in 1..(job[i].at - 1) : k = Later[j]
    BY <1>4, StageFacts
  <2>2. j \in 1..Len(Later) /\ Later[j] \in LaterStages
    BY <2>1, StageFacts
  <2>3. data[s] = built[Later[j]][s]
    BY <1>1, <1>4, <2>1 DEF Output
  <2> QED
    BY <1>2, <2>1, <2>2, <2>3 DEF IInv, BuiltNew
<1> QED
  BY <1>3, <1>4

LEMMA RunStageInv == ASSUME IInv, NEW i \in Instances, RunStage(i) PROVE IInv'
<1> DEFINE changed == [job[i] EXCEPT !.at = @ + 1]
           stage == Later[job[i].at]
<1>1. /\ job[i] \in Jobs /\ job[i].fp \in 1..source /\ staging \in Staging /\ built \in [LaterStages -> Data]
      /\ job[i].pc = "later" /\ job[i].at \in 1..(Len(Later) + 1)
  BY DEF RunStage, IInv, TypeOK, Staging, JobsProgress, Progress
<1>2. job[i].at \in 1..Len(Later) /\ job[i].at + 1 \in 0..(Len(Later) + 1) /\ stage \in LaterStages
  BY <1>1, StageFacts DEF RunStage
<1>3. /\ changed \in Jobs /\ changed.pc = "later" /\ changed.at = job[i].at + 1
      /\ changed.run = job[i].run /\ changed.fp = job[i].fp
  BY <1>1, <1>2 DEF Jobs
<1>4. Go(i, changed) /\ UNCHANGED <<world, lock, runs, staging, stale, kills>> /\ Working(i)
  BY DEF RunStage, Working
<1>5. PICK data \in Data : Computed(stage, data) /\ built' = [built EXCEPT ![stage] = data]
  BY DEF RunStage
<1>6. \A s \in Steps : job[i].fp <= data[s] /\ \A r \in Succeeded : runs[r].fp <= data[s]
  BY <1>1, <1>2, <1>5, ComputedNew
<1>7. /\ built' \in [LaterStages -> Data] /\ built'[stage] = data
      /\ \A k \in LaterStages : k # stage => built'[k] = built[k]
  BY <1>1, <1>2, <1>5
<1> HIDE DEF changed, stage
<1>8. job'[i] = changed /\ UNCHANGED <<source, staging>>
  BY <1>3, <1>4, GoType DEF IInv, world
<1>9. Progress(i)'
  <2>1. ASSUME NEW k \in 1..job[i].at, NEW s \in Steps PROVE job[i].fp <= built'[Later[k]][s]
    <3>1. k \in 1..Len(Later) /\ Later[k] \in LaterStages
      BY <1>2, StageFacts
    <3>2. CASE Later[k] = stage
      BY <3>2, <1>6, <1>7
    <3>3. CASE Later[k] # stage
      <4>1. k \in 1..(job[i].at - 1)
        BY <1>2, <3>3, StageFacts DEF stage
      <4> QED
        BY <4>1, <3>1, <3>3, <1>1, <1>7 DEF IInv, JobsProgress, Progress
    <3> QED
      BY <3>2, <3>3
  <2>2. 1..(changed.at - 1) = 1..job[i].at /\ changed.at \in 1..(Len(Later) + 1)
    BY <1>2, <1>3, StageFacts
  <2>3. \A s \in Steps : staging.saved[s] # 0 /\ job[i].fp <= staging.saved[s]
    BY <1>1 DEF IInv, JobsProgress, Progress
  <2> QED
    BY <1>1, <1>3, <1>8, <2>1, <2>2, <2>3 DEF Progress
<1>10. staging' \in Staging /\ stale' \in BOOLEAN
  BY <1>1, <1>4 DEF IInv, TypeOK
<1>11. TypeOK' /\ JobsHold' /\ JobsProgress' /\ RunsRead' /\ Succeeded' = Succeeded
  BY <1>3, <1>4, <1>7, <1>9, <1>10, HolderKeeps
<1>12. SavedNew'
  BY <1>4, <1>11 DEF IInv, SavedNew
<1>13. BuiltNew'
  <2> SUFFICES ASSUME NEW r \in Succeeded, NEW k \in LaterStages, NEW s \in Steps
               PROVE  runs[r].fp <= built'[k][s]
    BY <1>4, <1>11 DEF BuiltNew
  <2>1. CASE k = stage
    BY <2>1, <1>6, <1>7
  <2>2. CASE k # stage
    BY <2>2, <1>7 DEF IInv, BuiltNew
  <2> QED
    BY <2>1, <2>2
<1> QED
  BY <1>11, <1>12, <1>13 DEF IInv

\* Who is at work leaves: the lock is free and its job idle.
LEMMA Released ==
    ASSUME IInv, NEW i \in Instances, Working(i), Release(i)
    PROVE  /\ lock' = NoOne /\ job' \in [Instances -> Jobs] /\ job'[i] = Idle
           /\ \A j \in Instances \ {i} : job'[j] = job[j]
           /\ \A j \in Instances : ~(Working(j)')
<1>1. lock = i
  BY DEF IInv, JobsHold, Holds
<1>2. lock' = NoOne /\ Go(i, Idle)
  BY <1>1 DEF Release
<1>3. /\ job' \in [Instances -> Jobs] /\ job'[i] = Idle
      /\ \A j \in Instances \ {i} : job'[j] = job[j]
  BY <1>2, JobTypes, GoType DEF IInv
<1>4. ASSUME NEW j \in Instances PROVE ~(Working(j)')
  <2>1. CASE j = i
    BY <2>1, <1>3 DEF Working, Idle
  <2>2. CASE j # i
    BY <2>2, <1>3, OnlyOne DEF Working
  <2> QED
    BY <2>1, <2>2
<1> QED
  BY <1>2, <1>3, <1>4

\* The jobs still go with the rows when one leaves and nothing is written.
LEMMA LeaveProgress ==
    ASSUME IInv, NEW i \in Instances, job'[i] = Idle, \A j \in Instances \ {i} : job'[j] = job[j],
           UNCHANGED <<source, staging, built>>
    PROVE  JobsProgress'
<1> SUFFICES ASSUME NEW j \in Instances PROVE Progress(j)'
  BY DEF JobsProgress
<1>1. CASE j = i
  BY <1>1 DEF Progress, Idle
<1>2. CASE j # i
  BY <1>2 DEF IInv, JobsProgress, Progress
<1> QED
  BY <1>1, <1>2

LEMMA KillInv == ASSUME IInv, NEW i \in Instances, Kill(i) PROVE IInv'
<1>1. /\ UNCHANGED <<source, slotOpen, started, runs, staging, stale, built>>
      /\ Working(i) /\ Release(i) /\ kills' = kills + 1 /\ kills < MaxKills
  BY DEF Kill, world, database
<1>2. /\ lock' = NoOne /\ job' \in [Instances -> Jobs] /\ job'[i] = Idle
      /\ \A j \in Instances \ {i} : job'[j] = job[j]
      /\ \A j \in Instances : ~(Working(j)')
  BY <1>1, Released
<1>3. kills' \in 0..MaxKills
  BY <1>1, PipelineAssumption DEF IInv, TypeOK
<1>4. TypeOK'
  BY <1>1, <1>2, <1>3 DEF IInv, TypeOK
<1>5. JobsHold' /\ JobsProgress'
  BY <1>1, <1>2, LeaveProgress DEF JobsHold
<1>6. source' \in Versions /\ source <= source'
  BY <1>1, Bounds DEF IInv, TypeOK
<1>7. RunsRead' /\ SavedNew' /\ BuiltNew'
  BY <1>1, <1>6, RowsKept
<1> QED
  BY <1>4, <1>5, <1>7 DEF IInv

\* A run that ends well has written everything at least as new as its
\* fingerprint.
LEMMA FinishedNew ==
    ASSUME IInv, NEW i \in Instances, Finished(i), job[i].ok
    PROVE  /\ \A s \in Steps : job[i].fp <= staging.saved[s]
           /\ \A k \in LaterStages : \A s \in Steps : job[i].fp <= built[k][s]
<1>1. job[i].pc = "later" /\ job[i].at = Len(Later) + 1
  BY DEF Finished, IInv, JobsProgress, Progress
<1>2. \A k \in 1..Len(Later) : \A s \in Steps : job[i].fp <= built[Later[k]][s]
  <2>1. job[i].at - 1 = Len(Later)
    BY <1>1, StageFacts
  <2> QED
    BY <2>1, <1>1 DEF IInv, JobsProgress, Progress
<1>3. \A s \in Steps : job[i].fp <= staging.saved[s]
  BY <1>1 DEF IInv, JobsProgress, Progress
<1> QED
  BY <1>2, <1>3 DEF LaterStages

LEMMA FinaliseInv == ASSUME IInv, NEW i \in Instances, Finalise(i) PROVE IInv'
<1> DEFINE n == job[i].run
           status == IF job[i].ok THEN "succeeded" ELSE "failed"
<1>1. /\ UNCHANGED <<source, slotOpen, started, staging, stale, built, kills>>
      /\ Working(i) /\ Finished(i) /\ Release(i)
      /\ runs' = [runs EXCEPT ![n].status = status]
  BY DEF Finalise, world, Working, Finished
<1>2. n \in 1..Len(runs) /\ runs[n].fp = job[i].fp
  BY <1>1 DEF IInv, JobsHold, Holds
<1>3. /\ lock' = NoOne /\ job' \in [Instances -> Jobs] /\ job'[i] = Idle
      /\ \A j \in Instances \ {i} : job'[j] = job[j]
      /\ \A j \in Instances : ~(Working(j)')
  BY <1>1, Released
<1>4. runs \in Seq(Run) /\ \A r \in 1..Len(runs) : runs[r] \in Run
  BY RunTypes DEF IInv, TypeOK, Run
<1>5. [runs[n] EXCEPT !.status = status] \in Run /\ status \in {"succeeded", "failed"}
  BY <1>2, <1>4 DEF Run
<1>6. runs' = [runs EXCEPT ![n] = [runs[n] EXCEPT !.status = status]]
  BY <1>1
<1>7. runs' \in Seq(Run) /\ Len(runs') = Len(runs)
  BY <1>2, <1>4, <1>5, <1>6, ExceptSeq
<1>8. \A r \in 1..Len(runs) : runs'[r].fp = runs[r].fp /\ (r # n => runs'[r] = runs[r])
  <2>1. [runs[n] EXCEPT !.status = status].fp = runs[n].fp
    BY <1>2, <1>4 DEF Run
  <2> HIDE DEF n, status
  <2>2. \A r \in 1..Len(runs) : r # n => runs'[r] = runs[r]
    BY <1>2, <1>4, <1>5, <1>6, ExceptSeq
  <2>3. runs'[n] = [runs[n] EXCEPT !.status = status]
    BY <1>2, <1>4, <1>5, <1>6, ExceptSeq
  <2> QED
    BY <2>1, <2>2, <2>3
<1>9. runs'[n].status = status
  <2> HIDE DEF n, status
  <2>1. runs'[n] = [runs[n] EXCEPT !.status = status]
    BY <1>2, <1>4, <1>5, <1>6, ExceptSeq
  <2> QED
    BY <2>1, <1>2, <1>4 DEF Run
<1>10. \A r \in Succeeded' : r \in Succeeded \/ (r = n /\ job[i].ok)
  BY <1>7, <1>8, <1>9 DEF Succeeded
<1>11. \A r \in Succeeded' : r \in 1..Len(runs) /\ runs'[r].fp = runs[r].fp
  BY <1>7, <1>8 DEF Succeeded
<1> HIDE DEF n, status
<1>12. TypeOK'
  BY <1>1, <1>3, <1>7 DEF IInv, TypeOK, Run
<1>13. JobsHold' /\ JobsProgress'
  BY <1>1, <1>3, LeaveProgress DEF JobsHold
<1>14. RunsRead'
  BY <1>1, <1>7, <1>8 DEF IInv, RunsRead
<1>15. SavedNew'
  <2> SUFFICES ASSUME NEW s \in Steps, staging.saved[s] # 0, NEW r \in Succeeded'
               PROVE  staging.fp <= staging.saved[s] /\ runs'[r].fp <= staging.saved[s]
    <3>1. ASSUME NEW s \in Steps, staging.saved[s] # 0 PROVE staging.fp <= staging.saved[s]
      BY <3>1 DEF IInv, SavedNew
    <3> QED
      BY <3>1, <1>1 DEF SavedNew
  <2>1. staging.fp <= staging.saved[s]
    BY DEF IInv, SavedNew
  <2>2. CASE r \in Succeeded
    BY <2>1, <2>2, <1>11 DEF IInv, SavedNew
  <2>3. CASE r = n /\ job[i].ok
    BY <2>1, <2>3, <1>1, <1>2, <1>11, FinishedNew
  <2> QED
    BY <1>10, <2>2, <2>3
<1>16. BuiltNew'
  <2> SUFFICES ASSUME NEW r \in Succeeded', NEW k \in LaterStages, NEW s \in Steps
               PROVE  runs'[r].fp <= built[k][s]
    BY <1>1 DEF BuiltNew
  <2>1. CASE r \in Succeeded
    BY <2>1, <1>11 DEF IInv, BuiltNew
  <2>2. CASE r = n /\ job[i].ok
    BY <2>2, <1>1, <1>2, <1>11, FinishedNew
  <2> QED
    BY <1>10, <2>1, <2>2
<1> QED
  BY <1>12, <1>13, <1>14, <1>15, <1>16 DEF IInv

----------------------------------------------------------------------------
\* No tick, stage, load, failure or kill breaks the invariant.
THEOREM NextIInv == IInv /\ [Next]_vars => IInv'
<1> SUFFICES ASSUME IInv, [Next]_vars PROVE IInv'
  OBVIOUS
<1>1. CASE LoadRaw
  BY <1>1, LoadRawInv
<1>2. CASE OpenSlot \/ CloseSlot
  BY <1>2, SlotInv
<1>3. ASSUME NEW i \in Instances, Tick(i) \/ Judge(i) \/ Begin(i) \/ Busy(i) PROVE IInv'
  BY <1>3, TickInv, JudgeInv, BeginInv, BusyInv
<1>4. ASSUME NEW i \in Instances, Claim(i) \/ SaveStep(i) \/ EndStaging(i) \/ RunStage(i) PROVE IInv'
  BY <1>4, ClaimInv, SaveStepInv, EndStagingInv, RunStageInv
<1>5. ASSUME NEW i \in Instances, Finalise(i) \/ StageFails(i) \/ Kill(i) PROVE IInv'
  BY <1>5, FinaliseInv, StageFailsInv, KillInv
<1>6. CASE UNCHANGED vars
  <2>1. UNCHANGED <<source, slotOpen, started, runs, lock, staging, stale, built, job, kills>>
    BY <1>6 DEF vars
  <2>2. TypeOK' /\ JobsHold'
    BY <2>1 DEF IInv, TypeOK, JobsHold, Holds, Working
  <2>3. JobsProgress' /\ RunsRead'
    BY <2>1 DEF IInv, JobsProgress, Progress, RunsRead
  <2>4. SavedNew' /\ BuiltNew'
    BY <2>1 DEF IInv, SavedNew, BuiltNew, Succeeded
  <2> QED
    BY <2>2, <2>3, <2>4 DEF IInv
<1> QED
  BY <1>1, <1>2, <1>3, <1>4, <1>5, <1>6 DEF Next, Proceed

\* The invariant holds in every reachable state: what is at work holds the lock
\* (run_pipeline), and what it saved and built is as new as its fingerprint.
THEOREM InvariantHolds == Spec => []IInv
BY InitIInv, NextIInv, PTL DEF Spec

\* Runs, staging rows and jobs keep their types, and no run row is written for
\* a raw layer that never loaded, for every number of instances and loads.
THEOREM PipelineTypes == Spec => []TypeOK
<1>1. IInv => TypeOK
  BY DEF IInv
<1> QED
  BY <1>1, InvariantHolds, PTL

\* A live run is never written off, whoever races, fails or is killed.
THEOREM LiveRunsOwned == Spec => []Owned
<1>1. IInv => Owned
  BY DEF IInv, JobsHold, Holds, Owned
<1> QED
  BY <1>1, InvariantHolds, PTL

\* A version recorded as processed is in every recommendation, through every
\* stage and staging step, for every chain of stages, resume and kill.
THEOREM ProcessedPublished == Spec => []Published
<1>1. ASSUME IInv PROVE Published
  <2> SUFFICES ASSUME NEW v \in Versions, NEW r \in Succeeded, runs[r].fp = v, NEW s \in Steps
               PROVE  v <= built[Last][s]
    BY DEF Published, Processed
  <2> QED
    BY <1>1, StageFacts DEF IInv, BuiltNew
<1> QED
  BY <1>1, InvariantHolds, PTL

----------------------------------------------------------------------------
(* The deactivation sweep.                                                   *)

\* A verdict of a complete snapshot was true at some time since the fingerprint
\* was read, and no step saved what had not loaded.
Judged == \A i \in Instances : job[i].whole => \E v \in Complete : job[i].fp <= v /\ v <= source
SavedRead == \A s \in Steps : staging.saved[s] <= source

\* A job either keeps its verdict and its fingerprint, or drops the verdict, or
\* has just judged what is loaded now.
VerdictsKept ==
    \A i \in Instances : job'[i].whole =>
        \/ job[i].whole /\ job'[i].fp = job[i].fp
        \/ source \in Complete /\ job'[i].fp = job[i].fp /\ job[i].pc = "judge"

LEMMA VerdictOfOne ==
    ASSUME TypeOK, NEW i \in Instances, NEW changed \in Jobs, Go(i, changed),
           changed.whole => \/ job[i].whole /\ changed.fp = job[i].fp
                            \/ source \in Complete /\ changed.fp = job[i].fp /\ job[i].pc = "judge"
    PROVE  VerdictsKept
BY GoType DEF VerdictsKept

LEMMA VerdictStep == ASSUME IInv, [Next]_vars PROVE VerdictsKept /\ source' \in Nat /\ source <= source'
<1>1. TypeOK /\ source \in Nat
  BY Bounds DEF IInv, TypeOK
<1>2. \A i \in Instances : job[i] \in Jobs
  BY <1>1 DEF TypeOK
<1>3. CASE job' = job /\ (source' = source \/ source' = source + 1)
  BY <1>1, <1>3 DEF VerdictsKept
<1>4. ASSUME NEW i \in Instances, Tick(i) PROVE VerdictsKept /\ source' = source
  <2>1. Idle \in Jobs /\ source \in Versions
    BY <1>1, JobTypes DEF TypeOK
  <2> DEFINE changed == [Idle EXCEPT !.pc = "judge", !.fp = source]
  <2>2. changed \in Jobs /\ changed.whole = FALSE
    BY <2>1 DEF Idle, Jobs
  <2>3. Go(i, changed) /\ source' = source
    BY <1>4 DEF Tick, world
  <2> HIDE DEF changed
  <2> QED
    BY <1>1, <2>2, <2>3, VerdictOfOne
<1>5. ASSUME NEW i \in Instances, Judge(i) PROVE VerdictsKept /\ source' = source
  <2>1. PICK whole \in BOOLEAN : /\ whole <=> source \in Complete
                                 /\ Go(i, [job[i] EXCEPT !.pc = "lock", !.whole = whole])
    BY <1>5 DEF Judge
  <2> DEFINE changed == [job[i] EXCEPT !.pc = "lock", !.whole = whole]
  <2>2. changed \in Jobs /\ changed.whole = whole /\ changed.fp = job[i].fp
    BY <1>2 DEF Jobs
  <2>3. Go(i, changed) /\ source' = source /\ job[i].pc = "judge"
    BY <1>5, <2>1 DEF Judge, world
  <2> HIDE DEF changed
  <2> QED
    BY <1>1, <2>1, <2>2, <2>3, VerdictOfOne
<1>6. ASSUME NEW i \in Instances, NEW x \in Jobs, Go(i, x), source' = source,
             x = Idle \/ (x.whole = job[i].whole /\ x.fp = job[i].fp)
      PROVE  VerdictsKept
  <2>1. Idle.whole = FALSE
    BY DEF Idle
  <2> QED
    BY <1>1, <1>6, <2>1, VerdictOfOne
<1>7. ASSUME NEW i \in Instances, Busy(i) \/ Finalise(i) \/ Kill(i) PROVE VerdictsKept /\ source' = source
  <2>1. Go(i, Idle) /\ source' = source
    BY <1>7 DEF Busy, Finalise, Kill, Release, world
  <2> QED
    BY <2>1, <1>6, JobTypes
<1>8. ASSUME NEW i \in Instances, Begin(i) PROVE VerdictsKept /\ source' = source
  <2>1. PICK n \in Nat : n = Len(runs) + 1
    BY <1>1, RunTypes
  <2> DEFINE x == [job[i] EXCEPT !.pc = "claim", !.run = n]
  <2>2. Go(i, x) /\ source' = source
    BY <1>8, <2>1 DEF Begin
  <2>3. x \in Jobs /\ x.whole = job[i].whole /\ x.fp = job[i].fp
    BY <1>2 DEF Jobs
  <2> HIDE DEF x
  <2> QED
    BY <2>2, <2>3, <1>6
<1>9. ASSUME NEW i \in Instances, Claim(i) PROVE VerdictsKept /\ source' = source
  <2> DEFINE x == [job[i] EXCEPT !.pc = "stage"]
  <2>1. Go(i, x) /\ source' = source
    BY <1>9 DEF Claim, world
  <2>2. x \in Jobs /\ x.whole = job[i].whole /\ x.fp = job[i].fp
    BY <1>2 DEF Jobs
  <2> HIDE DEF x
  <2> QED
    BY <2>1, <2>2, <1>6
<1>10. ASSUME NEW i \in Instances, EndStaging(i) PROVE VerdictsKept /\ source' = source
  <2> DEFINE x == [job[i] EXCEPT !.pc = "later", !.at = 1]
  <2>1. Go(i, x) /\ source' = source
    BY <1>10 DEF EndStaging, world
  <2>2. 1 \in 0..(Len(Later) + 1)
    BY StageFacts
  <2>3. x \in Jobs /\ x.whole = job[i].whole /\ x.fp = job[i].fp
    BY <1>2, <2>2 DEF Jobs
  <2> HIDE DEF x
  <2> QED
    BY <2>1, <2>3, <1>6
<1>11. ASSUME NEW i \in Instances, RunStage(i) PROVE VerdictsKept /\ source' = source
  <2>1. PICK n \in 0..(Len(Later) + 1) : n = job[i].at + 1
    BY <1>11, <1>2, StageFacts DEF RunStage, Jobs
  <2> DEFINE x == [job[i] EXCEPT !.at = n]
  <2>2. Go(i, x) /\ source' = source
    BY <1>11, <2>1 DEF RunStage, world
  <2>3. x \in Jobs /\ x.whole = job[i].whole /\ x.fp = job[i].fp
    BY <1>2 DEF Jobs
  <2> HIDE DEF x
  <2> QED
    BY <2>2, <2>3, <1>6
<1>12. ASSUME NEW i \in Instances, StageFails(i) PROVE VerdictsKept /\ source' = source
  <2> DEFINE x == [job[i] EXCEPT !.pc = "final", !.ok = FALSE]
  <2>1. Go(i, x) /\ source' = source
    BY <1>12 DEF StageFails, world
  <2>2. x \in Jobs /\ x.whole = job[i].whole /\ x.fp = job[i].fp
    BY <1>2 DEF Jobs
  <2> HIDE DEF x
  <2> QED
    BY <2>1, <2>2, <1>6
<1>13. CASE LoadRaw \/ OpenSlot \/ CloseSlot \/ UNCHANGED vars \/ (\E i \in Instances : SaveStep(i))
  <2>1. job' = job /\ (source' = source \/ source' = source + 1)
    BY <1>13 DEF LoadRaw, OpenSlot, CloseSlot, SaveStep, vars, world
  <2> QED
    BY <2>1, <1>3, <1>1
<1> QED
  BY <1>1, <1>4, <1>5, <1>7, <1>8, <1>9, <1>10, <1>11, <1>12, <1>13 DEF Next, Proceed

LEMMA JudgedStep == IInv /\ Judged /\ [Next]_vars => Judged'
<1> SUFFICES ASSUME IInv, Judged, [Next]_vars, NEW i \in Instances, job'[i].whole
             PROVE  \E v \in Complete : job'[i].fp <= v /\ v <= source'
  BY DEF Judged
<1>1. source \in Nat /\ source' \in Nat /\ source <= source' /\ Complete \subseteq Nat
  BY VerdictStep, Bounds, PipelineAssumption DEF IInv, TypeOK
<1>2. CASE job[i].whole /\ job'[i].fp = job[i].fp
  BY <1>1, <1>2 DEF Judged
<1>3. CASE source \in Complete /\ job'[i].fp = job[i].fp /\ job[i].pc = "judge"
  <2>1. job[i].fp \in 1..source
    BY <1>3 DEF IInv, JobsProgress, Progress
  <2> QED
    BY <1>1, <1>3, <2>1
<1> QED
  BY <1>2, <1>3, VerdictStep DEF VerdictsKept

LEMMA SavedReadStep == IInv /\ SavedRead /\ [Next]_vars => SavedRead'
<1> SUFFICES ASSUME IInv, SavedRead, [Next]_vars, NEW s \in Steps PROVE staging'.saved[s] <= source'
  BY DEF SavedRead
<1>1. /\ source \in Nat /\ source' \in Nat /\ source <= source'
      /\ staging \in Staging /\ staging.saved[s] \in Nat /\ staging.saved[s] <= source
  BY VerdictStep, Bounds DEF IInv, TypeOK, Staging, SavedRead
<1>2. CASE staging'.saved = staging.saved
  BY <1>1, <1>2
<1>3. ASSUME NEW i \in Instances, Claim(i) PROVE staging'.saved = staging.saved \/ staging'.saved = Nothing
  BY <1>3, <1>1 DEF Claim, Staging
<1>4. CASE staging'.saved = Nothing
  BY <1>1, <1>4 DEF Nothing
<1>5. ASSUME NEW i \in Instances, SaveStep(i) PROVE staging'.saved[s] <= source'
  <2>1. PICK q \in Steps : staging' = [staging EXCEPT !.saved[q] = source]
    BY <1>5 DEF SaveStep, Unsaved
  <2>2. staging'.saved[s] = IF s = q THEN source ELSE staging.saved[s]
    BY <1>1, <2>1 DEF Staging, Data
  <2> QED
    BY <1>1, <2>2
<1>6. ASSUME NEW i \in Instances, EndStaging(i) \/ StageFails(i) PROVE staging'.saved = staging.saved
  BY <1>1, <1>6 DEF EndStaging, StageFails, Staging
<1>7. CASE LoadRaw \/ OpenSlot \/ CloseSlot \/ UNCHANGED vars
  BY <1>7, <1>2 DEF LoadRaw, OpenSlot, CloseSlot, vars, database
<1>8. ASSUME NEW i \in Instances, Tick(i) \/ Judge(i) \/ Begin(i) \/ Busy(i)
      PROVE  staging' = staging
  BY <1>8 DEF database, Tick, Judge, Begin, Busy
<1>9. ASSUME NEW i \in Instances, RunStage(i) \/ Finalise(i) \/ Kill(i) PROVE staging' = staging
  BY <1>9 DEF database, RunStage, Finalise, Kill
<1> QED
  BY <1>2, <1>3, <1>4, <1>5, <1>6, <1>7, <1>8, <1>9 DEF Next, Proceed

\* A run over a complete snapshot sweeps over one, resumed steps included, as
\* long as nothing has loaded since it read its fingerprint (extract._stage_locked).
THEOREM SweptWholeHolds == Spec => SweptWhole
<1>1. Init => Judged /\ SavedRead
  BY DEF Init, Judged, SavedRead, Idle, NoStaging, Nothing
<1>2. ASSUME IInv, Judged, SavedRead, NEW i \in Instances, EndStaging(i), job[i].whole,
             source = job[i].fp, NEW s \in Steps
      PROVE  staging.saved[s] \in Complete
  <2>1. source \in Nat /\ Complete \subseteq Nat /\ staging.saved[s] \in Nat
    <3>1. source \in Versions /\ staging.saved \in Data
      BY <1>2 DEF IInv, TypeOK
    <3>2. staging.saved[s] \in Versions
      BY <1>2, <3>1, Bounds
    <3>3. MaxLoads \in Nat /\ Complete \subseteq 1..MaxLoads
      BY PipelineAssumption
    <3>4. Complete \subseteq Nat
      BY <3>3
    <3> QED
      BY <3>1, <3>2, <3>4, Bounds
  <2>2. source \in Complete
    BY <1>2, <2>1 DEF Judged
  <2>3. staging.saved[s] # 0 /\ staging.fp = source
    BY <1>2 DEF EndStaging, Unsaved, IInv, JobsProgress, Progress
  <2>4. source <= staging.saved[s] /\ staging.saved[s] <= source
    BY <1>2, <2>3 DEF IInv, SavedNew, SavedRead
  <2> QED
    BY <2>1, <2>2, <2>4
<1>3. IInv /\ Judged /\ SavedRead =>
        \A i \in Instances : (EndStaging(i) /\ job[i].whole /\ source = job[i].fp) =>
            \A s \in Steps : staging.saved[s] \in Complete
  BY <1>2
<1>4. IInv /\ Judged /\ SavedRead =>
        [\A i \in Instances : (EndStaging(i) /\ job[i].whole /\ source = job[i].fp) =>
            \A s \in Steps : staging.saved[s] \in Complete]_vars
  BY <1>3
<1> QED
  BY <1>1, <1>4, JudgedStep, SavedReadStep, InvariantHolds, PTL DEF Spec, SweptWhole

----------------------------------------------------------------------------
(* The attempts at one version.                                              *)

\* The instances that have seen attempts left at v and not yet begun.
Waiting(v) == {i \in Instances : job[i].pc \in {"judge", "lock"} /\ job[i].fp = v}

\* Who waits may still use one attempt more.
Budget(v) == Cardinality(Tried(v)) + Cardinality(Waiting(v)) <= Retries + Cardinality(Instances)

LEMMA Counts ==
    ASSUME TypeOK, NEW v
    PROVE  /\ IsFiniteSet(Tried(v)) /\ Cardinality(Tried(v)) \in Nat
           /\ IsFiniteSet(Waiting(v)) /\ Cardinality(Waiting(v)) \in Nat
           /\ Cardinality(Waiting(v)) <= Cardinality(Instances)
           /\ Cardinality(Instances) \in Nat /\ Retries \in Nat
<1>1. IsFiniteSet(1..Len(runs))
  BY RunTypes, FS_Interval
<1>2. IsFiniteSet(Tried(v))
  BY <1>1, FS_Subset DEF Tried
<1>3. IsFiniteSet(Instances)
  BY InstancesAssumption
<1>4. IsFiniteSet(Waiting(v)) /\ Cardinality(Waiting(v)) <= Cardinality(Instances)
  BY <1>3, FS_Subset DEF Waiting
<1> QED
  BY <1>2, <1>3, <1>4, FS_CardinalityType, PipelineAssumption

LEMMA FewerTried ==
    ASSUME TypeOK, NEW v, Budget(v), Tried(v)' \subseteq Tried(v), Waiting(v)' \subseteq Waiting(v)
    PROVE  Budget(v)'
<1>1. /\ IsFiniteSet(Tried(v)) /\ Cardinality(Tried(v)) \in Nat
      /\ IsFiniteSet(Waiting(v)) /\ Cardinality(Waiting(v)) \in Nat
      /\ Cardinality(Instances) \in Nat /\ Retries \in Nat
  BY Counts
<1>2. IsFiniteSet(Tried(v)') /\ Cardinality(Tried(v)') <= Cardinality(Tried(v))
  BY <1>1, FS_Subset
<1>3. IsFiniteSet(Waiting(v)') /\ Cardinality(Waiting(v)') <= Cardinality(Waiting(v))
  BY <1>1, FS_Subset
<1>4. Cardinality(Tried(v)') \in Nat /\ Cardinality(Waiting(v)') \in Nat
  BY <1>2, <1>3, FS_CardinalityType
<1> QED
  BY <1>1, <1>2, <1>3, <1>4 DEF Budget

\* Nobody else waits for more than before.
LEMMA GoWaiting ==
    ASSUME TypeOK, NEW i \in Instances, NEW changed, Go(i, changed), NEW v,
           changed.pc \in {"judge", "lock"} => job[i].pc \in {"judge", "lock"} /\ changed.fp = job[i].fp
    PROVE  Waiting(v)' \subseteq Waiting(v)
<1>1. job'[i] = changed /\ \A j \in Instances \ {i} : job'[j] = job[j]
  BY DEF TypeOK, Go
<1> QED
  BY <1>1 DEF Waiting

LEMMA SameRuns == ASSUME UNCHANGED runs, NEW v PROVE Tried(v)' = Tried(v)
BY DEF Tried

\* A tick looks at the attempts before it waits.
LEMMA TickBudget == ASSUME IInv, IInv', NEW i \in Instances, Tick(i), NEW v, Budget(v) PROVE Budget(v)'
<1>1. UNCHANGED runs /\ Go(i, [Idle EXCEPT !.pc = "judge", !.fp = source])
  BY DEF Tick, database
<1>2. Tried(v)' = Tried(v)
  BY <1>1, SameRuns
<1>3. CASE v = source
  <2>1. Cardinality(Tried(v)) < Retries + 1
    BY <1>3 DEF Tick, Attempts, Tried
  <2>2. /\ Cardinality(Tried(v)) \in Nat /\ Cardinality(Instances) \in Nat /\ Retries \in Nat
    BY Counts DEF IInv
  <2>3. Cardinality(Waiting(v)') <= Cardinality(Instances) /\ Cardinality(Waiting(v)') \in Nat
    <3>1. IsFiniteSet(Instances) /\ Waiting(v)' \subseteq Instances
      BY InstancesAssumption DEF Waiting
    <3> QED
      BY <3>1, FS_Subset, FS_CardinalityType
  <2> QED
    BY <1>2, <2>1, <2>2, <2>3 DEF Budget
<1>4. CASE v # source
  <2>1. /\ job'[i].fp = source /\ \A j \in Instances \ {i} : job'[j] = job[j]
    BY <1>1 DEF Go, IInv, TypeOK, Idle
  <2>2. Waiting(v)' \subseteq Waiting(v)
    BY <1>4, <2>1 DEF Waiting
  <2> QED
    BY <1>2, <2>2, FewerTried DEF IInv
<1> QED
  BY <1>3, <1>4

\* Who begins uses the attempt it waited for.
LEMMA BeginBudget == ASSUME IInv, IInv', NEW i \in Instances, Begin(i), NEW v, Budget(v) PROVE Budget(v)'
<1>1. PICK new : new = [fp |-> job[i].fp, status |-> "running"]
  OBVIOUS
<1>2. PICK n \in Nat : n = Len(runs) + 1
  BY RunTypes DEF IInv
<1>3. /\ job[i] \in Jobs /\ job[i].fp \in 1..source /\ source \in Versions
      /\ job[i].pc = "lock"
  BY DEF Begin, IInv, TypeOK, JobsProgress, Progress
<1>4. new \in Run /\ new.status = "running" /\ new.fp = job[i].fp
  BY <1>1, <1>3, Bounds DEF Run, Versions
<1>5. /\ Len(runs') = n /\ runs'[n] = new /\ Succeeded' = Succeeded
      /\ \A r \in 1..Len(runs) : runs'[r].fp = runs[r].fp
  BY <1>1, <1>2, <1>4, AppendRun DEF IInv, Begin
<1>6. 1..Len(runs') = 1..Len(runs) \cup {n} /\ n \notin 1..Len(runs)
  BY <1>2, <1>5, RunTypes DEF IInv
<1>7. Tried(v)' = Tried(v) \cup (IF job[i].fp = v THEN {n} ELSE {})
  <2>1. \A r \in 1..Len(runs) : runs'[r].status = "succeeded" <=> runs[r].status = "succeeded"
    BY <1>5, <1>6 DEF Succeeded
  <2>2. \A r \in 1..Len(runs) : r \in Tried(v)' <=> r \in Tried(v)
    BY <1>5, <1>6, <2>1 DEF Tried
  <2>3. n \in Tried(v)' <=> job[i].fp = v
    BY <1>4, <1>5, <1>6 DEF Tried
  <2> QED
    BY <1>6, <2>2, <2>3 DEF Tried
<1>8. job'[i].pc = "claim" /\ \A j \in Instances \ {i} : job'[j] = job[j]
  <2>1. Go(i, [job[i] EXCEPT !.pc = "claim", !.run = n])
    BY <1>2 DEF Begin
  <2> QED
    BY <1>3, <2>1 DEF Go, IInv, TypeOK, Jobs
<1>9. Waiting(v)' = Waiting(v) \ {i}
  BY <1>8 DEF Waiting
<1>10. CASE job[i].fp # v
  BY <1>7, <1>9, <1>10, FewerTried DEF IInv
<1>11. CASE job[i].fp = v
  <2>1. i \in Waiting(v) /\ n \notin Tried(v)
    BY <1>3, <1>6, <1>11 DEF Waiting, Tried
  <2>2. /\ IsFiniteSet(Tried(v)) /\ Cardinality(Tried(v)) \in Nat
        /\ IsFiniteSet(Waiting(v)) /\ Cardinality(Waiting(v)) \in Nat
    BY Counts DEF IInv
  <2>3. Cardinality(Tried(v)') = Cardinality(Tried(v)) + 1
    BY <1>7, <1>11, <2>1, <2>2, FS_AddElement
  <2>4. Cardinality(Waiting(v)') = Cardinality(Waiting(v)) - 1
    BY <1>9, <2>1, <2>2, FS_RemoveElement
  <2> QED
    BY <2>2, <2>3, <2>4 DEF Budget
<1> QED
  BY <1>10, <1>11

\* The outcome is written to a row that was an attempt already.
LEMMA FinaliseTried == ASSUME IInv, NEW i \in Instances, Finalise(i), NEW v PROVE Tried(v)' \subseteq Tried(v)
<1>1. PICK n, status :
        /\ n = job[i].run /\ status = IF job[i].ok THEN "succeeded" ELSE "failed"
        /\ runs' = [runs EXCEPT ![n].status = status]
  BY DEF Finalise
<1>2. Working(i)
  BY DEF Finalise, Finished, Working
<1>3. n \in 1..Len(runs) /\ runs[n].status = "running"
  BY <1>1, <1>2 DEF IInv, JobsHold, Holds
<1>4. runs \in Seq(Run) /\ runs[n] \in Run
  BY <1>3, RunTypes DEF IInv, TypeOK, Run
<1>5. PICK changed : changed = [runs[n] EXCEPT !.status = status]
  OBVIOUS
<1>6. changed \in Run /\ changed.fp = runs[n].fp
  BY <1>1, <1>4, <1>5 DEF Run
<1>7. runs' = [runs EXCEPT ![n] = changed]
  BY <1>1, <1>5
<1>8. /\ Len(runs') = Len(runs) /\ runs'[n] = changed
      /\ \A r \in 1..Len(runs) : r # n => runs'[r] = runs[r]
  BY <1>3, <1>4, <1>6, <1>7, ExceptSeq
<1> QED
  BY <1>3, <1>6, <1>8 DEF Tried

LEMMA BudgetStep == ASSUME IInv, IInv', [Next]_vars, NEW v, Budget(v) PROVE Budget(v)'
<1>0. ASSUME UNCHANGED runs, Waiting(v)' \subseteq Waiting(v) PROVE Budget(v)'
  BY <1>0, SameRuns, FewerTried DEF IInv
<1>1. CASE LoadRaw \/ OpenSlot \/ CloseSlot \/ UNCHANGED vars
  <2>1. UNCHANGED <<runs, job>>
    BY <1>1 DEF LoadRaw, OpenSlot, CloseSlot, vars, database
  <2> QED
    BY <1>0, <2>1 DEF Waiting
<1>2. ASSUME NEW i \in Instances, Tick(i) \/ Begin(i) PROVE Budget(v)'
  BY <1>2, TickBudget, BeginBudget
<1>3. ASSUME NEW i \in Instances, Finalise(i) PROVE Budget(v)'
  <2>1. Go(i, Idle) /\ Idle.pc = "idle"
    BY <1>3 DEF Finalise, Release, Idle
  <2>2. Waiting(v)' \subseteq Waiting(v)
    BY <2>1, GoWaiting DEF IInv
  <2> QED
    BY <1>3, <2>2, FinaliseTried, FewerTried DEF IInv
<1>4. ASSUME NEW i \in Instances, Kill(i) \/ Busy(i) PROVE Budget(v)'
  <2>1. Go(i, Idle) /\ Idle.pc = "idle" /\ UNCHANGED runs
    BY <1>4 DEF Kill, Busy, Release, Idle, database
  <2>2. Waiting(v)' \subseteq Waiting(v)
    BY <2>1, GoWaiting DEF IInv
  <2> QED
    BY <1>0, <2>1, <2>2
<1>5. ASSUME NEW i \in Instances, SaveStep(i) PROVE Budget(v)'
  BY <1>0, <1>5 DEF SaveStep, Waiting
<1>6. ASSUME NEW i \in Instances,
             Judge(i) \/ Claim(i) \/ EndStaging(i) \/ RunStage(i) \/ StageFails(i)
      PROVE  Budget(v)'
  <2>1. job[i] \in Jobs /\ UNCHANGED runs
    BY <1>6 DEF IInv, TypeOK, Judge, Claim, EndStaging, RunStage, StageFails, database
  <2>2. PICK changed : /\ Go(i, changed)
                       /\ changed.pc \in {"judge", "lock"} =>
                            job[i].pc \in {"judge", "lock"} /\ changed.fp = job[i].fp
    <3>1. CASE Judge(i)
      <4>1. PICK whole \in BOOLEAN : Go(i, [job[i] EXCEPT !.pc = "lock", !.whole = whole])
        BY <3>1 DEF Judge
      <4>2. PICK changed : changed = [job[i] EXCEPT !.pc = "lock", !.whole = whole]
        OBVIOUS
      <4>3. job[i].pc = "judge" /\ changed.fp = job[i].fp
        BY <2>1, <3>1, <4>2 DEF Judge, Jobs
      <4> QED
        BY <4>1, <4>2, <4>3
    <3>2. CASE Claim(i)
      BY <2>1, <3>2 DEF Claim, Jobs
    <3>3. CASE EndStaging(i)
      <4>1. PICK changed : changed = [job[i] EXCEPT !.pc = "later", !.at = 1]
        OBVIOUS
      <4>2. Go(i, changed) /\ changed.pc = "later"
        BY <2>1, <3>3, <4>1 DEF EndStaging, Jobs
      <4> QED
        BY <4>2
    <3>4. CASE RunStage(i)
      <4>1. PICK changed : changed = [job[i] EXCEPT !.at = job[i].at + 1]
        OBVIOUS
      <4>2. Go(i, changed) /\ job[i].pc = "later"
        BY <3>4, <4>1 DEF RunStage
      <4>3. changed.pc = job[i].pc
        BY <2>1, <4>1 DEF Jobs
      <4> QED
        BY <4>2, <4>3
    <3>5. CASE StageFails(i)
      <4>1. PICK changed : changed = [job[i] EXCEPT !.pc = "final", !.ok = FALSE]
        OBVIOUS
      <4>2. Go(i, changed) /\ changed.pc = "final"
        BY <2>1, <3>5, <4>1 DEF StageFails, Jobs
      <4> QED
        BY <4>2
    <3> QED
      BY <1>6, <3>1, <3>2, <3>3, <3>4, <3>5
  <2>3. Waiting(v)' \subseteq Waiting(v)
    BY <2>2, GoWaiting DEF IInv
  <2> QED
    BY <1>0, <2>1, <2>3
<1> QED
  BY <1>1, <1>2, <1>3, <1>4, <1>5, <1>6 DEF Next, Proceed

\* However many instances, kills and failures: the attempts at one version
\* pass the limit at most by the instances that had looked before
\* (pipeline_scheduler._tick_pipeline, attempts_used).
THEOREM AttemptsEndHolds == Spec => []AttemptsEnd
<1> DEFINE Budgets == \A v \in Versions : Budget(v)
<1>1. Init => Budgets
  <2> SUFFICES ASSUME Init, NEW v \in Versions PROVE Budget(v)
    OBVIOUS
  <2>1. Tried(v) = {} /\ Waiting(v) = {}
    BY DEF Init, Tried, Waiting, Idle
  <2>2. Cardinality(Instances) \in Nat /\ Retries \in Nat
    BY InstancesAssumption, PipelineAssumption, FS_CardinalityType
  <2> QED
    BY <2>1, <2>2, FS_EmptySet DEF Budget
<1>2. IInv /\ IInv' /\ Budgets /\ [Next]_vars => Budgets'
  BY BudgetStep
<1>3. IInv /\ Budgets => AttemptsEnd
  <2> SUFFICES ASSUME IInv, Budgets, NEW v \in Versions
               PROVE  Cardinality(Tried(v)) <= Retries + Cardinality(Instances)
    BY DEF AttemptsEnd
  <2>1. Budget(v)
    OBVIOUS
  <2>2. /\ Cardinality(Tried(v)) \in Nat /\ Cardinality(Waiting(v)) \in Nat
        /\ Cardinality(Instances) \in Nat /\ Retries \in Nat
    BY Counts DEF IInv
  <2> QED
    BY <2>1, <2>2 DEF Budget
<1> QED
  BY <1>1, <1>2, <1>3, InvariantHolds, PTL DEF Spec
=============================================================================
