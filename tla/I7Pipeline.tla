----------------------------- MODULE I7Pipeline -----------------------------
(* The nightly I07 pipeline (app/initiatives/i7: pipeline_scheduler, watch,  *)
(* pipeline, and the run rows of adapters/extract): several instances tick,  *)
(* the run row and the staging run row in the database are all they share,   *)
(* and a process may die at any step.  A version is a state of the raw       *)
(* layer; the source fingerprint names one.                                  *)
EXTENDS Integers, Sequences, FiniteSets

CONSTANTS
    Instances,   \* App Service instances, one timer thread each
    NoOne,       \* nobody holds the pipeline lock
    NumSteps,    \* staging steps (extract._STEPS has five)
    Later,       \* pipeline.STAGES after staging, in order
    Reads,       \* per later stage, the stages whose newest output it reads
    Retries,     \* I7_PIPELINE_RETRIES
    MaxLoads,    \* bound: loads of the raw layer
    Complete,    \* the versions that are a complete snapshot (snapshot.resolve_snapshot)
    MaxKills     \* bound: processes killed

Versions == 0..MaxLoads
Steps == 1..NumSteps
Data == [Steps -> Versions]
Nothing == [s \in Steps |-> 0]

LaterStages == {Later[k] : k \in 1..Len(Later)}
Last == Later[Len(Later)]

ASSUME PipelineAssumption ==
    /\ NoOne \notin Instances
    /\ Later \in Seq(STRING) /\ Later # <<>>
    /\ Reads \in [LaterStages -> SUBSET ({"staging"} \cup LaterStages)]
    /\ \A k \in 1..Len(Later) :
        /\ Reads[Later[k]] # {}
        /\ Reads[Later[k]] \subseteq {"staging"} \cup {Later[j] : j \in 1..(k - 1)}
        /\ "staging" # Later[k] /\ \A j \in 1..(k - 1) : Later[j] # Later[k]
    /\ NumSteps \in Nat \ {0} /\ Retries \in Nat
    /\ MaxLoads \in Nat /\ MaxKills \in Nat /\ Complete \subseteq 1..MaxLoads

\* The attempts are counted against them.
ASSUME InstancesAssumption == IsFiniteSet(Instances)

VARIABLES
    source,      \* version of the raw layer; 0 before the first load
    slotOpen,    \* the clock is inside a nightly slot
    started,     \* a run has started since this slot opened
    runs,        \* i7_pipeline_run, oldest first
    lock,        \* who holds the pipeline lock
    staging,     \* i7_staging_run, the newest row; saved[s] is the version step s read, 0 before it is saved
    stale,       \* an older staging row still says running
    built,       \* version the newest succeeded output of each stage was computed from, per staging step
    job,         \* per instance: where it is and what it read
    kills

vars == <<source, slotOpen, started, runs, lock, staging, stale, built, job, kills>>
database == <<runs, staging, stale, built>>
world == <<source, slotOpen, started>>

Idle == [pc |-> "idle", fp |-> 0, whole |-> FALSE, run |-> 0, at |-> 0, ok |-> TRUE]
NoStaging == [fp |-> 0, whole |-> FALSE, status |-> "none", saved |-> Nothing]
Go(i, changed) == job' = [job EXCEPT ![i] = changed]
Working(i) == job[i].pc \in {"claim", "stage", "later", "final"}

----------------------------------------------------------------------------
Succeeded == {r \in 1..Len(runs) : runs[r].status = "succeeded"}

\* MUTANT of Processed: the newest run counts, whatever became of it.
ProcessedOrTried(v) == runs # <<>> /\ runs[Len(runs)].fp = v

\* last_successful_fingerprint is v.
Processed(v) == \E r \in Succeeded : runs[r].fp = v /\ \A q \in Succeeded : q <= r

\* MUTANT of ShouldRun: no run yet is answered before nothing loaded.
ShouldRunFirst == Succeeded = {} \/ ~Processed(source)

\* should_run: something has loaded, and it is not what the last good run read.
ShouldRun == source # 0 /\ ~Processed(source)

\* MUTANT of Attempts: a killed run does not count.
AttemptsFailed(v) == Cardinality({r \in 1..Len(runs) : runs[r].fp = v /\ runs[r].status = "failed"})

\* attempts_used: runs for this data that did not succeed, whatever their state.
Attempts(v) == Cardinality({r \in 1..Len(runs) : runs[r].fp = v /\ runs[r].status # "succeeded"})

Init ==
    /\ source = 0 /\ slotOpen = FALSE /\ started = FALSE
    /\ runs = <<>> /\ lock = NoOne
    /\ staging = NoStaging /\ stale = FALSE
    /\ built = [k \in LaterStages |-> Nothing]
    /\ job = [i \in Instances |-> Idle] /\ kills = 0

\* A load of an I07 table succeeds: a delta merge, or part or all of a verified
\* full refresh.  Only the last leaves a complete snapshot.
LoadRaw ==
    /\ source < MaxLoads
    /\ source' = source + 1
    /\ UNCHANGED <<slotOpen, started, lock, database, job, kills>>

OpenSlot ==
    /\ ~slotOpen /\ slotOpen' = TRUE /\ started' = FALSE
    /\ UNCHANGED <<source, lock, database, job, kills>>

CloseSlot ==
    /\ slotOpen /\ slotOpen' = FALSE
    /\ UNCHANGED <<source, started, lock, database, job, kills>>

\* _tick_pipeline: no run has started in this slot, the data has changed, and
\* it has attempts left; check_and_run asks for the change again at once, and
\* the fingerprint is read.
Tick(i) ==
    /\ job[i].pc = "idle" /\ slotOpen
    /\ ~started
    /\ ShouldRun /\ Attempts(source) < Retries + 1
    /\ Go(i, [Idle EXCEPT !.pc = "judge", !.fp = source])
    /\ UNCHANGED <<world, lock, database, kills>>

\* resolve_snapshot, read after the fingerprint and before the lock.
Judge(i) ==
    /\ job[i].pc = "judge"
    /\ \E whole \in BOOLEAN :
        /\ whole <=> source \in Complete
        /\ Go(i, [job[i] EXCEPT !.pc = "lock", !.whole = whole])
    /\ UNCHANGED <<world, lock, database, kills>>

Abandoned(run) == IF run.status = "running" THEN [run EXCEPT !.status = "abandoned"] ELSE run

\* MUTANT of Begin: running rows are closed and a row written before the lock
\* is asked for, and the run goes on without it.
BeginUnlocked(i) ==
    /\ job[i].pc = "lock"
    /\ lock' = i /\ started' = TRUE
    /\ runs' = Append([r \in 1..Len(runs) |-> Abandoned(runs[r])], [fp |-> job[i].fp, status |-> "running"])
    /\ Go(i, [job[i] EXCEPT !.pc = "claim", !.run = Len(runs) + 1])
    /\ UNCHANGED <<source, slotOpen, staging, stale, built, kills>>

\* run_pipeline takes the lock, closes rows whose process died, writes its own.
Begin(i) ==
    /\ job[i].pc = "lock" /\ lock = NoOne
    /\ lock' = i /\ started' = TRUE
    /\ runs' = Append([r \in 1..Len(runs) |-> Abandoned(runs[r])], [fp |-> job[i].fp, status |-> "running"])
    /\ Go(i, [job[i] EXCEPT !.pc = "claim", !.run = Len(runs) + 1])
    /\ UNCHANGED <<source, slotOpen, staging, stale, built, kills>>

\* PipelineBusy: another run holds the lock; this tick is skipped.
Busy(i) ==
    /\ job[i].pc = "lock" /\ lock # NoOne
    /\ Go(i, Idle)
    /\ UNCHANGED <<world, lock, database, kills>>

\* MUTANT of Resumable: what the interrupted run read is not compared.
ResumableAnyway(fp, whole) ==
    /\ staging.status \in {"running", "failed"}
    /\ \E s \in Steps : staging.saved[s] # 0

\* The newest staging run may be taken up: it did not succeed, saved a step,
\* and read what this run would.
Resumable(fp, whole) ==
    /\ staging.status \in {"running", "failed"}
    /\ \E s \in Steps : staging.saved[s] # 0
    /\ staging.fp = fp /\ staging.whole = whole

\* MUTANT of Claim: a dead row that says running is left alone.
ClaimOnly(i) ==
    /\ job[i].pc = "claim"
    /\ staging' = IF Resumable(job[i].fp, job[i].whole) THEN [staging EXCEPT !.status = "running"]
                  ELSE [fp |-> job[i].fp, whole |-> job[i].whole, status |-> "running", saved |-> Nothing]
    /\ stale' = (stale \/ (staging.status = "running" /\ ~Resumable(job[i].fp, job[i].whole)))
    /\ Go(i, [job[i] EXCEPT !.pc = "stage"])
    /\ UNCHANGED <<world, lock, runs, built, kills>>

\* extract._claim_run: resume or start a staging run; any other row that says
\* running is dead and marked failed.
Claim(i) ==
    /\ job[i].pc = "claim"
    /\ staging' = IF Resumable(job[i].fp, job[i].whole) THEN [staging EXCEPT !.status = "running"]
                  ELSE [fp |-> job[i].fp, whole |-> job[i].whole, status |-> "running", saved |-> Nothing]
    /\ stale' = FALSE
    /\ Go(i, [job[i] EXCEPT !.pc = "stage"])
    /\ UNCHANGED <<world, lock, runs, built, kills>>

Unsaved == {s \in Steps : staging.saved[s] = 0}

\* The next step not yet saved reads the raw layer as it is now; its rows and
\* its count are one commit.
SaveStep(i) ==
    /\ job[i].pc = "stage"
    /\ \E s \in Unsaved :
        /\ \A q \in Unsaved : s <= q
        /\ staging' = [staging EXCEPT !.saved[s] = source]
    /\ UNCHANGED <<world, lock, runs, stale, built, job, kills>>

\* Every step is saved: the staging run has succeeded.  If the raw layer was
\* judged a complete snapshot, rows this run did not see are deactivated.
EndStaging(i) ==
    /\ job[i].pc = "stage" /\ Unsaved = {}
    /\ staging' = [staging EXCEPT !.status = "succeeded"]
    /\ Go(i, [job[i] EXCEPT !.pc = "later", !.at = 1])
    /\ UNCHANGED <<world, lock, runs, stale, built, kills>>

\* resolve_staging_run: features read the newest succeeded staging run, and no
\* staging run may say running.
StagedData == staging.status = "succeeded" /\ ~stale
Output(k) == IF k = "staging" THEN staging.saved ELSE built[k]

\* What a stage makes of its inputs is as old as the oldest of them.
Computed(stage, data) ==
    \A s \in Steps :
        /\ \A k \in Reads[stage] : data[s] <= Output(k)[s]
        /\ \E k \in Reads[stage] : data[s] = Output(k)[s]

\* A later stage computes from the newest succeeded outputs of what it reads.
RunStage(i) ==
    /\ job[i].pc = "later" /\ job[i].at <= Len(Later)
    /\ LET stage == Later[job[i].at] IN
        /\ "staging" \in Reads[stage] => StagedData
        /\ \E data \in Data : Computed(stage, data) /\ built' = [built EXCEPT ![stage] = data]
    /\ Go(i, [job[i] EXCEPT !.at = @ + 1])
    /\ UNCHANGED <<world, lock, runs, staging, stale, kills>>

\* A stage raises or reports failure: the run stops there.
StageFails(i) ==
    /\ job[i].pc \in {"claim", "stage", "later"}
    /\ job[i].pc = "later" => job[i].at <= Len(Later)
    /\ staging' = IF job[i].pc = "stage" THEN [staging EXCEPT !.status = "failed"] ELSE staging
    /\ Go(i, [job[i] EXCEPT !.pc = "final", !.ok = FALSE])
    /\ UNCHANGED <<world, lock, runs, stale, built, kills>>

Finished(i) == job[i].pc = "final" \/ (job[i].pc = "later" /\ job[i].at = Len(Later) + 1)
Release(i) == lock' = (IF lock = i THEN NoOne ELSE lock) /\ Go(i, Idle)

\* _finalise writes the outcome, and the lock is released.
Finalise(i) ==
    /\ Finished(i)
    /\ runs' = [runs EXCEPT ![job[i].run].status = IF job[i].ok THEN "succeeded" ELSE "failed"]
    /\ Release(i)
    /\ UNCHANGED <<world, staging, stale, built, kills>>

\* The process dies and another starts; the server drops the lock it held.  A
\* run whose outcome _finalise could not write leaves the same rows behind.
Kill(i) ==
    /\ Working(i) /\ kills < MaxKills /\ kills' = kills + 1
    /\ Release(i)
    /\ UNCHANGED <<world, database>>

\* What an instance does when nothing goes wrong.
Proceed(i) ==
    \/ Judge(i) \/ Begin(i) \/ Busy(i)
    \/ Claim(i) \/ SaveStep(i) \/ EndStaging(i) \/ RunStage(i) \/ Finalise(i)

Next ==
    \/ LoadRaw \/ OpenSlot \/ CloseSlot
    \/ \E i \in Instances :
        \/ Tick(i)
        \/ Proceed(i)
        \/ StageFails(i)
        \/ Kill(i)

Spec == Init /\ [][Next]_vars

\* The clock goes on, every slot is longer than the tick interval, and a
\* started job goes on until it ends or is killed.
Fairness ==
    /\ WF_vars(OpenSlot) /\ WF_vars(CloseSlot)
    /\ \A i \in Instances : SF_vars(Tick(i)) /\ WF_vars(Proceed(i))

FairSpec == Spec /\ Fairness

----------------------------------------------------------------------------
Jobs == [pc : {"idle", "judge", "lock", "claim", "stage", "later", "final"},
         fp : Versions, whole : BOOLEAN, run : Nat, at : 0..(Len(Later) + 1), ok : BOOLEAN]

\* Runs, the staging row and the jobs are ones the code can hold; no run row
\* is written for a raw layer that never loaded (watch.should_run).
TypeOK ==
    /\ source \in Versions
    /\ slotOpen \in BOOLEAN /\ started \in BOOLEAN
    /\ runs \in Seq([fp : 1..MaxLoads, status : {"running", "succeeded", "failed", "abandoned"}])
    /\ lock \in Instances \cup {NoOne}
    /\ staging \in [fp : Versions, whole : BOOLEAN, saved : Data,
                    status : {"none", "running", "succeeded", "failed"}]
    /\ stale \in BOOLEAN
    /\ built \in [LaterStages -> Data]
    /\ job \in [Instances -> Jobs] /\ kills \in 0..MaxKills

\* A live run is never written off: whoever is at work holds the lock, and its
\* row still says running (pipeline._abandon_stale: "any other row still
\* claiming to run cannot have a live owner").
Owned ==
    \A i \in Instances : Working(i) =>
        lock = i /\ job[i].run \in 1..Len(runs) /\ runs[job[i].run].status = "running"

\* A fingerprint is recorded as processed only when every recommendation was
\* computed from data at least as new, through every stage, whatever was
\* killed, failed and resumed on the way (watch.should_run stops asking then).
Published == \A v \in Versions : Processed(v) => \A s \in Steps : v <= built[Last][s]

Tried(v) == {r \in 1..Len(runs) : runs[r].fp = v /\ runs[r].status # "succeeded"}

\* A permanent fault does not run all night: the attempts at one version pass
\* the limit at most by the instances that had already looked
\* (pipeline_scheduler._tick_pipeline).
AttemptsEnd == \A v \in Versions : Cardinality(Tried(v)) <= Retries + Cardinality(Instances)

\* Once the loads stop, the data is processed or the attempts at it are used
\* up: no killed run, dead row or lost outcome keeps the pipeline from it.
Settles ==
    <>[](\/ source = 0
         \/ \E r \in Succeeded : runs[r].fp = source
         \/ Cardinality(Tried(source)) > Retries)

\* With no more than Retries runs killed or their outcome lost, and no stage
\* failing for its own reasons, the data is processed.
CarriedOn ==
    [](\A i \in Instances : job[i].ok) => <>[](source = 0 \/ \E r \in Succeeded : runs[r].fp = source)

\* "Only ever called for a run over a complete snapshot" (extract.py:1206): with
\* nothing loaded since the run read its fingerprint, what its deactivation
\* sweep compares with -- steps resumed from killed runs included -- was read
\* from a complete snapshot.  A load after the verdict is swept over all the same.
SweptWhole ==
    [][\A i \in Instances : EndStaging(i) /\ job[i].whole /\ source = job[i].fp =>
        \A s \in Steps : staging.saved[s] \in Complete]_vars
=============================================================================
