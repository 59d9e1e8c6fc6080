---------------------------- MODULE BackupJobs ----------------------------
(* The backup queue of Postgres (admin_operation_jobs, backup_runs), the     *)
(* workers that poll it (scripts/operations/backup-worker.mjs), the files    *)
(* they leave in the backup directory and the retention that removes old     *)
(* ones.  Workers die, lose calls and outlive their leases.                  *)
EXTENDS RetentionPolicy, Sequences

CONSTANTS Workers,      \* processes that poll the queue
          NJobs,        \* requests, numbered in the order they are made
          Types, Verify,\* what is backed up; the job that checks a backup
          Priority,     \* of each kind of job: the smaller number goes first
          NArtefacts,   \* bound on the artefacts built
          NRuns,        \* bound on the rows of backup_runs
          MaxFaults,    \* bound on crashes, lost calls and failed steps
          LateFailures  \* whether a step after the last rename may fail

Kinds == Types \cup {Verify}

ASSUME JobsAssumption ==
    /\ {NJobs, NArtefacts, NRuns, MaxFaults} \subseteq Nat /\ Verify \notin Types
    /\ Priority \in [Kinds -> Nat]

Jobs == 1..NJobs
Artefacts == 1..NArtefacts
None == 0

VARIABLES jobs,    \* the rows of admin_operation_jobs
          runs,    \* the rows of backup_runs, oldest first
          disk,    \* where the files of each artefact are, oldest first
          worker,  \* what each worker is doing
          doomed,  \* the pairs the retention has still to remove
          faults   \* how many calls and processes have failed

vars == <<jobs, runs, disk, worker, doomed, faults>>

Statuses == {"absent", "queued", "claimed", "running", "succeeded", "failed"}
JobRows == [kind : Kinds, status : Statuses, leased : BOOLEAN, result : 0..NRuns]

\* artefact = None: a verification.  by is job_id.
RunRows == [artefact : 0..NArtefacts, by : Jobs, passed : BOOLEAN]

\* "moved": under its quarantine name or deleted, by the retention.
Places == {"absent", "final", "moved"}
Files == [type : Types, artefact : Places, checksum : Places]

Steps == {"idle", "claiming", "starting", "building", "placing", "finalizing",
          "placed", "clearingChecksum", "clearingArtefact", "recording",
          "choosing", "checking", "condemning", "recordingCheck", "clearing",
          "finishing", "failing"}

\* run: the row the job ends with; source: the row of the backup being checked.
WorkerStates == [at : Steps, job : 0..NJobs, artefact : 0..NArtefacts,
                 run : 0..NRuns, source : 0..NRuns]
Idle == [at |-> "idle", job |-> None, artefact |-> None, run |-> None, source |-> None]

TypeOK ==
    /\ jobs \in [Jobs -> JobRows]
    /\ runs \in Seq(RunRows) /\ Len(runs) <= NRuns
    /\ disk \in Seq(Files) /\ Len(disk) <= NArtefacts
    /\ worker \in [Workers -> WorkerStates]
    /\ doomed \subseteq Artefacts
    /\ faults \in 0..MaxFaults

NoJob == [kind |-> Verify, status |-> "absent", leased |-> FALSE, result |-> None]

Init ==
    /\ jobs = [j \in Jobs |-> NoJob]
    /\ runs = <<>>
    /\ disk = <<>>
    /\ worker = [w \in Workers |-> Idle]
    /\ doomed = {}
    /\ faults = 0

-----------------------------------------------------------------------------
(* The queue. *)

Taken(j) == jobs[j].status \in {"claimed", "running"}
Active(j) == Taken(j) /\ jobs[j].leased
Ended(j) == jobs[j].status \in {"succeeded", "failed"}
\* A mutant never takes a job again.
ClaimableOnce(j) == jobs[j].status = "queued"

Claimable(j) == jobs[j].status = "queued" \/ (Taken(j) /\ ~ jobs[j].leased)

\* priority asc, requested_at asc
Before(i, j) ==
    LET p == Priority[jobs[i].kind]  q == Priority[jobs[j].kind]
    IN p < q \/ (p = q /\ i < j)

SetJob(j, row) == jobs' = [jobs EXCEPT ![j] = row]

\* A systemd timer or an administrator asks for a job.
Enqueue(j, k) ==
    /\ jobs[j].status = "absent" /\ \A i \in 1..(j - 1) : jobs[i].status # "absent"
    /\ SetJob(j, [NoJob EXCEPT !.kind = k, !.status = "queued"])
    /\ UNCHANGED <<runs, disk, worker, doomed, faults>>

\* lease_until passes, whether or not someone is still at work.
LeaseRunsOut(j) ==
    /\ Active(j)
    /\ SetJob(j, [jobs[j] EXCEPT !.leased = FALSE])
    /\ UNCHANGED <<runs, disk, worker, doomed, faults>>

-----------------------------------------------------------------------------
(* A worker. *)

Go(w, at) == worker' = [worker EXCEPT ![w].at = at]
Leave(w) == worker' = [worker EXCEPT ![w] = Idle]
Fault == faults < MaxFaults /\ faults' = faults + 1
Job(w) == jobs[worker[w].job]

\* A call on the database by worker w: it is answered and the worker goes on, or the
\* answer is lost, after the call took effect or before, and the worker takes the
\* error path.
Call(w, table, new, onward, otherwise) ==
    \/ table' = new /\ onward /\ UNCHANGED faults
    \/ table' \in {table, new} /\ Go(w, otherwise) /\ Fault

\* A mutant overlooks jobs that are claimed but not yet running.
FindNoneRunning(w) ==
    /\ worker[w].at = "idle"
    /\ ~ \E j \in Jobs : Active(j) /\ jobs[j].status = "running"
    /\ Go(w, "claiming")
    /\ UNCHANGED <<jobs, runs, disk, doomed, faults>>

\* claim_admin_backup_job, its first statement: is any job active?
FindNoneActive(w) ==
    /\ worker[w].at = "idle"
    /\ ~ \E j \in Jobs : Active(j)
    /\ Go(w, "claiming")
    /\ UNCHANGED <<jobs, runs, disk, doomed, faults>>

\* Its second statement takes the first job that may be taken, if there is one; the
\* worker may not hear of it.
ClaimNext(w) ==
    /\ worker[w].at = "claiming"
    /\ \E j \in Jobs :
        /\ Claimable(j) /\ \A i \in Jobs \ {j} : Claimable(i) => Before(j, i)
        /\ SetJob(j, [jobs[j] EXCEPT !.status = "claimed", !.leased = TRUE])
        /\ \/ worker' = [worker EXCEPT ![w] = [Idle EXCEPT !.at = "starting", !.job = j]]
              /\ UNCHANGED faults
           \/ Leave(w) /\ Fault
    /\ UNCHANGED <<runs, disk, doomed>>

ClaimNothing(w) ==
    /\ worker[w].at = "claiming"
    /\ ~ \E j \in Jobs : Claimable(j)
    /\ Leave(w)
    /\ UNCHANGED <<jobs, runs, disk, doomed, faults>>

\* A mutant writes a status that the table does not know.
StartAsStarted(w) ==
    /\ worker[w].at = "starting"
    /\ Call(w, jobs, [jobs EXCEPT ![worker[w].job].status = "started"],
            Go(w, "building"), "failing")
    /\ UNCHANGED <<runs, disk, doomed>>

\* handle: the job is running, whoever's it is by now.
Start(w) ==
    /\ worker[w].at = "starting"
    /\ Call(w, jobs,
            [jobs EXCEPT ![worker[w].job].status = "running", ![worker[w].job].leased = TRUE],
            Go(w, IF Job(w).kind = Verify THEN "choosing" ELSE "building"), "failing")
    /\ UNCHANGED <<runs, disk, doomed>>

\* The encrypted artefact is made in a private directory, under a name of its own.
Build(w) ==
    /\ worker[w].at = "building"
    /\ Len(disk) < NArtefacts
    /\ disk' = Append(disk, [type |-> Job(w).kind, artefact |-> "absent",
                             checksum |-> "absent"])
    /\ worker' = [worker EXCEPT ![w].at = "placing", ![w].artefact = Len(disk) + 1]
    /\ UNCHANGED <<jobs, runs, doomed, faults>>

\* Nothing is made, and the job fails.
BuildFails(w) ==
    /\ worker[w].at = "building"
    /\ Go(w, "failing")
    /\ Fault
    /\ UNCHANGED <<jobs, runs, disk, doomed>>

Rename(w, file, place) == disk' = [disk EXCEPT ![worker[w].artefact][file] = place]

\* placeBackupPair: the checksum gets its final name ...
PlaceChecksum(w) ==
    /\ worker[w].at = "placing"
    /\ \/ Rename(w, "checksum", "final") /\ Go(w, "finalizing") /\ UNCHANGED faults
       \/ UNCHANGED disk /\ Go(w, "failing") /\ Fault
    /\ UNCHANGED <<jobs, runs, doomed>>

\* ... and then the artefact.
PlaceArtefact(w) ==
    /\ worker[w].at = "finalizing"
    /\ \/ Rename(w, "artefact", "final") /\ Go(w, "placed") /\ UNCHANGED faults
       \/ UNCHANGED disk /\ Go(w, "clearingChecksum") /\ Fault
    /\ UNCHANGED <<jobs, runs, doomed>>

\* The sources are removed and the pair is uploaded, or what was placed goes again.
ReturnPlaced(w) ==
    /\ worker[w].at = "placed"
    /\ \/ Go(w, "recording") /\ UNCHANGED faults
       \/ LateFailures /\ Go(w, "clearingChecksum") /\ Fault
    /\ UNCHANGED <<jobs, runs, disk, doomed>>

\* rm with force: what is not there, or moved away, is no error; a failure is ignored.
Remove(w, file) ==
    \/ /\ disk' = [disk EXCEPT ![worker[w].artefact][file] =
                      IF @ = "final" THEN "absent" ELSE @]
       /\ UNCHANGED faults
    \/ UNCHANGED disk /\ Fault

ClearChecksum(w) ==
    /\ worker[w].at = "clearingChecksum"
    /\ Remove(w, "checksum")
    /\ Go(w, IF disk[worker[w].artefact].artefact = "absent"
             THEN "failing" ELSE "clearingArtefact")
    /\ UNCHANGED <<jobs, runs, doomed>>

ClearArtefact(w) ==
    /\ worker[w].at = "clearingArtefact"
    /\ Remove(w, "artefact")
    /\ Go(w, "failing")
    /\ UNCHANGED <<jobs, runs, doomed>>

\* A row of backup_runs is inserted and the worker remembers its id.
Insert(w, artefact, onward) ==
    /\ Len(runs) < NRuns
    /\ Call(w, runs,
            Append(runs, [artefact |-> artefact, by |-> worker[w].job, passed |-> TRUE]),
            worker' = [worker EXCEPT ![w].at = onward, ![w].run = Len(runs) + 1],
            "failing")

Record(w) ==
    /\ worker[w].at = "recording"
    /\ Insert(w, worker[w].artefact, "finishing")
    /\ UNCHANGED <<jobs, disk, doomed>>

\* A mutant refers to the newest row.
FinishWithNewest(w) ==
    /\ worker[w].at = "finishing"
    /\ Call(w, jobs,
            [jobs EXCEPT ![worker[w].job] = [@ EXCEPT !.status = "succeeded",
                             !.leased = FALSE, !.result = Len(runs)]],
            Leave(w), "failing")
    /\ UNCHANGED <<runs, disk, doomed>>

Finish(w) ==
    /\ worker[w].at = "finishing"
    /\ Call(w, jobs,
            [jobs EXCEPT ![worker[w].job] = [@ EXCEPT !.status = "succeeded",
                             !.leased = FALSE, !.result = worker[w].run]],
            Leave(w), "failing")
    /\ UNCHANGED <<runs, disk, doomed>>

\* The error path of loop: the job has failed, whatever its row says; a lost call is
\* ignored.
Fail(w) ==
    /\ worker[w].at = "failing"
    /\ \/ /\ SetJob(worker[w].job, [Job(w) EXCEPT !.status = "failed", !.leased = FALSE])
          /\ UNCHANGED faults
       \/ UNCHANGED jobs /\ Fault
    /\ Leave(w)
    /\ UNCHANGED <<runs, disk, doomed>>

\* verifyLatestBackup: the newest row that names an artefact.
Backups == {i \in DOMAIN runs : runs[i].artefact # None}

ChooseRun(w) ==
    /\ worker[w].at = "choosing"
    /\ \/ /\ Backups # {}
          /\ worker' = [worker EXCEPT ![w].at = "checking", ![w].source = Newest(Backups)]
          /\ UNCHANGED faults
       \/ Backups = {} /\ Go(w, "failing") /\ UNCHANGED faults
       \/ Go(w, "failing") /\ Fault
    /\ UNCHANGED <<jobs, runs, disk, doomed>>

Whole(n) == disk[n].artefact = "final" /\ disk[n].checksum = "final"

Check(w) ==
    /\ worker[w].at = "checking"
    /\ Go(w, IF Whole(runs[worker[w].source].artefact)
             THEN "recordingCheck" ELSE "condemning")
    /\ UNCHANGED <<jobs, runs, disk, doomed, faults>>

Condemn(w) ==
    /\ worker[w].at = "condemning"
    /\ \/ runs' = [runs EXCEPT ![worker[w].source].passed = FALSE] /\ UNCHANGED faults
       \/ UNCHANGED runs /\ Fault
    /\ Go(w, "failing")
    /\ UNCHANGED <<jobs, disk, doomed>>

RecordCheck(w) ==
    /\ worker[w].at = "recordingCheck"
    /\ Insert(w, None, "clearing")
    /\ UNCHANGED <<jobs, disk, doomed>>

Clear(w) ==
    /\ worker[w].at = "clearing"
    /\ Call(w, runs, [runs EXCEPT ![worker[w].source].passed = TRUE],
            Go(w, "finishing"), "failing")
    /\ UNCHANGED <<jobs, disk, doomed>>

\* The process dies; systemd starts another.
Crash(w) ==
    /\ worker[w] # Idle
    /\ Leave(w)
    /\ Fault
    /\ UNCHANGED <<jobs, runs, disk, doomed>>

-----------------------------------------------------------------------------
(* The retention.  It keeps the newest pair of each type and, here, what    *)
(* the days, weeks and months of RetentionPolicy add.                        *)

PairsOf(t) == {n \in DOMAIN disk : Whole(n) /\ disk[n].type = t}

\* A mutant counts a checksum as a pair.
ToRemoveByChecksum ==
    LET named(t) == {n \in DOMAIN disk : disk[n].checksum = "final" /\ disk[n].type = t}
    IN UNION {named(t) \ Select(named(t)) : t \in Types}

ToRemove == UNION {PairsOf(t) \ Select(PairsOf(t)) : t \in Types}

Move(n, file, place) == disk' = [disk EXCEPT ![n][file] = place]
Oldest(n) == n \in doomed /\ \A m \in doomed : n <= m

Discover ==
    /\ doomed = {}
    /\ doomed' = ToRemove
    /\ UNCHANGED <<jobs, runs, disk, worker, faults>>

MoveArtefact(n) ==
    /\ Oldest(n) /\ disk[n].artefact = "final"
    /\ Move(n, "artefact", "moved")
    /\ UNCHANGED <<jobs, runs, worker, doomed, faults>>

MoveChecksum(n) ==
    /\ Oldest(n) /\ disk[n].artefact = "moved" /\ disk[n].checksum = "final"
    /\ Move(n, "checksum", "moved")
    /\ doomed' = doomed \ {n}
    /\ UNCHANGED <<jobs, runs, worker, faults>>

\* The second rename fails: the first is undone and the run ends.
RollBack(n) ==
    /\ Oldest(n) /\ disk[n].artefact = "moved"
    /\ disk[n].checksum = "final" => Fault
    /\ disk[n].checksum # "final" => UNCHANGED faults
    /\ Move(n, "artefact", "final")
    /\ doomed' = {}
    /\ UNCHANGED <<jobs, runs, worker>>

\* The run dies, or its first rename fails.
Interrupt ==
    /\ doomed # {}
    /\ (\E n \in doomed : Oldest(n) /\ disk[n].artefact = "absent" /\ UNCHANGED faults)
       \/ Fault
    /\ doomed' = {}
    /\ UNCHANGED <<jobs, runs, disk, worker>>

-----------------------------------------------------------------------------
WorkerStep(w) ==
    \/ FindNoneActive(w)
    \/ ClaimNext(w)
    \/ ClaimNothing(w)
    \/ Start(w)
    \/ Build(w)
    \/ BuildFails(w)
    \/ PlaceChecksum(w)
    \/ PlaceArtefact(w)
    \/ ReturnPlaced(w)
    \/ ClearChecksum(w)
    \/ ClearArtefact(w)
    \/ Record(w)
    \/ Finish(w)
    \/ Fail(w)
    \/ ChooseRun(w)
    \/ Check(w)
    \/ Condemn(w)
    \/ RecordCheck(w)
    \/ Clear(w)

Next ==
    \/ \E j \in Jobs, k \in Kinds : Enqueue(j, k)
    \/ \E j \in Jobs : LeaseRunsOut(j)
    \/ \E w \in Workers : WorkerStep(w)
    \/ \E w \in Workers : Crash(w)
    \/ Discover
    \/ \E n \in Artefacts : MoveArtefact(n)
    \/ \E n \in Artefacts : MoveChecksum(n)
    \/ \E n \in Artefacts : RollBack(n)
    \/ Interrupt

Spec == Init /\ [][Next]_vars

\* The worker polls and works on; clocks reach every lease.
Fairness ==
    /\ \A w \in Workers : WF_vars(WorkerStep(w))
    /\ \A j \in Jobs : WF_vars(LeaseRunsOut(j))

FairSpec == Spec /\ Fairness

-----------------------------------------------------------------------------
\* A backup that is on record was placed whole, and only the retention has touched it
\* since.
RecordedWasPlaced ==
    \A i \in Backups : LET pair == disk[runs[i].artefact]
                       IN pair.artefact # "absent" /\ pair.checksum # "absent"

\* A job that succeeded points to the row that it wrote itself: of a backup of its type,
\* or of a check.
SucceededIsRecorded ==
    \A j \in Jobs : jobs[j].status = "succeeded" =>
        LET i == jobs[j].result IN
        /\ i \in DOMAIN runs /\ runs[i].by = j
        /\ IF jobs[j].kind = Verify THEN runs[i].artefact = None
           ELSE i \in Backups /\ disk[runs[i].artefact].type = jobs[j].kind

\* Rows and jobs say what happened, also when two workers are at the same job and one of
\* them fails late or loses its lease.
RecordsAreTrue == RecordedWasPlaced /\ SucceededIsRecorded

\* Once a backup of a type is on record there is always a whole pair of that type on
\* the disk, though the retention reads the directory while the worker changes it.
RestorePointSurvives ==
    \A i \in Backups : PairsOf(disk[runs[i].artefact].type) # {}

\* At most one backup job is active.
AtMostOneActive == \A i, j \in Jobs : Active(i) /\ Active(j) => i = j

\* Every job that was asked for succeeds or fails.
JobsEnd == \A j \in Jobs : jobs[j].status # "absent" ~> Ended(j)
=============================================================================
