-------------------------- MODULE BackupJobsProofs --------------------------
(* What the backup queue promises for any number of workers, jobs, types and *)
(* artefacts: rows tell what happened, a restore point of every type stays on*)
(* the disk as long as no step fails after the last rename, and one worker   *)
(* alone is at one job at a time.                                            *)
EXTENDS BackupJobs, FiniteSetTheorems, SequenceTheorems,
        WellFoundedInduction, TLAPS

-----------------------------------------------------------------------------
(* The inductive invariant. *)

Busy(w) == worker[w].at \notin {"idle", "claiming"}

\* The worker has made an artefact that is on no record yet.
Holding == {"placing", "finalizing", "placed", "clearingChecksum", "clearingArtefact",
            "recording"}

\* The worker has chosen a backup to check.
Examining == {"checking", "condemning", "recordingCheck", "clearing"}

\* Row i of backup_runs is what job j ends with.
Documents(i, j) ==
    /\ i \in DOMAIN runs /\ runs[i].by = j
    /\ IF jobs[j].kind = Verify THEN runs[i].artefact = None
       ELSE i \in Backups /\ disk[runs[i].artefact].type = jobs[j].kind

\* What a worker is doing, beside its job, its artefact and the rows it wrote.
WorkerFits(w) ==
    LET at == worker[w].at
        n  == worker[w].artefact
        j  == worker[w].job IN
    /\ n \in 0..Len(disk)
    /\ Busy(w) => j \in Jobs /\ jobs[j].status # "absent"
    /\ at \in Holding \cup {"building"} => jobs[j].kind \in Types
    /\ at \in Holding =>
         /\ n # None /\ disk[n].type = jobs[j].kind
         /\ \A i \in Backups : runs[i].artefact # n
    /\ at = "placing" => disk[n].artefact = "absent" /\ disk[n].checksum = "absent"
    /\ at = "finalizing" => disk[n].artefact = "absent" /\ disk[n].checksum = "final"
    /\ at \in {"placed", "recording"} =>
         disk[n].artefact # "absent" /\ disk[n].checksum # "absent"
    /\ at \in Examining => worker[w].source \in Backups
    /\ at \in Examining \cup {"choosing"} => jobs[j].kind = Verify
    /\ at \in {"clearing", "finishing"} => Documents(worker[w].run, j)

\* No two workers have made the same artefact.
OwnArtefacts ==
    \A v, w \in Workers :
        worker[v].artefact = worker[w].artefact /\ worker[v].artefact # None => v = w

\* Rows name artefacts that were made.
RunsFit == \A i \in DOMAIN runs : runs[i].artefact \in 0..Len(disk)

\* The retention removes what was made.
DoomedFit == doomed \subseteq DOMAIN disk

IInv ==
    /\ TypeOK
    /\ \A w \in Workers : WorkerFits(w)
    /\ OwnArtefacts /\ RunsFit /\ DoomedFit
    /\ RecordsAreTrue

\* The retention passes by what is not whole, and what a worker has not finished has no
\* artefact; a pair of every type on record, or about to be, is spared.
Spared(t) == \E n \in PairsOf(t) : n \notin doomed

Restores(w) ==
    LET at == worker[w].at
        n  == worker[w].artefact IN
    /\ at = "clearingChecksum" => disk[n].artefact = "absent"
    /\ at # "clearingArtefact"
    /\ at \in {"placed", "recording"} => Spared(disk[n].type)

RestoreFits ==
    /\ \A n \in doomed : disk[n].artefact # "absent"
    /\ \A w \in Workers : Restores(w)
    /\ \A i \in Backups : Spared(disk[runs[i].artefact].type)

SafeUnlessLate == ~ LateFailures => RestoreFits

\* A worker that is alone claims when no job is active, and then no other one is.
OneWorker == \A v, w \in Workers : v = w

QueueFits ==
    /\ AtMostOneActive
    /\ \A w \in Workers :
         /\ worker[w].at = "claiming" => \A j \in Jobs : ~ Active(j)
         /\ Busy(w) => \A j \in Jobs : Active(j) => j = worker[w].job

OneActiveIfAlone == OneWorker => QueueFits

-----------------------------------------------------------------------------
(* Sets and sequences. *)

\* A finite set of numbers has a newest one: of its subsets that reach as far as it does,
\* the smallest holds nothing else.
LEMMA NewestIsOne ==
    ASSUME NEW S \in SUBSET Nat, IsFiniteSet(S), S # {}
    PROVE  Newest(S) \in S
<1> DEFINE Reaching == { T \in SUBSET S : \A x \in S : \E y \in T : x <= y }
           smaller == StrictSubsetOrdering(S)
<1>1. IsWellFoundedOn(smaller, SUBSET S)
  BY FS_StrictSubsetOrderingWellFounded, FS_FiniteSubsetsOfFinite
<1>2. S \in Reaching
  OBVIOUS
<1>3. PICK T \in Reaching : \A U \in Reaching : ~ (<<U, T>> \in smaller)
  <2>1. Reaching \subseteq SUBSET S /\ Reaching # {}
    BY <1>2
  <2> HIDE DEF Reaching, smaller
  <2> QED BY <1>1, <2>1, WFMin
<1>4. PICK n \in T : TRUE
  BY <1>2
<1>5. ASSUME NEW m \in S, ~ (m <= n) PROVE FALSE
  <2> DEFINE U == T \ {n}
  <2>1. PICK k \in T : m <= k
    OBVIOUS
  <2>2. n < k /\ n \in Nat /\ k \in Nat
    BY <1>5, <2>1
  <2>3. ASSUME NEW x \in S PROVE \E y \in U : x <= y
    <3>1. PICK y \in T : x <= y
      OBVIOUS
    <3>2. CASE y # n
      BY <3>1, <3>2
    <3>3. CASE y = n
      BY <2>2, <3>1, <3>3
    <3> QED BY <3>2, <3>3
  <2>4. U \in Reaching
    BY <2>3
  <2>5. <<U, T>> \in smaller
    BY DEF StrictSubsetOrdering
  <2> QED BY <1>3, <2>4, <2>5
<1> QED BY <1>4, <1>5 DEF Newest

\* The policy keeps a pair of those there are, whatever its limits.
LEMMA SelectSome ==
    ASSUME NEW S \in SUBSET Nat, IsFiniteSet(S), S # {}
    PROVE  Select(S) \subseteq S /\ Select(S) # {}
<1>1. ToMonthly(S) \subseteq S
  BY DEF ToMonthly, ToWeekly, Daily, SelectTier
<1> QED BY <1>1, NewestIsOne DEF Select

LEMMA Positions ==
    ASSUME TypeOK
    PROVE  /\ DOMAIN runs = 1..Len(runs) /\ DOMAIN disk = 1..Len(disk)
           /\ Len(runs) \in 0..NRuns /\ Len(disk) \in 0..NArtefacts
           /\ DOMAIN runs \subseteq 1..NRuns /\ DOMAIN disk \subseteq Artefacts
           /\ IsFiniteSet(DOMAIN runs) /\ IsFiniteSet(DOMAIN disk)
           /\ \A i \in DOMAIN runs : runs[i] \in RunRows
           /\ \A n \in DOMAIN disk : disk[n] \in Files
<1>1. /\ Len(runs) \in Nat /\ DOMAIN runs = 1..Len(runs) /\ \A i \in DOMAIN runs : runs[i] \in RunRows
      /\ Len(disk) \in Nat /\ DOMAIN disk = 1..Len(disk) /\ \A i \in DOMAIN disk : disk[i] \in Files
  BY LenProperties, ElementOfSeq DEF TypeOK
<1>2. Len(runs) <= NRuns /\ Len(disk) <= NArtefacts
  BY DEF TypeOK
<1>3. IsFiniteSet(1..Len(runs)) /\ IsFiniteSet(1..Len(disk))
  BY <1>1, FS_Interval
<1> QED BY <1>1, <1>2, <1>3, JobsAssumption DEF Artefacts

\* A file of a pair is renamed: the rest of the disk stays.
LEMMA FilesChange ==
    ASSUME TypeOK, NEW n \in DOMAIN disk, NEW row \in Files, row.type = disk[n].type,
           disk' = [disk EXCEPT ![n] = row]
    PROVE  /\ disk' \in Seq(Files) /\ Len(disk') = Len(disk) /\ DOMAIN disk' = DOMAIN disk
           /\ \A m \in DOMAIN disk : disk'[m] = IF m = n THEN row ELSE disk[m]
BY ExceptSeq, LenProperties DEF TypeOK

LEMMA FileRows ==
    ASSUME NEW row \in Files, NEW place \in Places
    PROVE  /\ [row EXCEPT !["artefact"] = place] = [row EXCEPT !.artefact = place]
           /\ [row EXCEPT !["checksum"] = place] = [row EXCEPT !.checksum = place]
           /\ [row EXCEPT !.artefact = place] \in Files
           /\ [row EXCEPT !.checksum = place] \in Files
           /\ [row EXCEPT !.artefact = place].artefact = place
           /\ [row EXCEPT !.artefact = place].checksum = row.checksum
           /\ [row EXCEPT !.artefact = place].type = row.type
           /\ [row EXCEPT !.checksum = place].artefact = row.artefact
           /\ [row EXCEPT !.checksum = place].checksum = place
           /\ [row EXCEPT !.checksum = place].type = row.type
BY DEF Files

-----------------------------------------------------------------------------
(* Types. *)

LEMMA WorkersAreTyped ==
    ASSUME TypeOK
    PROVE  /\ \A w \in Workers : worker[w] \in WorkerStates
           /\ Idle \in WorkerStates /\ NoJob \in JobRows
           /\ Idle.at = "idle" /\ Idle.artefact = None
           /\ None \notin Jobs /\ None \notin Artefacts
BY JobsAssumption DEF TypeOK, Idle, WorkerStates, Steps, NoJob, JobRows, Kinds, Statuses, Jobs,
                      Artefacts, None

\* A worker that goes on keeps what it has, and the others do not notice.
LEMMA Going ==
    ASSUME TypeOK, NEW w \in Workers, NEW at \in Steps, Go(w, at)
    PROVE  /\ worker' \in [Workers -> WorkerStates]
           /\ \A v \in Workers \ {w} : worker'[v] = worker[v]
           /\ worker'[w].at = at /\ worker'[w].job = worker[w].job
           /\ worker'[w].artefact = worker[w].artefact /\ worker'[w].run = worker[w].run
           /\ worker'[w].source = worker[w].source
<1>1. worker[w] \in WorkerStates
  BY DEF TypeOK
<1>2. /\ [worker[w] EXCEPT !.at = at] \in WorkerStates
      /\ [worker[w] EXCEPT !.at = at].at = at
      /\ [worker[w] EXCEPT !.at = at].job = worker[w].job
      /\ [worker[w] EXCEPT !.at = at].artefact = worker[w].artefact
      /\ [worker[w] EXCEPT !.at = at].run = worker[w].run
      /\ [worker[w] EXCEPT !.at = at].source = worker[w].source
  BY <1>1 DEF WorkerStates
<1>3. worker' = [worker EXCEPT ![w] = [worker[w] EXCEPT !.at = at]]
  BY DEF Go
<1> HIDE DEF Go
<1>4. /\ worker'[w] = [worker[w] EXCEPT !.at = at]
      /\ \A v \in Workers \ {w} : worker'[v] = worker[v]
      /\ worker' \in [Workers -> WorkerStates]
  BY <1>2, <1>3 DEF TypeOK
<1> QED BY <1>2, <1>4

LEMMA Leaving ==
    ASSUME TypeOK, NEW w \in Workers, Leave(w)
    PROVE  /\ worker' \in [Workers -> WorkerStates]
           /\ \A v \in Workers \ {w} : worker'[v] = worker[v]
           /\ worker'[w] = Idle
BY WorkersAreTyped DEF Leave, TypeOK

LEMMA FaultsCounted ==
    ASSUME TypeOK, Fault \/ UNCHANGED faults
    PROVE  faults' \in 0..MaxFaults
BY JobsAssumption DEF Fault, TypeOK

-----------------------------------------------------------------------------
(* What a step may do to what others rely on. *)

\* Jobs keep their kind, rows of backup_runs what they name, artefacts their type.
RecordsGrow ==
    /\ \A j \in Jobs : jobs[j].status # "absent" =>
         jobs'[j].status # "absent" /\ jobs'[j].kind = jobs[j].kind
    /\ DOMAIN runs \subseteq DOMAIN runs'
    /\ \A i \in DOMAIN runs : runs'[i].artefact = runs[i].artefact /\ runs'[i].by = runs[i].by
    /\ DOMAIN disk \subseteq DOMAIN disk'
    /\ \A n \in DOMAIN disk : disk'[n].type = disk[n].type

\* The files of artefact n are as they were, or the retention moved them.
Undisturbed(n) ==
    /\ disk'[n].artefact = "absent" <=> disk[n].artefact = "absent"
    /\ disk'[n].checksum = "absent" <=> disk[n].checksum = "absent"
    /\ disk[n].artefact = "absent" /\ disk[n].checksum = "final" => disk'[n].checksum = "final"

LEMMA DocumentsStay ==
    ASSUME TypeOK, RecordsGrow, RunsFit, NEW i, NEW j \in Jobs, jobs[j].status # "absent",
           Documents(i, j)
    PROVE  Documents(i, j)'
<1>1. i \in DOMAIN runs /\ i \in DOMAIN runs' /\ runs'[i].artefact = runs[i].artefact
      /\ runs'[i].by = runs[i].by /\ jobs'[j].kind = jobs[j].kind
  BY DEF Documents, RecordsGrow
<1>2. CASE jobs[j].kind = Verify
  BY <1>1, <1>2 DEF Documents
<1>3. CASE jobs[j].kind # Verify
  <2>1. i \in Backups /\ runs[i].artefact # None /\ runs[i].artefact \in DOMAIN disk
    BY <1>3, Positions DEF Documents, Backups, RunsFit, None
  <2>2. disk'[runs[i].artefact].type = disk[runs[i].artefact].type
    BY <2>1 DEF RecordsGrow
  <2>3. i \in Backups'
    BY <1>1, <2>1 DEF Backups
  <2> QED BY <1>1, <1>3, <2>2, <2>3 DEF Documents
<1> QED BY <1>2, <1>3

\* A worker that does not step goes on to fit, when nobody touches its artefact.
LEMMA OtherWorkersFit ==
    ASSUME TypeOK, TypeOK', RunsFit, RecordsGrow, NEW v \in Workers, WorkerFits(v),
           worker'[v] = worker[v],
           worker[v].artefact # None => Undisturbed(worker[v].artefact),
           \A i \in DOMAIN runs' \ DOMAIN runs :
               worker[v].artefact # None => runs'[i].artefact # worker[v].artefact
    PROVE  WorkerFits(v)'
<1> DEFINE n == worker[v].artefact
           j == worker[v].job
<1>1. n \in 0..Len(disk) /\ DOMAIN disk = 1..Len(disk) /\ DOMAIN disk' = 1..Len(disk')
      /\ Len(disk) \in Nat /\ Len(disk') \in Nat
  <2>1. n \in 0..Len(disk) /\ DOMAIN disk = 1..Len(disk) /\ Len(disk) \in Nat
    BY Positions DEF WorkerFits
  <2>2. DOMAIN disk' = 1..Len(disk') /\ Len(disk') \in Nat
    BY LenProperties DEF TypeOK
  <2> QED BY <2>1, <2>2
<1>2. n \in 0..Len(disk')
  BY <1>1 DEF RecordsGrow
<1>3. n # None => n \in DOMAIN disk
  BY <1>1 DEF None
<1>4. Busy(v) => j \in Jobs /\ jobs[j].status # "absent"
  BY DEF WorkerFits
<1>5. Busy(v) => jobs'[j].status # "absent" /\ jobs'[j].kind = jobs[j].kind
  BY <1>4 DEF RecordsGrow
<1>6. worker[v].at \in Holding \cup Examining \cup {"building", "choosing", "finishing"} => Busy(v)
  BY DEF Busy, Holding, Examining
<1>7. \A i \in Backups : i \in Backups' /\ i \in DOMAIN runs /\ runs'[i].artefact = runs[i].artefact
  BY DEF Backups, RecordsGrow
<1>8. \A i \in Backups' : n # None /\ runs'[i].artefact = n => i \in Backups
  BY DEF Backups, RecordsGrow
<1>9. worker[v].at \in Holding =>
        /\ n # None /\ disk'[n].type = jobs'[j].kind
        /\ \A i \in Backups' : runs'[i].artefact # n
  <2> SUFFICES ASSUME worker[v].at \in Holding
               PROVE  /\ n # None /\ disk'[n].type = jobs'[j].kind
                      /\ \A i \in Backups' : runs'[i].artefact # n
    OBVIOUS
  <2>1. n # None /\ disk[n].type = jobs[j].kind /\ \A i \in Backups : runs[i].artefact # n
    BY DEF WorkerFits
  <2>2. disk'[n].type = disk[n].type
    BY <1>3, <2>1 DEF RecordsGrow
  <2> QED BY <1>5, <1>6, <1>7, <1>8, <2>1, <2>2
<1>10. worker[v].at \in Holding => Undisturbed(n)
  BY <1>9
<1>11. /\ worker[v].at = "placing" => disk'[n].artefact = "absent" /\ disk'[n].checksum = "absent"
       /\ worker[v].at = "finalizing" => disk'[n].artefact = "absent" /\ disk'[n].checksum = "final"
       /\ worker[v].at \in {"placed", "recording"} =>
            disk'[n].artefact # "absent" /\ disk'[n].checksum # "absent"
  BY <1>10 DEF WorkerFits, Undisturbed, Holding
<1>12. worker[v].at \in {"clearing", "finishing"} => Documents(worker[v].run, j)'
  <2> SUFFICES ASSUME worker[v].at \in {"clearing", "finishing"}
               PROVE  Documents(worker[v].run, j)'
    OBVIOUS
  <2>1. Documents(worker[v].run, j) /\ j \in Jobs /\ jobs[j].status # "absent"
    BY <1>4, <1>6 DEF WorkerFits, Examining
  <2>2. ASSUME NEW i PROVE Documents(i, j) => Documents(i, j)'
    <3>1. \A k \in Jobs : jobs[k].status # "absent" /\ Documents(i, k) => Documents(i, k)'
      BY DocumentsStay
    <3> QED BY <2>1, <3>1
  <2> QED BY <2>1, <2>2
<1>13. /\ worker[v].at \in Examining => worker[v].source \in Backups'
       /\ worker[v].at \in Examining \cup {"choosing"} => jobs'[j].kind = Verify
       /\ worker[v].at \in Holding \cup {"building"} => jobs'[j].kind \in Types
       /\ Busy(v)' => j \in Jobs /\ jobs'[j].status # "absent"
  BY <1>4, <1>5, <1>6, <1>7 DEF WorkerFits, Busy
<1> QED BY <1>2, <1>9, <1>11, <1>12, <1>13 DEF WorkerFits

\* A worker may rename the files of an artefact that is its own and on no record.
MayDisturb(w, n) ==
    n = worker[w].artefact /\ worker[w].at \in Holding \ {"recording"}

\* A step of the workers in A, one at most, or of none: it suffices to look at what they do.
LEMMA StepCloses ==
    ASSUME IInv, TypeOK', RecordsGrow, DoomedFit', NEW A \in SUBSET Workers,
           \A v, w \in A : v = w,
           \A v \in Workers \ A : worker'[v] = worker[v],
           \A w \in A : WorkerFits(w)',
           \A w \in A : worker'[w].artefact = None \/ worker'[w].artefact = worker[w].artefact
                        \/ worker'[w].artefact \notin 0..Len(disk),
           \A n \in DOMAIN disk : Undisturbed(n) \/ \E w \in A : MayDisturb(w, n),
           \A i \in DOMAIN runs' \ DOMAIN runs :
               runs'[i].artefact = None
               \/ \E w \in A : runs'[i].artefact = worker[w].artefact /\ worker[w].at = "recording",
           \A j \in Jobs : jobs'[j].status = "succeeded" =>
               \/ jobs[j].status = "succeeded" /\ jobs'[j].result = jobs[j].result
               \/ Documents(jobs[j].result, j)'
    PROVE  IInv'
<1> USE DEF IInv
<1>1. /\ DOMAIN disk = 1..Len(disk) /\ Len(disk) \in Nat
      /\ DOMAIN disk' = 1..Len(disk') /\ Len(disk') \in Nat /\ Len(disk) <= Len(disk')
  <2>1. DOMAIN disk = 1..Len(disk) /\ Len(disk) \in Nat
    BY Positions
  <2>2. DOMAIN disk' = 1..Len(disk') /\ Len(disk') \in Nat
    BY LenProperties DEF TypeOK
  <2> QED BY <2>1, <2>2 DEF RecordsGrow
<1>2. \A w \in Workers : worker[w].artefact \in 0..Len(disk)
  BY DEF WorkerFits
<1>3. \A w \in Workers : worker[w].artefact # None => worker[w].artefact \in DOMAIN disk
  BY <1>1, <1>2 DEF None
<1>4. ASSUME NEW v \in Workers \ A PROVE WorkerFits(v)'
  <2>1. \A w \in A : worker[v].artefact # None => worker[w].artefact # worker[v].artefact
    BY DEF OwnArtefacts
  <2>2. worker[v].artefact # None => Undisturbed(worker[v].artefact)
    BY <1>3, <2>1 DEF MayDisturb
  <2>3. \A i \in DOMAIN runs' \ DOMAIN runs :
           worker[v].artefact # None => runs'[i].artefact # worker[v].artefact
    BY <2>1
  <2> QED BY <2>2, <2>3, OtherWorkersFit
<1>5. \A w \in Workers : WorkerFits(w)'
  BY <1>4
<1>6. OwnArtefacts'
  <2> SUFFICES ASSUME NEW v \in Workers, NEW w \in Workers,
                      worker'[v].artefact = worker'[w].artefact, worker'[v].artefact # None
               PROVE  v = w
    BY DEF OwnArtefacts
  <2>1. \A u \in Workers : \/ worker'[u].artefact \in {None, worker[u].artefact}
                           \/ u \in A /\ worker'[u].artefact \notin 0..Len(disk)
    OBVIOUS
  <2> QED BY <1>2, <2>1 DEF OwnArtefacts
<1>7. ASSUME NEW i \in DOMAIN runs'
      PROVE  /\ runs'[i].artefact \in 0..Len(disk)
             /\ runs'[i].artefact # None =>
                  /\ disk'[runs'[i].artefact].artefact # "absent"
                  /\ disk'[runs'[i].artefact].checksum # "absent"
  <2>1. CASE i \in DOMAIN runs
    <3> DEFINE n == runs[i].artefact
    <3>1. runs'[i].artefact = n /\ n \in 0..Len(disk)
      BY <2>1 DEF RecordsGrow, RunsFit
    <3>2. ASSUME n # None
          PROVE  disk'[n].artefact # "absent" /\ disk'[n].checksum # "absent"
      <4>1. i \in Backups /\ n \in DOMAIN disk
        BY <1>1, <2>1, <3>1, <3>2 DEF Backups, None
      <4>2. disk[n].artefact # "absent" /\ disk[n].checksum # "absent"
        BY <4>1 DEF RecordsAreTrue, RecordedWasPlaced
      <4>3. \A w \in A : ~ MayDisturb(w, n)
        BY <4>1 DEF MayDisturb, WorkerFits
      <4> QED BY <4>1, <4>2, <4>3 DEF Undisturbed
    <3> QED BY <3>1, <3>2
  <2>2. CASE i \notin DOMAIN runs
    <3>1. CASE runs'[i].artefact = None
      BY <1>1, <3>1 DEF None
    <3>2. CASE runs'[i].artefact # None
      <4>1. PICK w \in A : runs'[i].artefact = worker[w].artefact /\ worker[w].at = "recording"
        BY <2>2, <3>2
      <4> DEFINE n == worker[w].artefact
      <4>2. n \in DOMAIN disk /\ disk[n].artefact # "absent" /\ disk[n].checksum # "absent"
        BY <1>3, <3>2, <4>1 DEF WorkerFits
      <4>3. \A v \in A : ~ MayDisturb(v, n)
        BY <4>1 DEF MayDisturb
      <4>4. disk'[n].artefact # "absent" /\ disk'[n].checksum # "absent"
        BY <4>2, <4>3 DEF Undisturbed
      <4> QED BY <1>2, <4>1, <4>4
    <3> QED BY <3>1, <3>2
  <2> QED BY <2>1, <2>2
<1>8. RunsFit'
  BY <1>1, <1>7 DEF RunsFit
<1>9. RecordedWasPlaced'
  BY <1>7 DEF RecordedWasPlaced, Backups
<1>10. \A j \in Jobs : jobs'[j].status = "succeeded" => Documents(jobs[j].result, j)'
  <2> SUFFICES ASSUME NEW j \in Jobs, jobs[j].status = "succeeded",
                      jobs'[j].result = jobs[j].result
               PROVE  Documents(jobs[j].result, j)'
    OBVIOUS
  <2>1. Documents(jobs[j].result, j)
    BY DEF RecordsAreTrue, SucceededIsRecorded, Documents
  <2>2. \A i : Documents(i, j) => Documents(i, j)'
    BY DocumentsStay
  <2> QED BY <2>1, <2>2
<1>11. SucceededIsRecorded'
  BY <1>10 DEF SucceededIsRecorded, Documents
<1> QED BY <1>5, <1>6, <1>8, <1>9, <1>11 DEF RecordsAreTrue

-----------------------------------------------------------------------------
(* The steps of the queue, and those that move a worker alone. *)

JobsGoOn ==
    /\ jobs' \in [Jobs -> JobRows]
    /\ \A j \in Jobs :
         \/ jobs'[j] = jobs[j]
         \/ /\ jobs'[j].status # "absent" /\ (jobs[j].status # "absent" => jobs'[j].kind = jobs[j].kind)
            /\ jobs'[j].status = "succeeded" =>
                 jobs[j].status # "absent" /\ Documents(jobs'[j].result, j)

WorkersGoOn(A) ==
    /\ worker' \in [Workers -> WorkerStates]
    /\ \A v \in Workers \ A : worker'[v] = worker[v]
    /\ \A w \in A : worker'[w].artefact = None \/ worker'[w].artefact = worker[w].artefact

LEMMA QueueGrows ==
    ASSUME JobsGoOn, UNCHANGED <<runs, disk>>
    PROVE  RecordsGrow
BY DEF JobsGoOn, RecordsGrow

LEMMA QueueStep ==
    ASSUME IInv, NEW A \in SUBSET Workers, \A v, w \in A : v = w,
           JobsGoOn, WorkersGoOn(A), UNCHANGED <<runs, disk, doomed>>,
           Fault \/ UNCHANGED faults, \A w \in A : WorkerFits(w)'
    PROVE  IInv'
<1> USE DEF IInv
<1>1. TypeOK'
  BY FaultsCounted DEF TypeOK, JobsGoOn, WorkersGoOn
<1>2. RecordsGrow
  BY QueueGrows
<1>3. \A n \in DOMAIN disk : Undisturbed(n)
  BY DEF Undisturbed
<1>4. ASSUME NEW j \in Jobs, jobs'[j].status = "succeeded"
      PROVE  \/ jobs[j].status = "succeeded" /\ jobs'[j].result = jobs[j].result
             \/ Documents(jobs[j].result, j)'
  <2>1. CASE jobs'[j] = jobs[j]
    BY <1>4, <2>1
  <2>2. CASE jobs'[j] # jobs[j]
    <3>1. jobs[j].status # "absent" /\ Documents(jobs'[j].result, j)
      BY <1>4, <2>2 DEF JobsGoOn
    <3>2. \A i : Documents(i, j) => Documents(i, j)'
      BY <1>2, <3>1, DocumentsStay
    <3>3. \A i : Documents(i, j)' /\ i = jobs'[j].result => Documents(jobs[j].result, j)'
      BY DEF Documents
    <3> QED BY <3>1, <3>2, <3>3
  <2> QED BY <2>1, <2>2
<1>5. \A w \in A : worker'[w].artefact = None \/ worker'[w].artefact = worker[w].artefact
                   \/ worker'[w].artefact \notin 0..Len(disk)
  BY DEF WorkersGoOn
<1>6. \A v \in Workers \ A : worker'[v] = worker[v]
  BY DEF WorkersGoOn
<1>7. DoomedFit'
  BY DEF DoomedFit
<1> QED BY <1>1, <1>2, <1>3, <1>4, <1>5, <1>6, <1>7, StepCloses

\* A worker on the error path holds nothing that others rely on.
LEMMA FailingFits ==
    ASSUME TypeOK, TypeOK', RecordsGrow, NEW w \in Workers, WorkerFits(w), Busy(w),
           worker'[w].at = "failing", worker'[w].job = worker[w].job,
           worker'[w].artefact = worker[w].artefact
    PROVE  WorkerFits(w)'
<1>1. 0..Len(disk) \subseteq 0..Len(disk')
  <2>1. DOMAIN disk = 1..Len(disk) /\ Len(disk) \in Nat
    BY Positions
  <2>2. DOMAIN disk' = 1..Len(disk') /\ Len(disk') \in Nat
    BY LenProperties DEF TypeOK
  <2> QED BY <2>1, <2>2 DEF RecordsGrow
<1> QED BY <1>1 DEF WorkerFits, RecordsGrow, Holding, Examining

\* Nor does one that polls.
LEMMA PollingFits ==
    ASSUME TypeOK, UNCHANGED disk, NEW w \in Workers, WorkerFits(w),
           worker'[w].at \in {"idle", "claiming"},
           worker'[w].artefact = None \/ worker'[w].artefact = worker[w].artefact
    PROVE  WorkerFits(w)'
<1>1. worker'[w].artefact \in 0..Len(disk')
  BY Positions DEF WorkerFits, None
<1> QED BY <1>1 DEF WorkerFits, Busy, Holding, Examining

LEMMA JobKept ==
    ASSUME TypeOK, UNCHANGED jobs
    PROVE  JobsGoOn
BY DEF JobsGoOn, TypeOK

\* One row of the queue is replaced.
LEMMA JobSet ==
    ASSUME TypeOK, NEW j \in Jobs, NEW row \in JobRows, jobs' = [jobs EXCEPT ![j] = row],
           row.status # "absent", jobs[j].status # "absent" => row.kind = jobs[j].kind,
           row.status = "succeeded" => jobs[j].status # "absent" /\ Documents(row.result, j)
    PROVE  JobsGoOn
<1>1. \A i \in Jobs : jobs'[i] = IF i = j THEN row ELSE jobs[i]
  BY DEF TypeOK
<1> QED BY <1>1 DEF JobsGoOn, TypeOK

LEMMA EnqueueKeeps ==
    ASSUME IInv, NEW j \in Jobs, NEW k \in Kinds, Enqueue(j, k)
    PROVE  IInv'
<1> USE DEF IInv
<1> DEFINE row == [NoJob EXCEPT !.kind = k, !.status = "queued"]
<1>1. row \in JobRows /\ row.status = "queued" /\ row.kind = k
  BY WorkersAreTyped DEF NoJob, JobRows, Statuses
<1>2. jobs' = [jobs EXCEPT ![j] = row] /\ jobs[j].status = "absent"
      /\ UNCHANGED <<runs, disk, worker, doomed, faults>>
  BY DEF Enqueue, SetJob
<1> HIDE DEF row
<1>3. JobsGoOn
  BY <1>1, <1>2, JobSet
<1>4. WorkersGoOn({})
  BY <1>2 DEF WorkersGoOn, TypeOK
<1> QED BY <1>2, <1>3, <1>4, QueueStep

LEMMA LeaseEndKeeps ==
    ASSUME IInv, NEW j \in Jobs, LeaseRunsOut(j)
    PROVE  IInv'
<1> USE DEF IInv
<1> DEFINE row == [jobs[j] EXCEPT !.leased = FALSE]
<1>1. row \in JobRows /\ row.status = jobs[j].status /\ row.kind = jobs[j].kind
      /\ jobs[j].status \in {"claimed", "running"}
  BY DEF TypeOK, JobRows, LeaseRunsOut, Active, Taken
<1>2. jobs' = [jobs EXCEPT ![j] = row] /\ UNCHANGED <<runs, disk, worker, doomed, faults>>
  BY DEF LeaseRunsOut, SetJob
<1> HIDE DEF row
<1>3. JobsGoOn
  BY <1>1, <1>2, JobSet
<1>4. WorkersGoOn({})
  BY <1>2 DEF WorkersGoOn, TypeOK
<1> QED BY <1>2, <1>3, <1>4, QueueStep

LEMMA PollingKeeps ==
    ASSUME IInv, NEW w \in Workers, FindNoneActive(w) \/ ClaimNothing(w) \/ Crash(w)
    PROVE  IInv'
<1> USE DEF IInv
<1>1. UNCHANGED <<jobs, runs, disk, doomed>> /\ (Fault \/ UNCHANGED faults)
  BY DEF FindNoneActive, ClaimNothing, Crash
<1>2. /\ WorkersGoOn({w}) /\ worker'[w].at \in {"idle", "claiming"}
  <2>1. CASE FindNoneActive(w)
    <3>1. Go(w, "claiming") /\ "claiming" \in Steps /\ worker[w].at = "idle"
      BY <2>1 DEF FindNoneActive, Steps
    <3> QED BY <3>1, Going DEF WorkersGoOn
  <2>2. CASE ClaimNothing(w) \/ Crash(w)
    <3>1. Leave(w)
      BY <2>2 DEF ClaimNothing, Crash
    <3> QED BY <3>1, Leaving, WorkersAreTyped DEF WorkersGoOn
  <2> QED BY <2>1, <2>2
<1>3. worker'[w].artefact = None \/ worker'[w].artefact = worker[w].artefact
  BY <1>2 DEF WorkersGoOn
<1>4. WorkerFits(w)'
  BY <1>1, <1>2, <1>3, PollingFits
<1> QED BY <1>1, <1>2, <1>4, JobKept, QueueStep

\* Steps that change a worker's state alone, at work.
LEMMA GoingKeeps ==
    ASSUME IInv, NEW w \in Workers,
           BuildFails(w) \/ ReturnPlaced(w) \/ ChooseRun(w) \/ Check(w)
    PROVE  IInv'
<1> USE DEF IInv
<1>1. UNCHANGED <<jobs, runs, disk, doomed>> /\ (Fault \/ UNCHANGED faults)
      /\ worker[w].at \in {"building", "placed", "choosing", "checking"} /\ WorkerFits(w)
  BY DEF BuildFails, ReturnPlaced, ChooseRun, Check
<1>2. JobsGoOn /\ Busy(w)
  BY <1>1, JobKept DEF Busy
<1>3. ASSUME NEW at \in Steps, Go(w, at), WorkerFits(w)' PROVE IInv'
  <2>1. WorkersGoOn({w})
    BY <1>3, Going DEF WorkersGoOn
  <2> QED BY <1>1, <1>2, <1>3, <2>1, QueueStep
<1>4. RecordsGrow
  BY <1>1, <1>2, QueueGrows
<1>5. ASSUME Go(w, "failing") PROVE IInv'
  <2>1. "failing" \in Steps
    BY DEF Steps
  <2>2. /\ worker' \in [Workers -> WorkerStates] /\ worker'[w].at = "failing"
        /\ worker'[w].job = worker[w].job /\ worker'[w].artefact = worker[w].artefact
    BY <1>5, <2>1, Going
  <2>3. TypeOK'
    BY <1>1, <2>2, FaultsCounted DEF TypeOK
  <2> QED BY <1>1, <1>2, <1>3, <1>4, <1>5, <2>1, <2>2, <2>3, FailingFits
<1>6. ASSUME Go(w, "recording"), worker[w].at = "placed" PROVE IInv'
  <2>1. "recording" \in Steps
    BY DEF Steps
  <2>2. /\ worker'[w].at = "recording" /\ worker'[w].job = worker[w].job
        /\ worker'[w].artefact = worker[w].artefact
    BY <1>6, <2>1, Going
  <2>3. WorkerFits(w)'
    BY <1>1, <1>6, <2>2 DEF WorkerFits, Busy, Holding, Examining, Backups
  <2> QED BY <1>3, <1>6, <2>1, <2>3
<1>7. ASSUME Go(w, "clearingChecksum"), worker[w].at = "placed" PROVE IInv'
  <2>1. "clearingChecksum" \in Steps
    BY DEF Steps
  <2>2. /\ worker'[w].at = "clearingChecksum" /\ worker'[w].job = worker[w].job
        /\ worker'[w].artefact = worker[w].artefact
    BY <1>7, <2>1, Going
  <2>3. WorkerFits(w)'
    BY <1>1, <1>7, <2>2 DEF WorkerFits, Busy, Holding, Examining, Backups
  <2> QED BY <1>3, <1>7, <2>1, <2>3
<1>8. ASSUME NEW at \in {"recordingCheck", "condemning"}, Go(w, at), worker[w].at = "checking"
      PROVE  IInv'
  <2>1. at \in Steps
    BY DEF Steps
  <2>2. /\ worker'[w].at = at /\ worker'[w].job = worker[w].job
        /\ worker'[w].artefact = worker[w].artefact /\ worker'[w].source = worker[w].source
    BY <1>8, <2>1, Going
  <2>3. WorkerFits(w)'
    BY <1>1, <1>8, <2>2 DEF WorkerFits, Busy, Holding, Examining, Backups
  <2> QED BY <1>3, <1>8, <2>1, <2>3
<1>9. ASSUME worker[w].at = "choosing", Backups # {},
             worker' = [worker EXCEPT ![w].at = "checking", ![w].source = Newest(Backups)]
      PROVE  IInv'
  <2>1. Newest(Backups) \in Backups
    <3>1. Backups \in SUBSET Nat /\ IsFiniteSet(Backups)
      <4>1. Backups \subseteq DOMAIN runs
        BY DEF Backups
      <4> QED BY <4>1, Positions, FS_Subset
    <3> QED BY <1>9, <3>1, NewestIsOne
  <2> DEFINE row == [worker[w] EXCEPT !.at = "checking", !.source = Newest(Backups)]
  <2>2. Newest(Backups) \in 0..NRuns
    BY <2>1, Positions, JobsAssumption DEF Backups
  <2>3. /\ row \in WorkerStates /\ row.at = "checking" /\ row.source = Newest(Backups)
        /\ row.job = worker[w].job /\ row.artefact = worker[w].artefact
    BY <2>2, WorkersAreTyped DEF WorkerStates, Steps
  <2>4. worker' = [worker EXCEPT ![w] = row]
    BY <1>9
  <2> HIDE DEF row
  <2>5. WorkersGoOn({w}) /\ worker'[w] = row
    BY <2>3, <2>4 DEF WorkersGoOn, TypeOK
  <2>6. WorkerFits(w)'
    BY <1>1, <1>9, <2>1, <2>3, <2>5 DEF WorkerFits, Busy, Holding, Examining, Backups
  <2> QED BY <1>1, <1>2, <2>5, <2>6, QueueStep
<1>10. CASE BuildFails(w) \/ ReturnPlaced(w)
  BY <1>5, <1>6, <1>7, <1>10 DEF BuildFails, ReturnPlaced
<1>11. CASE ChooseRun(w)
  BY <1>5, <1>9, <1>11 DEF ChooseRun
<1>12. CASE Check(w)
  BY <1>8, <1>12 DEF Check
<1> QED BY <1>10, <1>11, <1>12

LEMMA ClaimKeeps ==
    ASSUME IInv, NEW w \in Workers, ClaimNext(w)
    PROVE  IInv'
<1> USE DEF IInv
<1>1. PICK j \in Jobs :
        /\ Claimable(j) /\ \A i \in Jobs \ {j} : Claimable(i) => Before(j, i)
        /\ SetJob(j, [jobs[j] EXCEPT !.status = "claimed", !.leased = TRUE])
        /\ \/ worker' = [worker EXCEPT ![w] = [Idle EXCEPT !.at = "starting", !.job = j]]
              /\ UNCHANGED faults
           \/ Leave(w) /\ Fault
  BY Zenon DEF ClaimNext
<1>2. UNCHANGED <<runs, disk, doomed>> /\ WorkerFits(w)
  BY DEF ClaimNext
<1> DEFINE row == [jobs[j] EXCEPT !.status = "claimed", !.leased = TRUE]
<1>3. row \in JobRows /\ row.status = "claimed" /\ row.kind = jobs[j].kind
  BY DEF TypeOK, JobRows, Statuses
<1>4. jobs' = [jobs EXCEPT ![j] = row]
  BY <1>1 DEF SetJob
<1> HIDE DEF row
<1>5. JobsGoOn /\ jobs'[j] = row
  BY <1>3, <1>4, JobSet DEF TypeOK
<1>6. CASE worker' = [worker EXCEPT ![w] = [Idle EXCEPT !.at = "starting", !.job = j]]
           /\ UNCHANGED faults
  <2> DEFINE mine == [Idle EXCEPT !.at = "starting", !.job = j]
  <2>1. mine \in WorkerStates /\ mine.at = "starting" /\ mine.job = j /\ mine.artefact = None
    <3>1. j \in 0..NJobs
      BY JobsAssumption DEF Jobs
    <3> QED BY <3>1, WorkersAreTyped DEF WorkerStates, Steps
  <2> HIDE DEF mine
  <2>2. worker' = [worker EXCEPT ![w] = mine]
    BY <1>6 DEF mine
  <2>3. WorkersGoOn({w}) /\ worker'[w] = mine
    BY <2>1, <2>2 DEF WorkersGoOn, TypeOK
  <2>4. None \in 0..Len(disk')
    BY <1>2, Positions DEF None
  <2>5. WorkerFits(w)'
    BY <1>3, <1>5, <2>1, <2>3, <2>4 DEF WorkerFits, Busy, Holding, Examining
  <2> QED BY <1>2, <1>5, <1>6, <2>3, <2>5, QueueStep
<1>7. CASE Leave(w) /\ Fault
  <2>1. WorkersGoOn({w}) /\ worker'[w].at = "idle" /\ worker'[w].artefact = None
    BY <1>7, Leaving, WorkersAreTyped DEF WorkersGoOn
  <2>2. WorkerFits(w)'
    BY <1>2, <2>1, PollingFits
  <2> QED BY <1>2, <1>5, <1>7, <2>1, <2>2, QueueStep
<1> QED BY <1>1, <1>6, <1>7

\* A call on the queue: it is answered, or it may have taken effect and the worker is on
\* the error path.
LEMMA JobCallKeeps ==
    ASSUME IInv, NEW w \in Workers, Busy(w), NEW row \in JobRows, NEW new,
           new = [jobs EXCEPT ![worker[w].job] = row],
           row.status # "absent", row.kind = jobs[worker[w].job].kind,
           row.status = "succeeded" => Documents(row.result, worker[w].job),
           UNCHANGED <<runs, disk, doomed>>,
           \/ jobs' = new /\ WorkersGoOn({w}) /\ WorkerFits(w)' /\ UNCHANGED faults
           \/ jobs' \in {jobs, new} /\ Go(w, "failing") /\ Fault
    PROVE  IInv'
<1> USE DEF IInv
<1>1. worker[w].job \in Jobs /\ jobs[worker[w].job].status # "absent" /\ WorkerFits(w)
  BY DEF WorkerFits
<1>2. JobsGoOn
  BY <1>1, JobSet, JobKept
<1>3. CASE jobs' = new /\ WorkersGoOn({w}) /\ WorkerFits(w)' /\ UNCHANGED faults
  BY <1>2, <1>3, QueueStep
<1>4. CASE jobs' \in {jobs, new} /\ Go(w, "failing") /\ Fault
  <2>1. /\ worker' \in [Workers -> WorkerStates] /\ worker'[w].at = "failing"
        /\ worker'[w].job = worker[w].job /\ worker'[w].artefact = worker[w].artefact
        /\ \A v \in Workers \ {w} : worker'[v] = worker[v]
    BY <1>4, Going DEF Steps
  <2>2. WorkersGoOn({w})
    BY <2>1 DEF WorkersGoOn
  <2>3. TypeOK'
    BY <1>2, <1>4, <2>1, FaultsCounted DEF TypeOK, JobsGoOn
  <2>4. RecordsGrow
    BY <1>2, QueueGrows
  <2>5. WorkerFits(w)'
    BY <1>1, <2>1, <2>3, <2>4, FailingFits
  <2> QED BY <1>2, <1>4, <2>2, <2>5, QueueStep
<1> QED BY <1>3, <1>4

LEMMA StartKeeps ==
    ASSUME IInv, NEW w \in Workers, Start(w)
    PROVE  IInv'
<1> USE DEF IInv
<1> DEFINE j == worker[w].job
           row == [jobs[j] EXCEPT !.status = "running", !.leased = TRUE]
           new == [jobs EXCEPT ![j].status = "running", ![j].leased = TRUE]
           onward == IF jobs[j].kind = Verify THEN "choosing" ELSE "building"
<1>1. worker[w].at = "starting" /\ WorkerFits(w) /\ Busy(w) /\ j \in Jobs
      /\ jobs[j] \in JobRows /\ UNCHANGED <<runs, disk, doomed>>
  BY DEF Start, WorkerFits, Busy, TypeOK
<1>2. row \in JobRows /\ row.status = "running" /\ row.kind = jobs[j].kind
  BY <1>1 DEF JobRows, Statuses
<1>3. new = [jobs EXCEPT ![j] = row]
  BY <1>1 DEF TypeOK
<1>4. \/ jobs' = new /\ Go(w, onward) /\ UNCHANGED faults
      \/ jobs' \in {jobs, new} /\ Go(w, "failing") /\ Fault
  BY DEF Start, Call, Job
<1> HIDE DEF row, new
<1>5. ASSUME jobs' = new, Go(w, onward) PROVE WorkersGoOn({w}) /\ WorkerFits(w)'
  <2>1. /\ WorkersGoOn({w}) /\ worker'[w].at = onward /\ worker'[w].job = j
        /\ worker'[w].artefact = worker[w].artefact
    BY <1>5, Going DEF Steps, WorkersGoOn
  <2>2. jobs'[j].kind = jobs[j].kind /\ jobs'[j].status = "running" /\ jobs[j].kind \in Kinds
    BY <1>1, <1>2, <1>3, <1>5 DEF TypeOK, JobRows
  <2>3. jobs[j].kind = Verify \/ jobs[j].kind \in Types
    BY <2>2 DEF Kinds
  <2>4. /\ worker'[w].at \in {"choosing", "building"}
        /\ worker'[w].at = "choosing" => jobs[j].kind = Verify
        /\ worker'[w].at = "building" => jobs[j].kind \in Types
    BY <2>1, <2>3
  <2> QED BY <1>1, <2>1, <2>2, <2>4 DEF WorkerFits, Busy, Holding, Examining
<1>6. \/ jobs' = new /\ WorkersGoOn({w}) /\ WorkerFits(w)' /\ UNCHANGED faults
      \/ jobs' \in {jobs, new} /\ Go(w, "failing") /\ Fault
  BY <1>4, <1>5
<1> QED BY <1>1, <1>2, <1>3, <1>6, JobCallKeeps

LEMMA FinishKeeps ==
    ASSUME IInv, NEW w \in Workers, Finish(w)
    PROVE  IInv'
<1> USE DEF IInv
<1> DEFINE j == worker[w].job
           row == [jobs[j] EXCEPT !.status = "succeeded", !.leased = FALSE,
                                  !.result = worker[w].run]
           new == [jobs EXCEPT ![j] = [@ EXCEPT !.status = "succeeded", !.leased = FALSE,
                                                !.result = worker[w].run]]
<1>1. /\ worker[w].at = "finishing" /\ WorkerFits(w) /\ Busy(w) /\ j \in Jobs
      /\ jobs[j] \in JobRows /\ UNCHANGED <<runs, disk, doomed>>
      /\ Documents(worker[w].run, j) /\ worker[w].run \in 0..NRuns
  <2>1. worker[w].at = "finishing" /\ WorkerFits(w) /\ worker[w] \in WorkerStates
    BY WorkersAreTyped DEF Finish
  <2> QED BY <2>1 DEF Finish, WorkerFits, Busy, TypeOK, WorkerStates
<1>2. /\ row \in JobRows /\ row.status = "succeeded" /\ row.kind = jobs[j].kind
      /\ row.result = worker[w].run
  BY <1>1 DEF JobRows, Statuses
<1>3. new = [jobs EXCEPT ![j] = row]
  BY <1>1 DEF TypeOK
<1>4. \/ jobs' = new /\ Leave(w) /\ UNCHANGED faults
      \/ jobs' \in {jobs, new} /\ Go(w, "failing") /\ Fault
  BY DEF Finish, Call
<1> HIDE DEF row, new
<1>5. ASSUME Leave(w) PROVE WorkersGoOn({w}) /\ WorkerFits(w)'
  <2>1. WorkersGoOn({w}) /\ worker'[w].at = "idle" /\ worker'[w].artefact = None
    BY <1>5, Leaving, WorkersAreTyped DEF WorkersGoOn
  <2> QED BY <1>1, <2>1, PollingFits
<1>6. \/ jobs' = new /\ WorkersGoOn({w}) /\ WorkerFits(w)' /\ UNCHANGED faults
      \/ jobs' \in {jobs, new} /\ Go(w, "failing") /\ Fault
  BY <1>4, <1>5
<1> QED BY <1>1, <1>2, <1>3, <1>6, JobCallKeeps

LEMMA FailKeeps ==
    ASSUME IInv, NEW w \in Workers, Fail(w)
    PROVE  IInv'
<1> USE DEF IInv
<1> DEFINE j == worker[w].job
           row == [jobs[j] EXCEPT !.status = "failed", !.leased = FALSE]
<1>1. worker[w].at = "failing" /\ WorkerFits(w) /\ j \in Jobs /\ jobs[j] \in JobRows
      /\ UNCHANGED <<runs, disk, doomed>> /\ Leave(w) /\ (Fault \/ UNCHANGED faults)
      /\ (jobs' = [jobs EXCEPT ![j] = row] \/ UNCHANGED jobs)
  BY DEF Fail, WorkerFits, Busy, TypeOK, SetJob, Job
<1>2. row \in JobRows /\ row.status = "failed" /\ row.kind = jobs[j].kind
  BY <1>1 DEF JobRows, Statuses
<1> HIDE DEF row
<1>3. JobsGoOn
  BY <1>1, <1>2, JobSet, JobKept
<1>4. WorkersGoOn({w}) /\ worker'[w].at = "idle" /\ worker'[w].artefact = None
  BY <1>1, Leaving, WorkersAreTyped DEF WorkersGoOn
<1>5. WorkerFits(w)'
  BY <1>1, <1>4, PollingFits
<1> QED BY <1>1, <1>3, <1>4, <1>5, QueueStep

-----------------------------------------------------------------------------
(* The steps on backup_runs. *)

\* Rows are added, of what the worker made or of a check, and judged.
RunsGoOn(w) ==
    /\ runs' \in Seq(RunRows) /\ Len(runs') <= NRuns
    /\ DOMAIN runs \subseteq DOMAIN runs'
    /\ \A i \in DOMAIN runs : runs'[i].artefact = runs[i].artefact /\ runs'[i].by = runs[i].by
    /\ \A i \in DOMAIN runs' \ DOMAIN runs :
         \/ runs'[i].artefact = None
         \/ runs'[i].artefact = worker[w].artefact /\ worker[w].at = "recording"

LEMMA RunsGrow ==
    ASSUME NEW w, RunsGoOn(w), UNCHANGED <<jobs, disk>>
    PROVE  RecordsGrow
BY DEF RunsGoOn, RecordsGrow

LEMMA RunsStep ==
    ASSUME IInv, NEW w \in Workers, RunsGoOn(w), WorkersGoOn({w}),
           UNCHANGED <<jobs, disk, doomed>>, Fault \/ UNCHANGED faults,
           WorkerFits(w)'
    PROVE  IInv'
<1> USE DEF IInv
<1> DEFINE A == {w}
<1>1. TypeOK'
  BY FaultsCounted DEF TypeOK, RunsGoOn, WorkersGoOn
<1>2. RecordsGrow
  BY RunsGrow
<1>3. \A n \in DOMAIN disk : Undisturbed(n)
  BY DEF Undisturbed
<1>4. \A u \in A : worker'[u].artefact = None \/ worker'[u].artefact = worker[u].artefact
                   \/ worker'[u].artefact \notin 0..Len(disk)
  BY DEF WorkersGoOn
<1>5. \A v \in Workers \ A : worker'[v] = worker[v]
  BY DEF WorkersGoOn
<1>6. \A i \in DOMAIN runs' \ DOMAIN runs :
        runs'[i].artefact = None
        \/ \E u \in A : runs'[i].artefact = worker[u].artefact /\ worker[u].at = "recording"
  BY DEF RunsGoOn
<1>7. \A j \in Jobs : jobs'[j].status = "succeeded" =>
        jobs[j].status = "succeeded" /\ jobs'[j].result = jobs[j].result
  OBVIOUS
<1>8. /\ A \in SUBSET Workers /\ \A u, v \in A : u = v
      /\ \A u \in A : WorkerFits(u)'
  OBVIOUS
<1>9. DoomedFit'
  BY DEF DoomedFit
<1> HIDE DEF A
<1> QED BY <1>1, <1>2, <1>3, <1>4, <1>5, <1>6, <1>7, <1>8, <1>9, StepCloses

LEMMA RowsKept ==
    ASSUME TypeOK, NEW w, UNCHANGED runs
    PROVE  RunsGoOn(w)
BY DEF RunsGoOn, TypeOK

LEMMA RowAdded ==
    ASSUME TypeOK, NEW w, NEW a \in 0..NArtefacts, NEW j \in Jobs, Len(runs) < NRuns,
           a = None \/ (a = worker[w].artefact /\ worker[w].at = "recording"),
           runs' = Append(runs, [artefact |-> a, by |-> j, passed |-> TRUE])
    PROVE  /\ RunsGoOn(w)
           /\ Len(runs) + 1 \in 0..NRuns /\ Len(runs) + 1 \in DOMAIN runs'
           /\ runs'[Len(runs) + 1].artefact = a /\ runs'[Len(runs) + 1].by = j
<1> DEFINE row == [artefact |-> a, by |-> j, passed |-> TRUE]
<1>1. row \in RunRows /\ row.artefact = a /\ row.by = j
  BY DEF RunRows
<1>2. runs' = Append(runs, row)
  OBVIOUS
<1> HIDE DEF row
<1>3. runs \in Seq(RunRows) /\ Len(runs) \in Nat /\ DOMAIN runs = 1..Len(runs)
  BY Positions DEF TypeOK
<1>4. /\ runs' \in Seq(RunRows) /\ Len(runs') = Len(runs) + 1
      /\ \A i \in 1..Len(runs) : runs'[i] = runs[i]
      /\ runs'[Len(runs) + 1] = row
  BY <1>1, <1>2, <1>3, AppendProperties
<1>5. DOMAIN runs' = 1..(Len(runs) + 1)
  BY <1>4, LenProperties
<1>6. Len(runs') <= NRuns /\ Len(runs) + 1 \in 0..NRuns
  BY <1>3, <1>4, JobsAssumption
<1>7. \A i \in DOMAIN runs' \ DOMAIN runs : runs'[i] = row
  BY <1>3, <1>4, <1>5
<1> QED BY <1>1, <1>3, <1>4, <1>5, <1>6, <1>7 DEF RunsGoOn

LEMMA RowJudged ==
    ASSUME TypeOK, NEW w, NEW i \in DOMAIN runs, NEW verdict \in BOOLEAN,
           runs' = [runs EXCEPT ![i].passed = verdict]
    PROVE  RunsGoOn(w)
<1> DEFINE row == [runs[i] EXCEPT !.passed = verdict]
<1>1. row \in RunRows /\ row.artefact = runs[i].artefact /\ row.by = runs[i].by
  BY Positions DEF RunRows
<1>2. runs' = [runs EXCEPT ![i] = row]
  OBVIOUS
<1> HIDE DEF row
<1>3. /\ runs' \in Seq(RunRows) /\ Len(runs') = Len(runs) /\ DOMAIN runs' = DOMAIN runs
      /\ \A k \in DOMAIN runs : runs'[k] = IF k = i THEN row ELSE runs[k]
  <2>1. runs \in Seq(RunRows) /\ Len(runs) \in Nat /\ DOMAIN runs = 1..Len(runs)
    BY Positions DEF TypeOK
  <2>2. /\ runs' \in Seq(RunRows) /\ Len(runs') = Len(runs)
        /\ \A k \in 1..Len(runs) : runs'[k] = IF k = i THEN row ELSE runs[k]
    BY <1>1, <1>2, <2>1, ExceptSeq
  <2>3. DOMAIN runs' = 1..Len(runs')
    BY <2>2, LenProperties
  <2> QED BY <2>1, <2>2, <2>3
<1> QED BY <1>1, <1>3 DEF RunsGoOn, TypeOK

\* A call on backup_runs that the worker does not know the answer of.
LEMMA RunsCallFails ==
    ASSUME IInv, NEW w \in Workers, Busy(w), RunsGoOn(w), Go(w, "failing"),
           UNCHANGED <<jobs, disk, doomed>>, Fault \/ UNCHANGED faults
    PROVE  IInv'
<1> USE DEF IInv
<1>1. /\ worker' \in [Workers -> WorkerStates] /\ worker'[w].at = "failing"
      /\ worker'[w].job = worker[w].job /\ worker'[w].artefact = worker[w].artefact
      /\ \A v \in Workers \ {w} : worker'[v] = worker[v]
  BY Going DEF Steps
<1>2. WorkersGoOn({w})
  BY <1>1 DEF WorkersGoOn
<1>3. TypeOK'
  BY <1>1, FaultsCounted DEF TypeOK, RunsGoOn
<1>4. WorkerFits(w)'
  BY <1>1, <1>3, RunsGrow, FailingFits
<1> QED BY <1>2, <1>4, RunsStep

LEMMA InsertCloses ==
    ASSUME IInv, NEW w \in Workers, NEW a, NEW onward, NEW i, NEW j,
           i = Len(runs) + 1, j = worker[w].job, Insert(w, a, onward),
           UNCHANGED <<jobs, disk, doomed>>,
           \/ worker[w].at = "recording" /\ a = worker[w].artefact /\ onward = "finishing"
           \/ worker[w].at = "recordingCheck" /\ a = None /\ onward = "clearing"
    PROVE  IInv'
<1> USE DEF IInv
<1> DEFINE new == Append(runs, [artefact |-> a, by |-> j, passed |-> TRUE])
<1>1. /\ WorkerFits(w) /\ Busy(w) /\ j \in Jobs /\ jobs[j].status # "absent"
      /\ worker[w] \in WorkerStates /\ worker[w].artefact \in 0..Len(disk)
      /\ a \in 0..NArtefacts /\ onward \in Steps /\ Len(runs) < NRuns
  <2>1. WorkerFits(w) /\ Busy(w) /\ worker[w] \in WorkerStates
    BY WorkersAreTyped DEF Busy
  <2>2. a \in 0..NArtefacts
    BY <2>1, JobsAssumption DEF WorkerStates, None
  <2> QED BY <2>1, <2>2 DEF WorkerFits, Steps, Insert
<1>2. \/ /\ runs' = new /\ UNCHANGED faults
         /\ worker' = [worker EXCEPT ![w].at = onward, ![w].run = i]
      \/ runs' \in {runs, new} /\ Go(w, "failing") /\ Fault
  BY DEF Insert, Call
<1>3. ASSUME runs' = new
      PROVE  /\ RunsGoOn(w) /\ i \in 0..NRuns /\ i \in DOMAIN runs'
             /\ runs'[i].artefact = a /\ runs'[i].by = j
  BY <1>1, <1>3, RowAdded
<1> HIDE DEF new
<1>4. CASE runs' \in {runs, new} /\ Go(w, "failing") /\ Fault
  BY <1>1, <1>3, <1>4, RowsKept, RunsCallFails
<1>5. CASE /\ runs' = new /\ UNCHANGED faults
           /\ worker' = [worker EXCEPT ![w].at = onward, ![w].run = i]
  <2>1. /\ RunsGoOn(w) /\ i \in 0..NRuns /\ i \in DOMAIN runs'
        /\ runs'[i].artefact = a /\ runs'[i].by = j
    BY <1>3, <1>5
  <2> DEFINE row == [worker[w] EXCEPT !.at = onward, !.run = i]
  <2>2. /\ row \in WorkerStates /\ row.at = onward /\ row.run = i /\ row.job = j
        /\ row.artefact = worker[w].artefact /\ row.source = worker[w].source
    BY <1>1, <2>1 DEF WorkerStates
  <2>3. worker' = [worker EXCEPT ![w] = row]
    BY <1>5
  <2> HIDE DEF row
  <2>4. /\ WorkersGoOn({w}) /\ worker'[w].at = onward /\ worker'[w].run = i
        /\ worker'[w].job = j /\ worker'[w].artefact = worker[w].artefact
        /\ worker'[w].source = worker[w].source
    BY <2>2, <2>3 DEF WorkersGoOn, TypeOK
  <2>5. CASE worker[w].at = "recording" /\ a = worker[w].artefact /\ onward = "finishing"
    <3>1. a # None /\ jobs[j].kind # Verify /\ disk[a].type = jobs[j].kind
      BY <1>1, <2>5, JobsAssumption DEF WorkerFits, Holding
    <3>2. Documents(i, j)'
      BY <2>1, <3>1 DEF Documents, Backups
    <3>3. WorkerFits(w)'
      BY <1>1, <2>4, <2>5, <3>2 DEF WorkerFits, Busy, Holding, Examining
    <3> QED BY <1>5, <2>1, <2>4, <3>3, RunsStep
  <2>6. CASE worker[w].at = "recordingCheck" /\ a = None /\ onward = "clearing"
    <3>1. jobs[j].kind = Verify /\ worker[w].source \in Backups
      BY <1>1, <2>6 DEF WorkerFits, Examining
    <3>2. Documents(i, j)'
      BY <2>1, <2>6, <3>1 DEF Documents
    <3>3. worker[w].source \in Backups'
      BY <2>1, <3>1 DEF Backups, RunsGoOn
    <3>4. WorkerFits(w)'
      BY <1>1, <2>4, <2>6, <3>1, <3>2, <3>3 DEF WorkerFits, Busy, Holding, Examining
    <3> QED BY <1>5, <2>1, <2>4, <3>4, RunsStep
  <2> QED BY <2>5, <2>6
<1> QED BY <1>2, <1>4, <1>5

LEMMA InsertKeeps ==
    ASSUME IInv, NEW w \in Workers, Record(w) \/ RecordCheck(w)
    PROVE  IInv'
BY InsertCloses DEF Record, RecordCheck

LEMMA JudgeKeeps ==
    ASSUME IInv, NEW w \in Workers, Condemn(w) \/ Clear(w)
    PROVE  IInv'
<1> USE DEF IInv
<1> DEFINE i == worker[w].source
<1>1. /\ worker[w].at \in {"condemning", "clearing"} /\ WorkerFits(w) /\ Busy(w)
      /\ i \in DOMAIN runs /\ UNCHANGED <<jobs, disk, doomed>> /\ (Fault \/ UNCHANGED faults)
  BY DEF Condemn, Clear, Call, WorkerFits, Busy, Examining, Backups
<1>2. \/ UNCHANGED runs \/ runs' = [runs EXCEPT ![i].passed = FALSE]
      \/ runs' = [runs EXCEPT ![i].passed = TRUE]
  BY DEF Condemn, Clear, Call
<1>3. RunsGoOn(w)
  BY <1>1, <1>2, RowJudged, RowsKept
<1>4. CASE Go(w, "failing")
  BY <1>1, <1>3, <1>4, RunsCallFails
<1>5. CASE Go(w, "finishing") /\ worker[w].at = "clearing"
  <2>1. /\ worker'[w].at = "finishing" /\ worker'[w].job = worker[w].job
        /\ worker'[w].artefact = worker[w].artefact /\ worker'[w].run = worker[w].run
        /\ WorkersGoOn({w})
    BY <1>5, Going DEF Steps, WorkersGoOn
  <2>2. /\ worker[w].job \in Jobs /\ jobs[worker[w].job].status # "absent"
        /\ Documents(worker[w].run, worker[w].job)
    BY <1>1, <1>5 DEF WorkerFits
  <2>3. Documents(worker[w].run, worker[w].job)'
    <3>1. RecordsGrow
      BY <1>1, <1>3, RunsGrow
    <3>2. \A k, j \in Jobs : TRUE
      OBVIOUS
    <3>3. \A r : Documents(r, worker[w].job) => \A k \in Jobs : k = worker[w].job => Documents(r, k)'
      BY <2>2, <3>1, DocumentsStay
    <3>4. \A r, k : r = worker[w].run /\ k = worker[w].job /\ Documents(r, k)'
                    => Documents(worker[w].run, worker[w].job)'
      BY <2>1 DEF Documents
    <3> QED BY <2>2, <3>3, <3>4
  <2>4. WorkerFits(w)'
    BY <1>1, <2>1, <2>2, <2>3 DEF WorkerFits, Busy, Holding, Examining
  <2> QED BY <1>1, <1>3, <2>1, <2>4, RunsStep
<1> QED BY <1>4, <1>5 DEF Condemn, Clear, Call

-----------------------------------------------------------------------------
(* The steps on the files, of the workers and of the retention. *)

DiskGoesOn(A) ==
    /\ disk' \in Seq(Files) /\ Len(disk') <= NArtefacts
    /\ DOMAIN disk \subseteq DOMAIN disk'
    /\ \A n \in DOMAIN disk : disk'[n].type = disk[n].type
    /\ \A n \in DOMAIN disk : Undisturbed(n) \/ \E w \in A : MayDisturb(w, n)

LEMMA DiskStep ==
    ASSUME IInv, NEW A \in SUBSET Workers, \A v, w \in A : v = w, DiskGoesOn(A),
           worker' \in [Workers -> WorkerStates],
           \A v \in Workers \ A : worker'[v] = worker[v],
           \A w \in A : worker'[w].artefact = None \/ worker'[w].artefact = worker[w].artefact
                        \/ worker'[w].artefact \notin 0..Len(disk),
           \A w \in A : WorkerFits(w)',
           UNCHANGED <<jobs, runs>>, Fault \/ UNCHANGED faults, doomed' \subseteq DOMAIN disk
    PROVE  IInv'
<1> USE DEF IInv
<1>1. TypeOK'
  <2>1. doomed' \subseteq Artefacts
    BY Positions
  <2> QED BY <2>1, FaultsCounted DEF TypeOK, DiskGoesOn
<1>2. RecordsGrow /\ DoomedFit'
  BY DEF RecordsGrow, DiskGoesOn, DoomedFit
<1>3. \A n \in DOMAIN disk : Undisturbed(n) \/ \E w \in A : MayDisturb(w, n)
  BY DEF DiskGoesOn
<1>4. \A i \in DOMAIN runs' \ DOMAIN runs :
        runs'[i].artefact = None
        \/ \E w \in A : runs'[i].artefact = worker[w].artefact /\ worker[w].at = "recording"
  OBVIOUS
<1>5. \A j \in Jobs : jobs'[j].status = "succeeded" =>
        jobs[j].status = "succeeded" /\ jobs'[j].result = jobs[j].result
  OBVIOUS
<1> QED BY <1>1, <1>2, <1>3, <1>4, <1>5, StepCloses

LEMMA FilesKept ==
    ASSUME TypeOK, NEW A \in SUBSET Workers, UNCHANGED disk
    PROVE  DiskGoesOn(A)
BY DEF DiskGoesOn, TypeOK, Undisturbed

\* A pair's files are changed by the retention, or by the worker that made it.
LEMMA FilesSet ==
    ASSUME TypeOK, NEW A \in SUBSET Workers, NEW n \in DOMAIN disk, NEW row \in Files,
           disk' = [disk EXCEPT ![n] = row], row.type = disk[n].type,
           \/ \E w \in A : MayDisturb(w, n)
           \/ /\ row.artefact = "absent" <=> disk[n].artefact = "absent"
              /\ row.checksum = "absent" <=> disk[n].checksum = "absent"
              /\ disk[n].artefact = "absent" => row.checksum = disk[n].checksum
    PROVE  DiskGoesOn(A) /\ disk'[n] = row /\ Len(disk') = Len(disk)
           /\ DOMAIN disk' = DOMAIN disk
<1>1. /\ disk' \in Seq(Files) /\ Len(disk') = Len(disk) /\ DOMAIN disk' = DOMAIN disk
      /\ \A m \in DOMAIN disk : disk'[m] = IF m = n THEN row ELSE disk[m]
  BY FilesChange
<1>2. Len(disk') <= NArtefacts
  BY <1>1 DEF TypeOK
<1>3. ASSUME NEW m \in DOMAIN disk PROVE Undisturbed(m) \/ \E w \in A : MayDisturb(w, m)
  <2>1. CASE m = n
    BY <1>1, <2>1 DEF Undisturbed
  <2>2. CASE m # n
    BY <1>1, <2>2 DEF Undisturbed
  <2> QED BY <2>1, <2>2
<1> QED BY <1>1, <1>2, <1>3 DEF DiskGoesOn

LEMMA BuildKeeps ==
    ASSUME IInv, NEW w \in Workers, Build(w)
    PROVE  IInv'
<1> USE DEF IInv
<1> DEFINE j == worker[w].job
           A == {w}
           made == [type |-> jobs[j].kind, artefact |-> "absent", checksum |-> "absent"]
<1>1. /\ worker[w].at = "building" /\ WorkerFits(w) /\ worker[w] \in WorkerStates
      /\ j \in Jobs /\ jobs[j].kind \in Types /\ jobs[j].status # "absent"
      /\ Len(disk) < NArtefacts /\ UNCHANGED <<jobs, runs, doomed, faults>>
  BY WorkersAreTyped DEF Build, WorkerFits, Busy
<1>2. made \in Files /\ made.type = jobs[j].kind /\ made.artefact = "absent"
      /\ made.checksum = "absent"
  BY <1>1 DEF Files, Places
<1>3. disk' = Append(disk, made)
  BY DEF Build, Job
<1> HIDE DEF made
<1>4. PICK n : n = Len(disk) + 1
  OBVIOUS
<1>5. /\ disk \in Seq(Files) /\ Len(disk) \in Nat /\ DOMAIN disk = 1..Len(disk)
      /\ n \in 0..NArtefacts /\ n # None /\ n \notin 0..Len(disk) /\ n \in Nat
  BY <1>1, <1>4, Positions, JobsAssumption DEF TypeOK, None
<1>6. /\ disk' \in Seq(Files) /\ Len(disk') = n /\ DOMAIN disk' = 1..n
      /\ \A m \in DOMAIN disk : disk'[m] = disk[m]
      /\ disk'[n] = made
  <2>1. /\ disk' \in Seq(Files) /\ Len(disk') = Len(disk) + 1
        /\ \A m \in 1..Len(disk) : disk'[m] = disk[m]
        /\ disk'[Len(disk) + 1] = made
    BY <1>2, <1>3, <1>5, AppendProperties
  <2> QED BY <1>4, <1>5, <2>1, LenProperties
<1>7. DiskGoesOn(A)
  BY <1>1, <1>4, <1>5, <1>6 DEF DiskGoesOn, Undisturbed
<1> DEFINE row == [worker[w] EXCEPT !.at = "placing", !.artefact = n]
<1>8. row \in WorkerStates /\ row.at = "placing" /\ row.artefact = n /\ row.job = j
  BY <1>1, <1>5 DEF WorkerStates, Steps
<1>9. worker' = [worker EXCEPT ![w] = row]
  BY <1>4 DEF Build
<1> HIDE DEF row
<1>10. /\ worker' \in [Workers -> WorkerStates] /\ worker'[w] = row
       /\ \A v \in Workers \ A : worker'[v] = worker[v]
  BY <1>8, <1>9 DEF TypeOK
<1>11. \A i \in Backups' : runs'[i].artefact # n
  BY <1>1, <1>5 DEF Backups, RunsFit
<1>12. WorkerFits(w)'
  <2>1. n \in 0..Len(disk')
    BY <1>5, <1>6
  <2>2. disk'[n].type = jobs'[j].kind /\ disk'[n].artefact = "absent" /\ disk'[n].checksum = "absent"
    BY <1>1, <1>2, <1>6
  <2> QED BY <1>1, <1>5, <1>8, <1>10, <1>11, <2>1, <2>2 DEF WorkerFits, Busy, Holding, Examining
<1>13. doomed' \subseteq DOMAIN disk /\ A \in SUBSET Workers /\ (\A v, u \in A : v = u)
       /\ (\A v \in A : WorkerFits(v)')
       /\ \A v \in A : worker'[v].artefact = None \/ worker'[v].artefact = worker[v].artefact
                       \/ worker'[v].artefact \notin 0..Len(disk)
  BY <1>1, <1>5, <1>8, <1>10, <1>12 DEF DoomedFit
<1> HIDE DEF A
<1> QED BY <1>1, <1>7, <1>10, <1>13, DiskStep

\* One file of artefact n may have another place than before.
Rewritten(n) ==
    \/ UNCHANGED disk
    \/ \E row \in Files : row.type = disk[n].type /\ disk' = [disk EXCEPT ![n] = row]

\* A worker renames or removes a file of its artefact.
LEMMA WorkerFileStep ==
    ASSUME IInv, NEW w \in Workers, NEW at \in Steps, Go(w, at),
           worker[w].at \in Holding \ {"recording"}, NEW n, n = worker[w].artefact,
           Rewritten(n), UNCHANGED <<jobs, runs, doomed>>, Fault \/ UNCHANGED faults,
           at \in Holding \cup {"failing"},
           at = "finalizing" => disk'[n].artefact = "absent" /\ disk'[n].checksum = "final",
           at = "placed" => disk'[n].artefact # "absent" /\ disk'[n].checksum # "absent",
           at \notin {"placing", "recording"}
    PROVE  IInv'
<1> USE DEF IInv
<1> DEFINE A == {w}
<1>1. /\ WorkerFits(w) /\ n \in DOMAIN disk /\ n # None /\ Busy(w) /\ worker[w].job \in Jobs
      /\ MayDisturb(w, n) /\ jobs[worker[w].job].status # "absent"
      /\ jobs[worker[w].job].kind \in Types /\ disk[n].type = jobs[worker[w].job].kind
      /\ \A i \in Backups : runs[i].artefact # n
  <2>1. WorkerFits(w) /\ Busy(w) /\ worker[w].at \in Holding
    BY DEF Busy, Holding
  <2> QED BY <2>1, Positions DEF WorkerFits, MayDisturb, None
<1>2. /\ worker' \in [Workers -> WorkerStates] /\ worker'[w].at = at
      /\ worker'[w].job = worker[w].job /\ worker'[w].artefact = n
      /\ \A v \in Workers \ A : worker'[v] = worker[v]
  BY Going
<1>3. DiskGoesOn(A) /\ DOMAIN disk' = DOMAIN disk /\ Len(disk') = Len(disk)
      /\ disk'[n].type = disk[n].type
  <2>1. CASE UNCHANGED disk
    BY <2>1, FilesKept
  <2>2. ASSUME NEW row \in Files, row.type = disk[n].type, disk' = [disk EXCEPT ![n] = row]
        PROVE  DiskGoesOn(A) /\ DOMAIN disk' = DOMAIN disk /\ Len(disk') = Len(disk)
               /\ disk'[n].type = disk[n].type
    <3>1. \E v \in A : MayDisturb(v, n)
      BY <1>1
    <3>2. A \in SUBSET Workers
      OBVIOUS
    <3> HIDE DEF A
    <3> QED BY <1>1, <2>2, <3>1, <3>2, FilesSet
  <2> QED BY <2>1, <2>2 DEF Rewritten
<1>4. n \in 0..Len(disk')
  BY <1>1, <1>3, Positions
<1>5. WorkerFits(w)'
  <2>1. \A i \in Backups' : runs'[i].artefact # n
    BY <1>1 DEF Backups
  <2>2. jobs' = jobs /\ disk'[n].type = jobs[worker[w].job].kind
    BY <1>1, <1>3
  <2>3. at \in Holding \ {"placing", "recording"} \/ at = "failing"
    OBVIOUS
  <2>4. worker'[w].at = at /\ worker'[w].job = worker[w].job /\ worker'[w].artefact = n
    BY <1>2
  <2> HIDE DEF A
  <2> QED BY <1>1, <1>4, <2>1, <2>2, <2>3, <2>4 DEF WorkerFits, Busy, Holding, Examining
<1>6. doomed' \subseteq DOMAIN disk /\ A \in SUBSET Workers /\ (\A v, u \in A : v = u)
      /\ (\A v \in A : WorkerFits(v)') /\ \A v \in A : worker'[v].artefact = worker[v].artefact
  BY <1>2, <1>5 DEF DoomedFit
<1> HIDE DEF A
<1> QED BY <1>2, <1>3, <1>6, DiskStep

\* What Rename and Remove make of the files of artefact n.
LEMMA ChecksumRenamed ==
    ASSUME TypeOK, NEW n \in DOMAIN disk, NEW place \in Places,
           Move(n, "checksum", place)
    PROVE  \E row \in Files :
              /\ row.type = disk[n].type /\ disk' = [disk EXCEPT ![n] = row]
              /\ row.checksum = place /\ row.artefact = disk[n].artefact
<1> DEFINE row == [disk[n] EXCEPT !.checksum = place]
<1>1. disk[n] \in Files
  BY Positions
<1>2. row \in Files /\ row.type = disk[n].type /\ row.checksum = place
      /\ row.artefact = disk[n].artefact /\ row = [disk[n] EXCEPT !["checksum"] = place]
  BY <1>1, FileRows
<1>3. disk' = [disk EXCEPT ![n] = [disk[n] EXCEPT !["checksum"] = place]]
  BY DEF Move
<1>4. disk' = [disk EXCEPT ![n] = row]
  BY <1>2, <1>3
<1> HIDE DEF row
<1> QED BY <1>2, <1>4

LEMMA ArtefactRenamed ==
    ASSUME TypeOK, NEW n \in DOMAIN disk, NEW place \in Places,
           Move(n, "artefact", place)
    PROVE  \E row \in Files :
              /\ row.type = disk[n].type /\ disk' = [disk EXCEPT ![n] = row]
              /\ row.artefact = place /\ row.checksum = disk[n].checksum
<1> DEFINE row == [disk[n] EXCEPT !.artefact = place]
<1>1. disk[n] \in Files
  BY Positions
<1>2. row \in Files /\ row.type = disk[n].type /\ row.artefact = place
      /\ row.checksum = disk[n].checksum /\ row = [disk[n] EXCEPT !["artefact"] = place]
  BY <1>1, FileRows
<1>3. disk' = [disk EXCEPT ![n] = [disk[n] EXCEPT !["artefact"] = place]]
  BY DEF Move
<1>4. disk' = [disk EXCEPT ![n] = row]
  BY <1>2, <1>3
<1> HIDE DEF row
<1> QED BY <1>2, <1>4

\* The files of a row that is replaced.
LEMMA RowIs ==
    ASSUME TypeOK, NEW n \in DOMAIN disk, NEW row \in Files, row.type = disk[n].type,
           disk' = [disk EXCEPT ![n] = row]
    PROVE  disk'[n] = row
BY FilesChange

LEMMA PlaceKeeps ==
    ASSUME IInv, NEW w \in Workers, PlaceChecksum(w) \/ PlaceArtefact(w)
    PROVE  IInv'
<1>0. PICK n : n = worker[w].artefact
  OBVIOUS
<1>1. /\ worker[w].at \in {"placing", "finalizing"} /\ WorkerFits(w)
      /\ UNCHANGED <<jobs, runs, doomed>> /\ (Fault \/ UNCHANGED faults)
      /\ worker[w].at \in Holding \ {"recording"} /\ TypeOK
  BY DEF PlaceChecksum, PlaceArtefact, Holding, IInv
<1>2. n \in DOMAIN disk
  BY <1>0, <1>1, Positions DEF WorkerFits, None
<1>3. ASSUME NEW at \in {"failing", "clearingChecksum"}, Go(w, at), UNCHANGED disk PROVE IInv'
  BY <1>0, <1>1, <1>3, WorkerFileStep DEF Steps, Holding, Rewritten
<1>4. ASSUME worker[w].at = "placing", Go(w, "finalizing"),
             Move(n, "checksum", "final")
      PROVE  IInv'
  <2>0. "final" \in Places
    BY DEF Places
  <2>1. PICK row \in Files : /\ row.type = disk[n].type /\ disk' = [disk EXCEPT ![n] = row]
                             /\ row.checksum = "final" /\ row.artefact = disk[n].artefact
    BY <1>1, <1>2, <1>4, <2>0, ChecksumRenamed
  <2>2. disk'[n] = row /\ disk[n].artefact = "absent"
    BY <1>0, <1>1, <1>2, <1>4, <2>1, RowIs DEF WorkerFits
  <2>3. disk'[n].artefact = "absent" /\ disk'[n].checksum = "final"
    BY <2>1, <2>2
  <2>4. Rewritten(n)
    BY <2>1 DEF Rewritten
  <2>5. "finalizing" \in Steps /\ "finalizing" \in Holding \cup {"failing"}
        /\ "finalizing" \notin {"placing", "recording"}
    BY DEF Steps, Holding
  <2> QED BY <1>0, <1>1, <1>4, <2>3, <2>4, <2>5, WorkerFileStep
<1>5. ASSUME worker[w].at = "finalizing", Go(w, "placed"),
             Move(n, "artefact", "final")
      PROVE  IInv'
  <2>0. "final" \in Places
    BY DEF Places
  <2>1. PICK row \in Files : /\ row.type = disk[n].type /\ disk' = [disk EXCEPT ![n] = row]
                             /\ row.artefact = "final" /\ row.checksum = disk[n].checksum
    BY <1>1, <1>2, <1>5, <2>0, ArtefactRenamed
  <2>2. disk'[n] = row /\ disk[n].checksum = "final"
    BY <1>0, <1>1, <1>2, <1>5, <2>1, RowIs DEF WorkerFits
  <2>3. disk'[n].artefact # "absent" /\ disk'[n].checksum # "absent"
    BY <2>1, <2>2
  <2>4. Rewritten(n)
    BY <2>1 DEF Rewritten
  <2>5. "placed" \in Steps /\ "placed" \in Holding \cup {"failing"}
        /\ "placed" \notin {"placing", "recording"}
    BY DEF Steps, Holding
  <2> QED BY <1>0, <1>1, <1>5, <2>3, <2>4, <2>5, WorkerFileStep
<1>6. CASE PlaceChecksum(w)
  BY <1>0, <1>3, <1>4, <1>6 DEF PlaceChecksum, Rename, Move
<1>7. CASE PlaceArtefact(w)
  BY <1>0, <1>3, <1>5, <1>7 DEF PlaceArtefact, Rename, Move
<1> QED BY <1>6, <1>7

\* What Remove does to a file of artefact n.
LEMMA RemovedFiles ==
    ASSUME TypeOK, NEW w \in Workers, NEW n \in DOMAIN disk, n = worker[w].artefact,
           NEW file \in {"checksum", "artefact"}, Remove(w, file)
    PROVE  \/ UNCHANGED disk
           \/ \E row \in Files :
                /\ row.type = disk[n].type /\ disk' = [disk EXCEPT ![n] = row]
                /\ file = "checksum" => row.artefact = disk[n].artefact
<1>0. disk[n] \in Files /\ disk \in [DOMAIN disk -> Files]
  BY Positions, LenProperties DEF TypeOK
<1> DEFINE old == disk[n][file]
           place == IF old = "final" THEN "absent" ELSE old
<1>1. place \in Places
  BY <1>0 DEF Files, Places
<1>2. CASE disk' = [disk EXCEPT ![n][file] = IF @ = "final" THEN "absent" ELSE @]
  <2>1. Move(n, file, place)
    BY <1>2 DEF Move
  <2> HIDE DEF place
  <2>2. ASSUME file = "checksum"
        PROVE  \E row \in Files :
                 /\ row.type = disk[n].type /\ disk' = [disk EXCEPT ![n] = row]
                 /\ row.checksum = place /\ row.artefact = disk[n].artefact
    <3>1. Move(n, "checksum", place)
      BY <2>1, <2>2
    <3> QED BY <1>1, <3>1, ChecksumRenamed
  <2>3. ASSUME file = "artefact"
        PROVE  \E row \in Files :
                 /\ row.type = disk[n].type /\ disk' = [disk EXCEPT ![n] = row]
                 /\ row.artefact = place /\ row.checksum = disk[n].checksum
    <3>1. Move(n, "artefact", place)
      BY <2>1, <2>3
    <3> QED BY <1>1, <3>1, ArtefactRenamed
  <2> QED BY <2>2, <2>3
<1> QED BY <1>2 DEF Remove

LEMMA ClearKeeps ==
    ASSUME IInv, NEW w \in Workers, ClearChecksum(w) \/ ClearArtefact(w)
    PROVE  IInv'
<1>0. PICK n : n = worker[w].artefact
  OBVIOUS
<1>1. /\ worker[w].at \in {"clearingChecksum", "clearingArtefact"} /\ WorkerFits(w)
      /\ UNCHANGED <<jobs, runs, doomed>> /\ (Fault \/ UNCHANGED faults)
      /\ worker[w].at \in Holding \ {"recording"}
      /\ Remove(w, "checksum") \/ Remove(w, "artefact")
      /\ Go(w, "failing") \/ Go(w, "clearingArtefact")
      /\ TypeOK
  BY DEF ClearChecksum, ClearArtefact, Remove, Holding, IInv
<1>2. n \in DOMAIN disk
  BY <1>0, <1>1, Positions DEF WorkerFits, None
<1>3. Rewritten(n)
  BY <1>0, <1>1, <1>2, RemovedFiles DEF Rewritten
<1> QED BY <1>0, <1>1, <1>3, WorkerFileStep DEF Steps, Holding

LEMMA RetentionKeeps ==
    ASSUME IInv, Discover \/ Interrupt
           \/ \E n \in Artefacts : MoveArtefact(n) \/ MoveChecksum(n) \/ RollBack(n)
    PROVE  IInv'
<1> USE DEF IInv
<1>1. UNCHANGED <<jobs, runs, worker>> /\ (Fault \/ UNCHANGED faults)
  BY DEF Discover, Interrupt, MoveArtefact, MoveChecksum, RollBack
<1>2. ASSUME DiskGoesOn({}), doomed' \subseteq DOMAIN disk PROVE IInv'
  <2>1. worker' \in [Workers -> WorkerStates] /\ \A v \in Workers : worker'[v] = worker[v]
    BY <1>1 DEF TypeOK
  <2> QED BY <1>1, <1>2, <2>1, DiskStep
<1>3. CASE Discover
  <2>1. UNCHANGED disk /\ doomed' \subseteq DOMAIN disk
    BY <1>3 DEF Discover, ToRemove, PairsOf
  <2> QED BY <1>2, <2>1, FilesKept
<1>4. CASE Interrupt
  BY <1>2, <1>4, FilesKept DEF Interrupt
<1>5. ASSUME NEW n \in Artefacts, MoveArtefact(n) \/ MoveChecksum(n) \/ RollBack(n) PROVE IInv'
  <2>1. n \in DOMAIN disk /\ doomed' \subseteq DOMAIN disk
    BY <1>5 DEF MoveArtefact, MoveChecksum, RollBack, Oldest, DoomedFit
  <2>2. PICK row \in Files :
            /\ row.type = disk[n].type /\ disk' = [disk EXCEPT ![n] = row]
            /\ row.artefact = "absent" <=> disk[n].artefact = "absent"
            /\ row.checksum = "absent" <=> disk[n].checksum = "absent"
            /\ disk[n].artefact = "absent" => row.checksum = disk[n].checksum
    <3>0. {"moved", "final"} \subseteq Places
      BY DEF Places
    <3>1. CASE MoveArtefact(n)
      <4>1. Move(n, "artefact", "moved") /\ disk[n].artefact = "final"
        BY <3>1 DEF MoveArtefact
      <4> QED BY <2>1, <3>0, <4>1, ArtefactRenamed
    <3>2. CASE MoveChecksum(n)
      <4>1. Move(n, "checksum", "moved") /\ disk[n].artefact = "moved"
            /\ disk[n].checksum = "final"
        BY <3>2 DEF MoveChecksum
      <4> QED BY <2>1, <3>0, <4>1, ChecksumRenamed
    <3>3. CASE RollBack(n)
      <4>1. Move(n, "artefact", "final") /\ disk[n].artefact = "moved"
        BY <3>3 DEF RollBack
      <4> QED BY <2>1, <3>0, <4>1, ArtefactRenamed
    <3> QED BY <1>5, <3>1, <3>2, <3>3
  <2> QED BY <1>2, <2>1, <2>2, FilesSet
<1> QED BY <1>3, <1>4, <1>5

-----------------------------------------------------------------------------
(* The invariant holds, and what it says. *)

LEMMA InitEstablishes ==
    ASSUME Init
    PROVE  IInv
<1>1. TypeOK
  <2>1. runs \in Seq(RunRows) /\ Len(runs) = 0 /\ disk \in Seq(Files) /\ Len(disk) = 0
    BY EmptySeq DEF Init
  <2>2. Idle \in WorkerStates /\ NoJob \in JobRows
    BY JobsAssumption DEF Idle, WorkerStates, Steps, NoJob, JobRows, Kinds, Statuses, None
  <2> QED BY <2>1, <2>2, JobsAssumption DEF Init, TypeOK
<1>2. DOMAIN runs = {} /\ Backups = {}
  BY DEF Init, Backups
<1>3. \A w \in Workers : WorkerFits(w)
  <2>1. \A w \in Workers : worker[w].at = "idle" /\ worker[w].artefact = None
    BY DEF Init, Idle
  <2>2. None \in 0..Len(disk)
    BY <1>1, Positions DEF None
  <2> QED BY <2>1, <2>2 DEF WorkerFits, Busy, Holding, Examining
<1>4. OwnArtefacts /\ RunsFit /\ DoomedFit
  BY <1>2 DEF Init, OwnArtefacts, RunsFit, DoomedFit, Idle
<1>5. \A j \in Jobs : jobs[j].status # "succeeded"
  BY DEF Init, NoJob
<1>6. RecordsAreTrue
  BY <1>2, <1>5 DEF RecordsAreTrue, RecordedWasPlaced, SucceededIsRecorded
<1> QED BY <1>1, <1>3, <1>4, <1>6 DEF IInv

LEMMA StepKeeps ==
    ASSUME IInv, [Next]_vars
    PROVE  IInv'
<1>1. ASSUME NEW w \in Workers, WorkerStep(w) PROVE IInv'
  <2>1. CASE FindNoneActive(w) \/ ClaimNothing(w)
    BY <2>1, PollingKeeps
  <2>2. CASE BuildFails(w) \/ ReturnPlaced(w) \/ ChooseRun(w) \/ Check(w)
    BY <2>2, GoingKeeps
  <2>3. CASE ClaimNext(w) \/ Start(w) \/ Finish(w) \/ Fail(w)
    BY <2>3, ClaimKeeps, StartKeeps, FinishKeeps, FailKeeps
  <2>4. CASE Record(w) \/ RecordCheck(w) \/ Condemn(w) \/ Clear(w)
    BY <2>4, InsertKeeps, JudgeKeeps
  <2>5. CASE Build(w)
    BY <2>5, BuildKeeps
  <2>6. CASE PlaceChecksum(w) \/ PlaceArtefact(w) \/ ClearChecksum(w) \/ ClearArtefact(w)
    BY <2>6, PlaceKeeps, ClearKeeps
  <2> QED BY <1>1, <2>1, <2>2, <2>3, <2>4, <2>5, <2>6 DEF WorkerStep
<1>2. ASSUME NEW w \in Workers, Crash(w) PROVE IInv'
  BY <1>2, PollingKeeps
<1>3. ASSUME NEW j \in Jobs, NEW k \in Kinds, Enqueue(j, k) PROVE IInv'
  BY <1>3, EnqueueKeeps
<1>4. ASSUME NEW j \in Jobs, LeaseRunsOut(j) PROVE IInv'
  BY <1>4, LeaseEndKeeps
<1>5. CASE \/ Discover \/ Interrupt
           \/ \E n \in Artefacts : MoveArtefact(n) \/ MoveChecksum(n) \/ RollBack(n)
  BY <1>5, RetentionKeeps
<1>6. CASE UNCHANGED vars
  <2>1. UNCHANGED <<jobs, runs, disk, worker, doomed, faults>> /\ TypeOK
    BY <1>6 DEF vars, IInv
  <2>2. JobsGoOn /\ WorkersGoOn({})
    BY <2>1 DEF JobsGoOn, WorkersGoOn, TypeOK
  <2> QED BY <2>1, <2>2, QueueStep
<1> QED BY <1>1, <1>2, <1>3, <1>4, <1>5, <1>6 DEF Next

\* The inductive invariant holds in every reachable state.
THEOREM QueueInvariant == Spec => []IInv
<1>1. Init => IInv
  BY InitEstablishes
<1>2. IInv /\ [Next]_vars => IInv'
  BY StepKeeps
<1> QED BY <1>1, <1>2, PTL DEF Spec

\* Jobs, rows, files and workers are of their types.
THEOREM QueueTyped == Spec => []TypeOK
<1>1. IInv => TypeOK
  BY DEF IInv
<1> QED BY <1>1, QueueInvariant, PTL

\* What is on record was placed whole, and a job that succeeded points to the row it wrote
\* itself, whatever number of workers is at the queue, at the same job too, and wherever
\* they fail: a worker works on an artefact of its own, and clears it before it records it.
THEOREM RecordsTellTheTruth == Spec => []RecordsAreTrue
<1>1. IInv => RecordsAreTrue
  BY DEF IInv
<1> QED BY <1>1, QueueInvariant, PTL

-----------------------------------------------------------------------------
(* One worker. *)

\* No job becomes active, and nobody begins to claim or takes another job.
JobsQuiet == \A j \in Jobs : Active(j)' => Active(j)

WorkersQuiet ==
    \A w \in Workers :
        /\ worker'[w].at = "claiming" => worker[w].at = "claiming"
        /\ Busy(w)' => Busy(w) /\ worker'[w].job = worker[w].job

LEMMA QuietStep ==
    ASSUME QueueFits, JobsQuiet, WorkersQuiet
    PROVE  QueueFits'
BY DEF QueueFits, JobsQuiet, WorkersQuiet, AtMostOneActive

LEMMA QueueQuiet ==
    ASSUME UNCHANGED jobs
    PROVE  JobsQuiet
BY DEF JobsQuiet, Active, Taken

LEMMA OthersQuiet ==
    ASSUME TypeOK, UNCHANGED worker
    PROVE  WorkersQuiet
BY DEF WorkersQuiet, Busy

\* A row of the queue is replaced by one that is not active.
LEMMA JobRests ==
    ASSUME TypeOK, NEW j \in Jobs, NEW row, jobs' = [jobs EXCEPT ![j] = row],
           row.status \notin {"claimed", "running"} \/ ~ row.leased
    PROVE  JobsQuiet
<1>1. \A i \in Jobs : jobs'[i] = IF i = j THEN row ELSE jobs[i]
  BY DEF TypeOK
<1> QED BY <1>1 DEF JobsQuiet, Active, Taken

LEMMA WorkerQuiet ==
    ASSUME TypeOK, NEW w \in Workers, Busy(w),
           \/ Leave(w)
           \/ \E at \in Steps \ {"claiming"} : Go(w, at)
           \/ \E row : /\ worker' = [worker EXCEPT ![w] = row]
                       /\ row.at # "claiming" /\ row.job = worker[w].job
    PROVE  WorkersQuiet
<1>1. /\ \A v \in Workers \ {w} : worker'[v] = worker[v]
      /\ worker'[w].at # "claiming"
      /\ worker'[w].at = "idle" \/ worker'[w].job = worker[w].job
  <2>1. CASE Leave(w)
    BY <2>1, Leaving, WorkersAreTyped
  <2>2. ASSUME NEW at \in Steps \ {"claiming"}, Go(w, at)
        PROVE  /\ \A v \in Workers \ {w} : worker'[v] = worker[v]
               /\ worker'[w].at # "claiming" /\ worker'[w].job = worker[w].job
    <3>1. at \in Steps /\ at # "claiming"
      OBVIOUS
    <3> QED BY <2>2, <3>1, Going
  <2>3. ASSUME NEW row, worker' = [worker EXCEPT ![w] = row], row.at # "claiming",
               row.job = worker[w].job
        PROVE  /\ \A v \in Workers \ {w} : worker'[v] = worker[v]
               /\ worker'[w].at # "claiming" /\ worker'[w].job = worker[w].job
    BY <2>3 DEF TypeOK
  <2> QED BY <2>1, <2>2, <2>3
<1> QED BY <1>1 DEF WorkersQuiet, Busy

LEMMA WorkIsQuiet ==
    ASSUME TypeOK, NEW w \in Workers,
           \/ Build(w) \/ BuildFails(w) \/ PlaceChecksum(w) \/ PlaceArtefact(w)
           \/ ReturnPlaced(w) \/ ClearChecksum(w) \/ ClearArtefact(w) \/ Record(w)
           \/ ChooseRun(w) \/ Check(w) \/ Condemn(w) \/ RecordCheck(w) \/ Clear(w)
    PROVE  JobsQuiet /\ WorkersQuiet
<1>1. UNCHANGED jobs /\ Busy(w)
  BY DEF Build, BuildFails, PlaceChecksum, PlaceArtefact, ReturnPlaced, ClearChecksum,
         ClearArtefact, Record, ChooseRun, Check, Condemn, RecordCheck, Clear, Busy
<1>2. JobsQuiet
  BY <1>1, QueueQuiet
<1>3. ASSUME NEW at \in Steps \ {"claiming"}, Go(w, at) PROVE WorkersQuiet
  BY <1>1, <1>3, WorkerQuiet
<1>4. {"failing", "finalizing", "placed", "recording", "clearingChecksum", "clearingArtefact",
       "recordingCheck", "condemning", "finishing"} \subseteq Steps \ {"claiming"}
  BY DEF Steps
<1>5. CASE Build(w)
  <2> DEFINE row == [worker[w] EXCEPT !.at = "placing", !.artefact = Len(disk) + 1]
  <2>1. worker' = [worker EXCEPT ![w] = row]
    BY <1>5 DEF Build
  <2>2. row.at # "claiming" /\ row.job = worker[w].job
    BY WorkersAreTyped DEF WorkerStates
  <2> QED BY <1>1, <1>2, <2>1, <2>2, WorkerQuiet
<1>6. ASSUME NEW a, NEW onward \in {"finishing", "clearing"}, Insert(w, a, onward)
      PROVE  WorkersQuiet
  <2>1. CASE Go(w, "failing")
    BY <1>3, <1>4, <2>1
  <2>2. CASE worker' = [worker EXCEPT ![w].at = onward, ![w].run = Len(runs) + 1]
    <3> DEFINE row == [worker[w] EXCEPT !.at = onward, !.run = Len(runs) + 1]
    <3>1. worker' = [worker EXCEPT ![w] = row]
      BY <2>2
    <3>2. row.at # "claiming" /\ row.job = worker[w].job
      BY WorkersAreTyped DEF WorkerStates
    <3> QED BY <1>1, <3>1, <3>2, WorkerQuiet
  <2> QED BY <1>6, <2>1, <2>2 DEF Insert, Call
<1>7. CASE Record(w) \/ RecordCheck(w)
  BY <1>2, <1>6, <1>7 DEF Record, RecordCheck
<1>8. CASE ChooseRun(w)
  <2>1. CASE Go(w, "failing")
    BY <1>2, <1>3, <1>4, <2>1
  <2>2. CASE worker' = [worker EXCEPT ![w].at = "checking", ![w].source = Newest(Backups)]
    <3> DEFINE row == [worker[w] EXCEPT !.at = "checking", !.source = Newest(Backups)]
    <3>1. worker' = [worker EXCEPT ![w] = row]
      BY <2>2
    <3>2. row.at # "claiming" /\ row.job = worker[w].job
      BY WorkersAreTyped DEF WorkerStates
    <3> QED BY <1>1, <1>2, <3>1, <3>2, WorkerQuiet
  <2> QED BY <1>8, <2>1, <2>2 DEF ChooseRun
<1>9. CASE \/ BuildFails(w) \/ PlaceChecksum(w) \/ PlaceArtefact(w) \/ ReturnPlaced(w)
           \/ ClearChecksum(w) \/ ClearArtefact(w) \/ Check(w) \/ Condemn(w) \/ Clear(w)
  <2>1. \E at \in {"failing", "finalizing", "placed", "recording", "clearingChecksum",
                   "clearingArtefact", "recordingCheck", "condemning", "finishing"} : Go(w, at)
    BY <1>9 DEF BuildFails, PlaceChecksum, PlaceArtefact, ReturnPlaced, ClearChecksum,
                ClearArtefact, Check, Condemn, Clear, Call
  <2> QED BY <1>2, <1>3, <1>4, <2>1
<1> QED BY <1>5, <1>7, <1>8, <1>9

LEMMA QueueIsQuiet ==
    ASSUME IInv
    PROVE  (\/ \E j \in Jobs, k \in Kinds : Enqueue(j, k)
            \/ \E j \in Jobs : LeaseRunsOut(j)
            \/ \E w \in Workers : Finish(w) \/ Fail(w) \/ ClaimNothing(w) \/ Crash(w)
            \/ Discover \/ Interrupt
            \/ \E n \in Artefacts : MoveArtefact(n) \/ MoveChecksum(n) \/ RollBack(n)
            \/ UNCHANGED vars)
           => JobsQuiet /\ WorkersQuiet
<1>0. TypeOK
  BY DEF IInv
<1>1. ASSUME NEW j \in Jobs, NEW k \in Kinds, Enqueue(j, k) PROVE JobsQuiet /\ WorkersQuiet
  <2> DEFINE row == [NoJob EXCEPT !.kind = k, !.status = "queued"]
  <2>1. jobs' = [jobs EXCEPT ![j] = row] /\ UNCHANGED worker
    BY <1>1 DEF Enqueue, SetJob
  <2>2. row.status \notin {"claimed", "running"}
    BY DEF NoJob
  <2> QED BY <1>0, <2>1, <2>2, JobRests, OthersQuiet
<1>2. ASSUME NEW j \in Jobs, LeaseRunsOut(j) PROVE JobsQuiet /\ WorkersQuiet
  <2> DEFINE row == [jobs[j] EXCEPT !.leased = FALSE]
  <2>1. jobs' = [jobs EXCEPT ![j] = row] /\ UNCHANGED worker
    BY <1>2 DEF LeaseRunsOut, SetJob
  <2>2. ~ row.leased
    BY <1>0 DEF TypeOK, JobRows
  <2> QED BY <1>0, <2>1, <2>2, JobRests, OthersQuiet
<1>3. ASSUME NEW w \in Workers, Finish(w) PROVE JobsQuiet /\ WorkersQuiet
  <2> DEFINE j == worker[w].job
             row == [jobs[j] EXCEPT !.status = "succeeded", !.leased = FALSE,
                                    !.result = worker[w].run]
  <2>1. Busy(w) /\ j \in Jobs /\ "failing" \in Steps \ {"claiming"}
    BY <1>3 DEF Finish, Busy, IInv, WorkerFits, Steps
  <2>2. row.status \notin {"claimed", "running"}
    BY <1>0, <2>1 DEF TypeOK, JobRows
  <2>3. UNCHANGED jobs \/ jobs' = [jobs EXCEPT ![j] = row]
    BY <1>3 DEF Finish, Call
  <2>4. Leave(w) \/ Go(w, "failing")
    BY <1>3 DEF Finish, Call
  <2> HIDE DEF row
  <2> QED BY <1>0, <2>1, <2>2, <2>3, <2>4, JobRests, QueueQuiet, WorkerQuiet
<1>4. ASSUME NEW w \in Workers, Fail(w) PROVE JobsQuiet /\ WorkersQuiet
  <2> DEFINE j == worker[w].job
             row == [jobs[j] EXCEPT !.status = "failed", !.leased = FALSE]
  <2>1. Busy(w) /\ j \in Jobs /\ Leave(w)
    BY <1>4 DEF Fail, Busy, IInv, WorkerFits
  <2>2. row.status \notin {"claimed", "running"}
    BY <1>0, <2>1 DEF TypeOK, JobRows
  <2>3. UNCHANGED jobs \/ jobs' = [jobs EXCEPT ![j] = row]
    BY <1>4 DEF Fail, SetJob, Job
  <2> HIDE DEF row
  <2> QED BY <1>0, <2>1, <2>2, <2>3, JobRests, QueueQuiet, WorkerQuiet
<1>5. ASSUME NEW w \in Workers, ClaimNothing(w) \/ Crash(w) PROVE JobsQuiet /\ WorkersQuiet
  <2>1. UNCHANGED jobs /\ Leave(w)
    BY <1>5 DEF ClaimNothing, Crash
  <2>2. WorkersQuiet
    BY <1>0, <2>1, Leaving, WorkersAreTyped DEF WorkersQuiet, Busy
  <2> QED BY <2>1, <2>2, QueueQuiet
<1>6. ASSUME UNCHANGED <<jobs, worker>> PROVE JobsQuiet /\ WorkersQuiet
  BY <1>0, <1>6, QueueQuiet, OthersQuiet
<1>7. ASSUME \/ Discover \/ Interrupt
             \/ \E n \in Artefacts : MoveArtefact(n) \/ MoveChecksum(n) \/ RollBack(n)
             \/ UNCHANGED vars
      PROVE  JobsQuiet /\ WorkersQuiet
  BY <1>6, <1>7 DEF Discover, Interrupt, MoveArtefact, MoveChecksum, RollBack, vars
<1> QED BY <1>1, <1>2, <1>3, <1>4, <1>5, <1>7

\* One worker at the queue.
LEMMA AloneClaims ==
    ASSUME IInv, OneWorker, QueueFits, NEW w \in Workers
    PROVE  FindNoneActive(w) \/ ClaimNext(w) \/ Start(w) => QueueFits'
<1>0. TypeOK /\ WorkerFits(w) /\ \A v \in Workers : v = w
  BY DEF IInv, OneWorker
<1>1. ASSUME FindNoneActive(w) PROVE QueueFits'
  <2>1. UNCHANGED jobs /\ Go(w, "claiming") /\ "claiming" \in Steps /\ \A j \in Jobs : ~ Active(j)
    BY <1>1 DEF FindNoneActive, Steps
  <2>2. worker'[w].at = "claiming"
    BY <1>0, <2>1, Going
  <2>3. \A j \in Jobs : ~ Active(j)'
    BY <2>1 DEF Active, Taken
  <2> QED BY <1>0, <2>2, <2>3 DEF QueueFits, AtMostOneActive, Busy
<1>2. ASSUME ClaimNext(w) PROVE QueueFits'
  <2>1. PICK j \in Jobs :
          /\ SetJob(j, [jobs[j] EXCEPT !.status = "claimed", !.leased = TRUE])
          /\ \/ worker' = [worker EXCEPT ![w] = [Idle EXCEPT !.at = "starting", !.job = j]]
             \/ Leave(w)
    BY <1>2, Zenon DEF ClaimNext
  <2>2. \A i \in Jobs : ~ Active(i)
    BY <1>2 DEF ClaimNext, QueueFits
  <2>3. \A i \in Jobs \ {j} : jobs'[i] = jobs[i]
    BY <1>0, <2>1 DEF TypeOK, SetJob
  <2>4. \A i \in Jobs : Active(i)' => i = j
    BY <2>2, <2>3 DEF Active, Taken
  <2>5. worker'[w].at # "claiming" /\ (worker'[w].at = "idle" \/ worker'[w].job = j)
    <3>1. CASE worker' = [worker EXCEPT ![w] = [Idle EXCEPT !.at = "starting", !.job = j]]
      <4>1. worker'[w] = [Idle EXCEPT !.at = "starting", !.job = j]
        BY <1>0, <3>1 DEF TypeOK
      <4> QED BY <4>1 DEF Idle
    <3>2. CASE Leave(w)
      BY <1>0, <3>2, Leaving, WorkersAreTyped
    <3> QED BY <2>1, <3>1, <3>2
  <2> QED BY <1>0, <2>4, <2>5 DEF QueueFits, AtMostOneActive, Busy
<1>3. ASSUME Start(w) PROVE QueueFits'
  <2> DEFINE j == worker[w].job
             new == [jobs EXCEPT ![j].status = "running", ![j].leased = TRUE]
             onward == IF jobs[j].kind = Verify THEN "choosing" ELSE "building"
  <2>1. worker[w].at = "starting" /\ Busy(w) /\ j \in Jobs
    BY <1>0, <1>3 DEF Start, Busy, WorkerFits
  <2>2. jobs' \in {jobs, new} /\ (Go(w, onward) \/ Go(w, "failing"))
    BY <1>3 DEF Start, Call, Job
  <2>3. {onward, "failing"} \subseteq Steps \ {"claiming"}
    BY DEF Steps
  <2>4. worker'[w].at # "claiming" /\ worker'[w].job = j
    <3> HIDE DEF onward
    <3> QED BY <1>0, <2>2, <2>3, Going
  <2>5. \A i \in Jobs \ {j} : jobs'[i] = jobs[i]
    BY <1>0, <2>1, <2>2 DEF TypeOK
  <2>6. \A i \in Jobs : Active(i)' => i = j
    BY <2>1, <2>5 DEF Active, Taken, QueueFits
  <2> QED BY <1>0, <2>4, <2>6 DEF QueueFits, AtMostOneActive, Busy
<1> QED BY <1>1, <1>2, <1>3

LEMMA AloneStep ==
    ASSUME IInv, OneActiveIfAlone, [Next]_vars
    PROVE  OneActiveIfAlone'
<1> SUFFICES ASSUME OneWorker, QueueFits PROVE QueueFits'
  BY DEF OneActiveIfAlone, OneWorker
<1>1. ASSUME NEW w \in Workers, WorkerStep(w) PROVE QueueFits'
  <2>1. CASE FindNoneActive(w) \/ ClaimNext(w) \/ Start(w)
    BY <2>1, AloneClaims
  <2>2. CASE Finish(w) \/ Fail(w) \/ ClaimNothing(w)
    BY <2>2, QueueIsQuiet, QuietStep
  <2>3. CASE \/ Build(w) \/ BuildFails(w) \/ PlaceChecksum(w) \/ PlaceArtefact(w)
             \/ ReturnPlaced(w) \/ ClearChecksum(w) \/ ClearArtefact(w) \/ Record(w)
             \/ ChooseRun(w) \/ Check(w) \/ Condemn(w) \/ RecordCheck(w) \/ Clear(w)
    BY <2>3, WorkIsQuiet, QuietStep DEF IInv
  <2> QED BY <1>1, <2>1, <2>2, <2>3 DEF WorkerStep
<1>2. CASE ~ \E w \in Workers : WorkerStep(w)
  BY <1>2, QueueIsQuiet, QuietStep DEF Next
<1> QED BY <1>1, <1>2

\* With one worker, as the service runs it, at most one backup job is active: the check
\* and the claim are two statements, and between them no job becomes active; that the
\* lease of a job runs out while it is worked on leads to no second one, because the
\* worker is at its own job until it leaves it.
THEOREM OneActiveJob == Spec => [](OneWorker => AtMostOneActive)
<1>1. Init => OneActiveIfAlone
  BY DEF Init, OneActiveIfAlone, QueueFits, AtMostOneActive, Active, Taken, NoJob, Idle, Busy
<1>2. IInv /\ OneActiveIfAlone /\ [Next]_vars => OneActiveIfAlone'
  BY AloneStep
<1>3. OneActiveIfAlone => (OneWorker => AtMostOneActive)
  BY DEF OneActiveIfAlone, QueueFits
<1> QED BY <1>1, <1>2, <1>3, QueueInvariant, PTL DEF Spec

-----------------------------------------------------------------------------
(* The restore points. *)

\* No file that a worker or the retention relies on changes but by its own hand, and what
\* is whole and not doomed stays whole.
DiskSpares(A) ==
    /\ DOMAIN disk \subseteq DOMAIN disk'
    /\ \A n \in DOMAIN disk :
         /\ disk'[n].type = disk[n].type
         /\ disk[n].artefact # "absent" => disk'[n].artefact # "absent"
         /\ disk[n].artefact = "absent" =>
              disk'[n].artefact = "absent" \/ \E w \in A : n = worker[w].artefact
         /\ Whole(n) /\ n \notin doomed => Whole(n)'

LEMMA SparedStays ==
    ASSUME NEW A, DiskSpares(A), doomed' \subseteq doomed, NEW t, Spared(t)
    PROVE  Spared(t)'
<1>1. PICK n \in DOMAIN disk : Whole(n) /\ disk[n].type = t /\ n \notin doomed
  BY DEF Spared, PairsOf
<1>2. n \in DOMAIN disk' /\ Whole(n)' /\ disk'[n].type = t /\ n \notin doomed'
  BY <1>1 DEF DiskSpares
<1> QED BY <1>2 DEF Spared, PairsOf

\* A step of the workers in A, one at most: it suffices to look at what they do.
LEMMA SparesStep ==
    ASSUME IInv, RestoreFits, NEW A \in SUBSET Workers, DiskSpares(A),
           doomed' \subseteq doomed, \A v \in Workers \ A : worker'[v] = worker[v],
           \A w \in A : Restores(w)',
           \A i \in Backups' :
               \/ i \in Backups /\ runs'[i].artefact = runs[i].artefact
               \/ \E w \in A : worker[w].at = "recording"
                               /\ runs'[i].artefact = worker[w].artefact
    PROVE  RestoreFits'
<1>0. TypeOK /\ OwnArtefacts /\ RunsFit /\ DoomedFit /\ \A w \in Workers : WorkerFits(w)
  BY DEF IInv
<1>1. \A n \in doomed' : disk'[n].artefact # "absent"
  BY <1>0 DEF RestoreFits, DiskSpares, DoomedFit
<1>2. \A w \in Workers : worker[w].at \in Holding =>
        worker[w].artefact # None /\ worker[w].artefact \in DOMAIN disk
  BY <1>0, Positions DEF WorkerFits, None
<1>3. ASSUME NEW v \in Workers \ A PROVE Restores(v)'
  <2>1. worker'[v] = worker[v] /\ Restores(v)
    BY DEF RestoreFits
  <2> DEFINE n == worker[v].artefact
  <2>2. ASSUME worker[v].at = "clearingChecksum" PROVE disk'[n].artefact = "absent"
    <3>1. n # None /\ n \in DOMAIN disk /\ disk[n].artefact = "absent"
      BY <1>2, <2>1, <2>2 DEF Restores, Holding
    <3>2. ~ \E w \in A : n = worker[w].artefact
      BY <1>0, <3>1 DEF OwnArtefacts
    <3> QED BY <3>1, <3>2 DEF DiskSpares
  <2>3. ASSUME worker[v].at \in {"placed", "recording"} PROVE Spared(disk[n].type)'
    <3>1. n \in DOMAIN disk /\ Spared(disk[n].type)
      BY <1>2, <2>1, <2>3 DEF Restores, Holding
    <3>2. PICK t : t = disk[n].type
      OBVIOUS
    <3>3. Spared(t)' /\ disk'[n].type = t
      BY <3>1, <3>2, SparedStays DEF DiskSpares
    <3> QED BY <2>1, <3>3 DEF Spared
  <2> QED BY <2>1, <2>2, <2>3 DEF Restores
<1>4. ASSUME NEW i \in Backups' PROVE Spared(disk[runs[i].artefact].type)'
  <2>1. PICK n : n = runs'[i].artefact
    OBVIOUS
  <2>2. n \in DOMAIN disk /\ Spared(disk[n].type)
    <3>1. CASE i \in Backups /\ runs'[i].artefact = runs[i].artefact
      <4>1. n \in DOMAIN disk
        BY <1>0, <2>1, <3>1, Positions DEF RunsFit, Backups, None
      <4> QED BY <2>1, <3>1, <4>1 DEF RestoreFits
    <3>2. ASSUME NEW w \in A, worker[w].at = "recording", runs'[i].artefact = worker[w].artefact
          PROVE  n \in DOMAIN disk /\ Spared(disk[n].type)
      BY <1>2, <2>1, <3>2 DEF RestoreFits, Restores, Holding
    <3> QED BY <3>1, <3>2
  <2>3. PICK t : t = disk[n].type
    OBVIOUS
  <2>4. Spared(t)' /\ disk'[n].type = t
    BY <2>2, <2>3, SparedStays DEF DiskSpares
  <2> QED BY <2>1, <2>4 DEF Spared
<1> QED BY <1>1, <1>3, <1>4 DEF RestoreFits

LEMMA SameDiskSpares ==
    ASSUME NEW A, UNCHANGED disk
    PROVE  DiskSpares(A)
BY DEF DiskSpares, Whole

\* One pair's files change.
LEMMA RowSpares ==
    ASSUME TypeOK, NEW A, NEW n \in DOMAIN disk, NEW row \in Files, row.type = disk[n].type,
           disk' = [disk EXCEPT ![n] = row],
           disk[n].artefact # "absent" => row.artefact # "absent",
           row.artefact = "absent" \/ disk[n].artefact # "absent"
             \/ \E w \in A : n = worker[w].artefact,
           n \in doomed \/ disk[n].artefact # "final"
    PROVE  DiskSpares(A)
<1>1. /\ DOMAIN disk' = DOMAIN disk
      /\ \A m \in DOMAIN disk : disk'[m] = IF m = n THEN row ELSE disk[m]
  BY FilesChange
<1>2. ~ (Whole(n) /\ n \notin doomed)
  BY DEF Whole
<1>3. ASSUME NEW m \in DOMAIN disk, m # n PROVE Whole(m) => Whole(m)'
  BY <1>1, <1>3 DEF Whole
<1> QED BY <1>1, <1>2, <1>3 DEF DiskSpares

\* Where a worker relies on more than its own files.
Delicate == {"placed", "recording", "clearingChecksum", "clearingArtefact"}

LEMMA WorkerMoves ==
    ASSUME TypeOK, NEW w \in Workers,
           \/ Leave(w)
           \/ \E at \in Steps \ Delicate : Go(w, at)
           \/ \E row : worker' = [worker EXCEPT ![w] = row] /\ row.at \notin Delicate
    PROVE  (\A v \in Workers \ {w} : worker'[v] = worker[v]) /\ worker'[w].at \notin Delicate
<1>1. CASE Leave(w)
  BY <1>1, Leaving, WorkersAreTyped DEF Delicate
<1>2. ASSUME NEW at \in Steps \ Delicate, Go(w, at)
      PROVE  (\A v \in Workers \ {w} : worker'[v] = worker[v]) /\ worker'[w].at \notin Delicate
  <2>1. at \in Steps /\ at \notin Delicate
    OBVIOUS
  <2> QED BY <1>2, <2>1, Going
<1>3. ASSUME NEW row, worker' = [worker EXCEPT ![w] = row], row.at \notin Delicate
      PROVE  (\A v \in Workers \ {w} : worker'[v] = worker[v]) /\ worker'[w].at \notin Delicate
  BY <1>3 DEF TypeOK
<1> QED BY <1>1, <1>2, <1>3

\* A step of a worker after which it relies on its own files at most.
LEMMA MoveSpares ==
    ASSUME IInv, RestoreFits, NEW w \in Workers, RunsGoOn(w), DiskSpares({w}), UNCHANGED doomed,
           \/ Leave(w)
           \/ \E at \in Steps \ Delicate : Go(w, at)
           \/ \E row : worker' = [worker EXCEPT ![w] = row] /\ row.at \notin Delicate
    PROVE  RestoreFits'
<1> DEFINE A == {w}
<1>1. (\A v \in Workers \ A : worker'[v] = worker[v]) /\ worker'[w].at \notin Delicate
  <2>1. TypeOK
    BY DEF IInv
  <2> QED BY <2>1, WorkerMoves
<1>2. \A v \in A : Restores(v)'
  BY <1>1 DEF Restores, Delicate
<1>3. \A i \in Backups' :
        \/ i \in Backups /\ runs'[i].artefact = runs[i].artefact
        \/ \E v \in A : worker[v].at = "recording" /\ runs'[i].artefact = worker[v].artefact
  BY DEF Backups, RunsGoOn
<1>4. A \in SUBSET Workers /\ DiskSpares(A) /\ doomed' \subseteq doomed
  OBVIOUS
<1> HIDE DEF A
<1> QED BY <1>1, <1>2, <1>3, <1>4, SparesStep

LEMMA QueueSpares ==
    ASSUME IInv, RestoreFits, NEW w \in Workers
    PROVE  \/ FindNoneActive(w) \/ ClaimNext(w) \/ ClaimNothing(w) \/ Start(w) \/ BuildFails(w)
           \/ Finish(w) \/ Fail(w) \/ ChooseRun(w) \/ Check(w) \/ Crash(w)
           => RestoreFits'
<1>1. ASSUME UNCHANGED <<runs, disk, doomed>>,
             \/ Leave(w)
             \/ \E at \in Steps \ Delicate : Go(w, at)
             \/ \E row : worker' = [worker EXCEPT ![w] = row] /\ row.at \notin Delicate
      PROVE  RestoreFits'
  <2>1. RunsGoOn(w) /\ DiskSpares({w})
    BY <1>1, RowsKept, SameDiskSpares DEF IInv
  <2> QED BY <1>1, <2>1, MoveSpares
<1>2. {"claiming", "choosing", "building", "failing", "recordingCheck", "condemning"}
        \subseteq Steps \ Delicate
  BY DEF Steps, Delicate
<1>3. ASSUME \/ FindNoneActive(w) \/ ClaimNothing(w) \/ Start(w) \/ BuildFails(w) \/ Finish(w)
             \/ Fail(w) \/ Check(w) \/ Crash(w)
      PROVE  RestoreFits'
  <2>1. UNCHANGED <<runs, disk, doomed>>
    BY <1>3 DEF FindNoneActive, ClaimNothing, Start, BuildFails, Finish, Fail, Check, Crash
  <2>2. \/ Leave(w)
        \/ \E at \in {"claiming", "choosing", "building", "failing", "recordingCheck",
                      "condemning"} : Go(w, at)
    BY <1>3 DEF FindNoneActive, ClaimNothing, Start, BuildFails, Finish, Fail, Check, Crash, Call
  <2> QED BY <1>1, <1>2, <2>1, <2>2
<1>4. ASSUME ClaimNext(w) PROVE RestoreFits'
  <2>1. UNCHANGED <<runs, disk, doomed>>
    BY <1>4 DEF ClaimNext
  <2>2. PICK j \in Jobs :
          \/ worker' = [worker EXCEPT ![w] = [Idle EXCEPT !.at = "starting", !.job = j]]
          \/ Leave(w)
    BY <1>4, Zenon DEF ClaimNext
  <2>3. [Idle EXCEPT !.at = "starting", !.job = j].at \notin Delicate
    BY DEF Idle, Delicate
  <2> QED BY <1>1, <2>1, <2>2, <2>3
<1>5. ASSUME ChooseRun(w) PROVE RestoreFits'
  <2> DEFINE row == [worker[w] EXCEPT !.at = "checking", !.source = Newest(Backups)]
  <2>1. UNCHANGED <<runs, disk, doomed>> /\ (worker' = [worker EXCEPT ![w] = row] \/ Go(w, "failing"))
    BY <1>5 DEF ChooseRun
  <2>2. row.at \notin Delicate
    BY WorkersAreTyped DEF WorkerStates, Delicate, IInv
  <2> HIDE DEF row
  <2> QED BY <1>1, <1>2, <2>1, <2>2
<1> QED BY <1>3, <1>4, <1>5

LEMMA RecordSpares ==
    ASSUME IInv, RestoreFits, NEW w \in Workers
    PROVE  Record(w) \/ RecordCheck(w) \/ Condemn(w) \/ Clear(w) => RestoreFits'
<1>0. TypeOK /\ WorkerFits(w) /\ worker[w] \in WorkerStates
  BY WorkersAreTyped DEF IInv
<1>1. ASSUME RunsGoOn(w), UNCHANGED <<disk, doomed>>,
             \/ \E at \in Steps \ Delicate : Go(w, at)
             \/ \E row : worker' = [worker EXCEPT ![w] = row] /\ row.at \notin Delicate
      PROVE  RestoreFits'
  <2>1. DiskSpares({w})
    BY <1>1, SameDiskSpares
  <2> QED BY <1>1, <2>1, MoveSpares
<1>2. {"failing", "finishing"} \subseteq Steps \ Delicate
  BY DEF Steps, Delicate
<1>3. ASSUME NEW a, NEW onward \in {"finishing", "clearing"}, Insert(w, a, onward),
             UNCHANGED <<disk, doomed>>, a \in 0..NArtefacts, Busy(w),
             a = None \/ (a = worker[w].artefact /\ worker[w].at = "recording")
      PROVE  RestoreFits'
  <2> DEFINE j == worker[w].job
             new == Append(runs, [artefact |-> a, by |-> j, passed |-> TRUE])
             row == [worker[w] EXCEPT !.at = onward, !.run = Len(runs) + 1]
  <2>1. /\ runs' \in {runs, new} /\ Len(runs) < NRuns
        /\ worker' = [worker EXCEPT ![w] = row] \/ Go(w, "failing")
    BY <1>3 DEF Insert, Call
  <2>2. row.at \notin Delicate /\ j \in Jobs
    BY <1>0, <1>3 DEF WorkerStates, WorkerFits, Delicate
  <2>3. RunsGoOn(w)
    BY <1>0, <1>3, <2>1, <2>2, RowAdded, RowsKept
  <2> HIDE DEF row, new
  <2> QED BY <1>1, <1>2, <1>3, <2>1, <2>2, <2>3
<1>4. ASSUME Record(w) PROVE RestoreFits'
  BY <1>0, <1>3, <1>4 DEF Record, Busy, WorkerStates
<1>5. ASSUME RecordCheck(w) PROVE RestoreFits'
  <2>1. None \in 0..NArtefacts
    BY JobsAssumption DEF None
  <2> QED BY <1>3, <1>5, <2>1 DEF RecordCheck, Busy
<1>6. ASSUME Condemn(w) \/ Clear(w) PROVE RestoreFits'
  <2>1. worker[w].source \in DOMAIN runs /\ UNCHANGED <<disk, doomed>>
    BY <1>0, <1>6 DEF Condemn, Clear, WorkerFits, Examining, Backups
  <2>2. \/ UNCHANGED runs \/ runs' = [runs EXCEPT ![worker[w].source].passed = FALSE]
        \/ runs' = [runs EXCEPT ![worker[w].source].passed = TRUE]
    BY <1>6 DEF Condemn, Clear, Call
  <2>3. RunsGoOn(w)
    BY <1>0, <2>1, <2>2, RowJudged, RowsKept
  <2>4. Go(w, "failing") \/ Go(w, "finishing")
    BY <1>6 DEF Condemn, Clear, Call
  <2> QED BY <1>1, <1>2, <2>1, <2>3, <2>4
<1> QED BY <1>4, <1>5, <1>6

LEMMA BuildSpares ==
    ASSUME IInv, RestoreFits, NEW w \in Workers, Build(w)
    PROVE  RestoreFits'
<1> DEFINE made == [type |-> jobs[worker[w].job].kind, artefact |-> "absent",
                    checksum |-> "absent"]
           row == [worker[w] EXCEPT !.at = "placing", !.artefact = Len(disk) + 1]
<1>1. TypeOK /\ UNCHANGED <<runs, doomed>>
  BY DEF Build, IInv
<1>2. disk \in Seq(Files) /\ disk' = Append(disk, made)
  BY <1>1 DEF Build, Job, TypeOK
<1>3. made \in Files
  <2>1. worker[w].at = "building" /\ WorkerFits(w)
    BY DEF Build, IInv
  <2> QED BY <2>1 DEF WorkerFits, Files, Places
<1>4. worker' = [worker EXCEPT ![w] = row]
  BY DEF Build
<1>5. row.at \notin Delicate
  BY <1>1, WorkersAreTyped DEF WorkerStates, Delicate
<1> HIDE DEF made, row
<1>6. /\ DOMAIN disk = 1..Len(disk) /\ Len(disk) \in Nat
      /\ DOMAIN disk' = 1..(Len(disk) + 1) /\ \A n \in 1..Len(disk) : disk'[n] = disk[n]
  <2>1. /\ disk' \in Seq(Files) /\ Len(disk') = Len(disk) + 1
        /\ \A n \in 1..Len(disk) : disk'[n] = disk[n]
    BY <1>2, <1>3, AppendProperties
  <2> QED BY <1>2, <2>1, LenProperties
<1>7. DiskSpares({w})
  BY <1>6 DEF DiskSpares, Whole
<1>8. RunsGoOn(w)
  BY <1>1, RowsKept
<1> QED BY <1>1, <1>4, <1>5, <1>7, <1>8, MoveSpares

\* What a worker knows of its own artefact.
LEMMA OwnArtefact ==
    ASSUME IInv, NEW w \in Workers, worker[w].at \in Holding
    PROVE  /\ TypeOK /\ WorkerFits(w)
           /\ worker[w].artefact \in DOMAIN disk /\ worker[w].artefact # None
<1>1. TypeOK /\ WorkerFits(w)
  BY DEF IInv
<1> QED BY <1>1, Positions DEF WorkerFits, None

LEMMA PlaceSpares ==
    ASSUME IInv, RestoreFits, NEW w \in Workers
    PROVE  PlaceChecksum(w) \/ PlaceArtefact(w) => RestoreFits'
<1> DEFINE A == {w}
<1>0. PICK n : n = worker[w].artefact
  OBVIOUS
<1>1. TypeOK /\ {"final"} \subseteq Places
  BY DEF IInv, Places
<1>2. {"finalizing", "failing"} \subseteq Steps \ Delicate /\ {"placed", "clearingChecksum"} \subseteq Steps
  BY DEF Steps, Delicate
<1>3. ASSUME PlaceChecksum(w) PROVE RestoreFits'
  <2>1. worker[w].at = "placing" /\ UNCHANGED <<runs, doomed>>
        /\ \E at \in {"finalizing", "failing"} : Go(w, at)
    BY <1>3 DEF PlaceChecksum
  <2>2. n \in DOMAIN disk /\ disk[n].artefact = "absent"
    BY <1>0, <2>1, OwnArtefact DEF WorkerFits, Holding
  <2>3. UNCHANGED disk \/ Move(n, "checksum", "final")
    BY <1>0, <1>3 DEF PlaceChecksum, Rename, Move
  <2>4. DiskSpares(A)
    <3>1. CASE UNCHANGED disk
      BY <3>1, SameDiskSpares
    <3>2. CASE Move(n, "checksum", "final")
      <4>1. PICK row \in Files : /\ row.type = disk[n].type /\ disk' = [disk EXCEPT ![n] = row]
                                 /\ row.checksum = "final" /\ row.artefact = disk[n].artefact
        BY <1>1, <2>2, <3>2, ChecksumRenamed
      <4> QED BY <1>1, <2>2, <4>1, RowSpares
    <3> QED BY <2>3, <3>1, <3>2
  <2>5. RunsGoOn(w)
    BY <1>1, <2>1, RowsKept
  <2> QED BY <1>2, <2>1, <2>4, <2>5, MoveSpares
<1>4. ASSUME worker[w].at = "finalizing", UNCHANGED <<runs, doomed>>, DiskSpares(A),
             \A v \in Workers \ A : worker'[v] = worker[v], Restores(w)'
      PROVE  RestoreFits'
  <2>1. \A i \in Backups' : i \in Backups /\ runs'[i].artefact = runs[i].artefact
    BY <1>4 DEF Backups
  <2>2. \A v \in A : Restores(v)'
    BY <1>4
  <2>3. A \in SUBSET Workers /\ doomed' \subseteq doomed
    BY <1>4
  <2> HIDE DEF A
  <2> QED BY <1>4, <2>1, <2>2, <2>3, SparesStep
<1>5. ASSUME PlaceArtefact(w) PROVE RestoreFits'
  <2>1. worker[w].at = "finalizing" /\ UNCHANGED <<runs, doomed>>
    BY <1>5 DEF PlaceArtefact
  <2>2. n \in DOMAIN disk /\ disk[n].artefact = "absent" /\ disk[n].checksum = "final"
    BY <1>0, <2>1, OwnArtefact DEF WorkerFits, Holding
  <2>3. CASE UNCHANGED disk /\ Go(w, "clearingChecksum")
    <3>1. /\ \A v \in Workers \ A : worker'[v] = worker[v]
          /\ worker'[w].at = "clearingChecksum" /\ worker'[w].artefact = n
      BY <1>0, <1>1, <1>2, <2>3, Going
    <3>2. Restores(w)'
      BY <2>2, <2>3, <3>1 DEF Restores
    <3> QED BY <1>4, <2>1, <2>3, <3>1, <3>2, SameDiskSpares
  <2>4. CASE Move(n, "artefact", "final") /\ Go(w, "placed")
    <3>1. /\ \A v \in Workers \ A : worker'[v] = worker[v]
          /\ worker'[w].at = "placed" /\ worker'[w].artefact = n
      BY <1>0, <1>1, <1>2, <2>4, Going
    <3>2. PICK row \in Files : /\ row.type = disk[n].type /\ disk' = [disk EXCEPT ![n] = row]
                               /\ row.artefact = "final" /\ row.checksum = disk[n].checksum
      BY <1>1, <2>2, <2>4, ArtefactRenamed
    <3>3. DiskSpares(A)
      <4>1. \E v \in A : n = worker[v].artefact
        BY <1>0
      <4>2. disk[n].artefact # "final" /\ disk[n].artefact = "absent"
        BY <2>2
      <4> HIDE DEF A
      <4> QED BY <1>1, <2>2, <3>2, <4>1, <4>2, RowSpares
    <3>4. n \in DOMAIN disk' /\ Whole(n)' /\ n \notin doomed'
      <4>1. disk'[n] = row /\ n \in DOMAIN disk'
        BY <1>1, <2>2, <3>2, FilesChange
      <4> QED BY <2>1, <2>2, <3>2, <4>1 DEF Whole, RestoreFits
    <3>5. Restores(w)'
      BY <3>1, <3>4 DEF Restores, Spared, PairsOf
    <3> QED BY <1>4, <2>1, <3>1, <3>3, <3>5
  <2> QED BY <1>0, <1>5, <2>3, <2>4 DEF PlaceArtefact, Rename, Move
<1> QED BY <1>3, <1>5

LEMMA ClearSpares ==
    ASSUME IInv, RestoreFits, ~ LateFailures, NEW w \in Workers
    PROVE  ReturnPlaced(w) \/ ClearChecksum(w) \/ ClearArtefact(w) => RestoreFits'
<1> DEFINE A == {w}
<1>0. PICK n : n = worker[w].artefact
  OBVIOUS
<1>1. TypeOK /\ Restores(w)
  BY DEF IInv, RestoreFits
<1>2. ASSUME ReturnPlaced(w) PROVE RestoreFits'
  <2>1. worker[w].at = "placed" /\ UNCHANGED <<runs, disk, doomed>> /\ Go(w, "recording")
        /\ "recording" \in Steps
    BY <1>2 DEF ReturnPlaced, Steps
  <2>2. /\ \A v \in Workers \ A : worker'[v] = worker[v]
        /\ worker'[w].at = "recording" /\ worker'[w].artefact = n
    BY <1>0, <1>1, <2>1, Going
  <2>3. Spared(disk[n].type)'
    BY <1>0, <1>1, <2>1 DEF Restores, Spared, PairsOf, Whole
  <2>4. \A v \in A : Restores(v)'
    BY <2>2, <2>3 DEF Restores, Spared
  <2>5. \A i \in Backups' : i \in Backups /\ runs'[i].artefact = runs[i].artefact
    BY <2>1 DEF Backups
  <2>6. A \in SUBSET Workers /\ doomed' \subseteq doomed /\ DiskSpares(A)
    BY <2>1, SameDiskSpares
  <2> HIDE DEF A
  <2> QED BY <2>2, <2>4, <2>5, <2>6, SparesStep
<1>3. ASSUME ClearChecksum(w) PROVE RestoreFits'
  <2>1. worker[w].at = "clearingChecksum" /\ UNCHANGED <<runs, doomed>> /\ Remove(w, "checksum")
    BY <1>3 DEF ClearChecksum
  <2>2. n \in DOMAIN disk /\ disk[n].artefact = "absent"
    BY <1>0, <1>1, <2>1, OwnArtefact DEF Restores, Holding
  <2>3. Go(w, "failing") /\ "failing" \in Steps \ Delicate
    BY <1>0, <1>3, <2>2 DEF ClearChecksum, Steps, Delicate
  <2>4. \/ UNCHANGED disk
        \/ \E row \in Files : /\ row.type = disk[n].type /\ disk' = [disk EXCEPT ![n] = row]
                              /\ row.artefact = disk[n].artefact
    BY <1>0, <1>1, <2>1, <2>2, RemovedFiles
  <2>5. DiskSpares(A)
    BY <1>1, <2>2, <2>4, SameDiskSpares, RowSpares
  <2>6. RunsGoOn(w)
    BY <1>1, <2>1, RowsKept
  <2> QED BY <2>1, <2>3, <2>5, <2>6, MoveSpares
<1>4. ~ ClearArtefact(w)
  BY <1>1 DEF ClearArtefact, Restores
<1> QED BY <1>2, <1>3, <1>4

LEMMA RetentionSpares ==
    ASSUME IInv, RestoreFits
    PROVE  (\/ Discover \/ Interrupt
            \/ \E n \in Artefacts : MoveArtefact(n) \/ MoveChecksum(n) \/ RollBack(n))
           => RestoreFits'
<1> DEFINE A == {}
<1>0. TypeOK /\ DoomedFit /\ {"moved", "final"} \subseteq Places
  BY DEF IInv, Places
<1>1. ASSUME UNCHANGED <<runs, worker>>, doomed' \subseteq doomed, DiskSpares(A)
      PROVE  RestoreFits'
  <2>1. \A i \in Backups' : i \in Backups /\ runs'[i].artefact = runs[i].artefact
    BY <1>1 DEF Backups
  <2>2. A \in SUBSET Workers /\ \A w \in A : Restores(w)'
    OBVIOUS
  <2>3. \A v \in Workers \ A : worker'[v] = worker[v]
    BY <1>1
  <2> HIDE DEF A
  <2> QED BY <1>1, <2>1, <2>2, <2>3, SparesStep
<1>2. ASSUME Interrupt PROVE RestoreFits'
  BY <1>1, <1>2, SameDiskSpares DEF Interrupt
<1>3. ASSUME NEW n \in Artefacts, MoveArtefact(n) \/ MoveChecksum(n) \/ RollBack(n)
      PROVE  RestoreFits'
  <2>1. n \in DOMAIN disk /\ n \in doomed /\ doomed' \subseteq doomed
        /\ UNCHANGED <<runs, worker>>
    BY <1>0, <1>3 DEF MoveArtefact, MoveChecksum, RollBack, Oldest, DoomedFit
  <2>2. disk[n].artefact # "absent"
    BY <2>1 DEF RestoreFits
  <2>3. \/ Move(n, "artefact", "moved") \/ Move(n, "checksum", "moved")
        \/ Move(n, "artefact", "final")
    BY <1>3 DEF MoveArtefact, MoveChecksum, RollBack
  <2>4. \E row \in Files :
          /\ row.type = disk[n].type /\ disk' = [disk EXCEPT ![n] = row]
          /\ row.artefact # "absent"
    BY <1>0, <2>1, <2>2, <2>3, ArtefactRenamed, ChecksumRenamed
  <2>5. DiskSpares(A)
    <3> HIDE DEF A
    <3> QED BY <1>0, <2>1, <2>2, <2>4, RowSpares
  <2> QED BY <1>1, <2>1, <2>5
<1>4. ASSUME Discover PROVE RestoreFits'
  <2>1. doomed' = ToRemove /\ UNCHANGED <<runs, disk, worker>>
    BY <1>4 DEF Discover
  <2>2. \A n \in doomed' : disk'[n].artefact # "absent"
    BY <2>1 DEF ToRemove, PairsOf, Whole
  <2>3. ASSUME NEW t, Spared(t) PROVE Spared(t)'
    <3> DEFINE S == PairsOf(t)
    <3>1. S \in SUBSET Nat /\ IsFiniteSet(S) /\ S # {} /\ S \subseteq DOMAIN disk
      <4>1. S \subseteq DOMAIN disk /\ S # {}
        BY <2>3 DEF PairsOf, Spared
      <4> QED BY <1>0, <4>1, Positions, FS_Subset
    <3>2. PICK n : n \in Select(S) /\ n \in S
      <4> HIDE DEF S
      <4> QED BY <3>1, SelectSome
    <3>3. n \notin ToRemove
      BY <3>2 DEF ToRemove, PairsOf
    <3>4. n \in PairsOf(t)'
      BY <2>1, <3>2 DEF PairsOf, Whole
    <3> QED BY <2>1, <3>3, <3>4 DEF Spared
  <2>4. \A w \in Workers : Restores(w)'
    <3> SUFFICES ASSUME NEW w \in Workers PROVE Restores(w)'
      OBVIOUS
    <3>1. PICK t : t = disk[worker[w].artefact].type
      OBVIOUS
    <3>2. Spared(t) => Spared(t)'
      BY <2>3
    <3>3. Spared(t)' => Spared(disk[worker[w].artefact].type)'
      BY <2>1, <3>1 DEF Spared
    <3> QED BY <2>1, <3>1, <3>2, <3>3 DEF Restores, RestoreFits
  <2>5. ASSUME NEW i \in Backups' PROVE Spared(disk[runs[i].artefact].type)'
    <3>1. PICK t : t = disk[runs[i].artefact].type
      OBVIOUS
    <3>2. Spared(t)
      BY <2>1, <3>1 DEF RestoreFits, Backups
    <3>3. Spared(t)'
      BY <2>3, <3>2
    <3> QED BY <2>1, <3>1, <3>3 DEF Spared
  <2> QED BY <2>2, <2>4, <2>5 DEF RestoreFits
<1> QED BY <1>2, <1>3, <1>4

LEMMA RestoreStep ==
    ASSUME IInv, SafeUnlessLate, [Next]_vars
    PROVE  SafeUnlessLate'
<1> SUFFICES ASSUME ~ LateFailures, RestoreFits PROVE RestoreFits'
  BY DEF SafeUnlessLate
<1>1. ASSUME NEW w \in Workers, WorkerStep(w) PROVE RestoreFits'
  BY <1>1, QueueSpares, RecordSpares, BuildSpares, PlaceSpares, ClearSpares DEF WorkerStep
<1>2. ASSUME NEW w \in Workers, Crash(w) PROVE RestoreFits'
  BY <1>2, QueueSpares
<1>3. ASSUME UNCHANGED <<runs, disk, worker, doomed>> PROVE RestoreFits'
  BY <1>3 DEF RestoreFits, Restores, Spared, PairsOf, Whole, Backups
<1>4. ASSUME NEW j \in Jobs, NEW k \in Kinds, Enqueue(j, k) \/ LeaseRunsOut(j)
      PROVE  RestoreFits'
  <2>1. Enqueue(j, k) => UNCHANGED <<runs, disk, worker, doomed>>
    BY DEF Enqueue
  <2>2. LeaseRunsOut(j) => UNCHANGED <<runs, disk, worker, doomed>>
    BY DEF LeaseRunsOut
  <2> QED BY <1>3, <1>4, <2>1, <2>2
<1>5. CASE \/ Discover \/ Interrupt
           \/ \E n \in Artefacts : MoveArtefact(n) \/ MoveChecksum(n) \/ RollBack(n)
  BY <1>5, RetentionSpares
<1>6. CASE UNCHANGED vars
  BY <1>3, <1>6 DEF vars
<1>7. Verify \in Kinds
  BY DEF Kinds
<1> QED BY <1>1, <1>2, <1>4, <1>5, <1>6, <1>7 DEF Next

\* Once a backup is on record, a whole pair of its type is on the disk from then on,
\* whatever the retention's limits, whatever the workers do beside it and wherever they
\* and the retention fail, as long as no step fails between the last rename of a pair and
\* its record: then what was placed would be taken away again, though the retention may
\* have counted on it.
THEOREM RestorePointsStay == Spec => [](~ LateFailures => RestorePointSurvives)
<1>1. Init => SafeUnlessLate
  BY DEF Init, SafeUnlessLate, RestoreFits, Restores, Backups, Idle
<1>2. IInv /\ SafeUnlessLate /\ [Next]_vars => SafeUnlessLate'
  BY RestoreStep
<1>3. SafeUnlessLate => (~ LateFailures => RestorePointSurvives)
  BY DEF SafeUnlessLate, RestoreFits, RestorePointSurvives, Spared
<1> QED BY <1>1, <1>2, <1>3, QueueInvariant, PTL DEF Spec
=============================================================================
