--------------------------- MODULE MediaRetention ---------------------------
(***************************************************************************)
(* The life of one bundle of original media,                               *)
(* src/dcar_eval/v8/media_retention.py: archived to another volume and     *)
(* released from the hot one, restored on request, released again, and     *)
(* deleted for good when its retention is over.                            *)
(*                                                                         *)
(* Three scheduler jobs run the same pass at their own times.  An operation *)
(* holds the global lifecycle lock and the bundle's lock exclusively, a    *)
(* consumer of originals the bundle's lock shared; nobody waits for a lock. *)
(* The control row, the files and the durable run of the operation are     *)
(* written one after another, and the process may die in between.          *)
(***************************************************************************)
EXTENDS Integers, FiniteSets, Sequences, FiniteSetsExt

CONSTANTS
    Members,        \* the member files of the bundle, numbered in manifest order
    Readers,        \* consumers of the originals (media_read_lease)
    Jobs,           \* the scheduler jobs that run a pass
    RetentionTime,  \* RETENTION_HOURS: from the verified archive to deletion
    HotTime,        \* HOT_HOURS: how long restored originals stay hot
    RetryTime,      \* the five minutes after which a partial run resumes
    MaxRequests,    \* bound: restore requests
    MaxFaults,      \* bound: crashes, lost leases and I/O errors
    MaxNow          \* bound: the clock

ASSUME MediaConstants ==
    /\ Members \subseteq Nat /\ Members # {} /\ IsFiniteSet(Members)
    /\ Jobs \subseteq {"media_archive", "media_retention", "media_restore"}
    /\ {RetentionTime, HotTime} \subseteq Nat \ {0}
    /\ {RetryTime, MaxRequests, MaxFaults, MaxNow} \subseteq Nat

None == -1

VARIABLES
    now,       \* the clock
    hot,       \* members under originals_root
    pack,      \* members in the published archive copy
    litter,    \* the places with a staging file that a dead copy left behind
    row,       \* the lifecycle state of the control row
    run,       \* the durable run of each operation
    exec,      \* the operation under the exclusive locks
    plan,      \* what each job's pass has decided and not yet tried
    readers,   \* consumers with a lease
    activity,  \* when the last consumer finished (activity.json)
    faults     \* faults so far

mediaVars == <<now, hot, pack, litter, row, run, exec, plan, readers, activity, faults>>

\* A restore whose end was lost happens again.
MaxRestores == MaxRequests + MaxFaults

\* An operation and the request or receipt that makes its run's identity.
Task(op, n) == [op |-> op, n |-> n]
Tasks == {Task("archive", 0), Task("retention", 0)}
         \cup {Task("restore", n) : n \in 1..MaxRequests}
         \cup {Task("hot_release", n) : n \in 1..MaxRestores}
NoExec == [task |-> Task("none", 0), job |-> "none", stage |-> "none"]

\* The identity of one deletion: why, where and which member.
Deletion(why, place, m) == <<why, place, m>>
Initial == <<"initial_release", 0>>
Restored(n) == <<"restored_release", n>>
Purge == <<"purge", 0>>

InitMedia ==
    /\ now = 0 /\ activity = None /\ faults = 0
    /\ hot = Members /\ pack = {} /\ litter = {}
    /\ row = [storage |-> "hot", op |-> "idle", due |-> None, intents |-> {},
              settled |-> {}, present |-> FALSE, released |-> FALSE, restores |-> 0,
              restoredAt |-> None, purgeHot |-> {},
              request |-> [id |-> 0, status |-> "none"]]
    /\ run = [t \in Tasks |-> [status |-> "none", resume |-> 0]]
    /\ exec = NoExec
    /\ plan = [j \in Jobs |-> <<>>]
    /\ readers = {}

Verified == row.due # None
IsDue == Verified /\ now >= row.due
Pending == row.request.status = "pending"
PackComplete == pack = Members /\ "pack" \notin litter
HotComplete == hot = Members /\ "hot" \notin litter

\* _hot_due: the later of the restore and the last reader, plus a day, capped.
HotDue == Min({Max({row.restoredAt, activity}) + HotTime, row.due})

-----------------------------------------------------------------------------
(* Consumers. *)

\* media_read_lease: the bundle lock shared, then _availability of 200.
OpenLease(r) ==
    /\ r \notin readers /\ exec = NoExec
    /\ row.storage # "expired" /\ row.op \notin {"purging", "restoring"} /\ ~IsDue
    /\ HotComplete
    /\ readers' = readers \cup {r}
    /\ UNCHANGED <<now, hot, pack, litter, row, run, exec, plan, activity, faults>>

CloseLease(r) ==
    /\ r \in readers
    /\ readers' = readers \ {r}
    /\ activity' = now
    /\ UNCHANGED <<now, hot, pack, litter, row, run, exec, plan, faults>>

\* _availability says original_archived: the writer promises a restore.
CanRestore ==
    /\ row.storage = "archived" /\ row.op \notin {"purging", "restoring"} /\ ~IsDue
    /\ hot # Members /\ PackComplete

\* request_restore, with the bundle lock shared: a new request and its run.  The
\* run is created running and then interrupted; the process may die before either.
RequestRestore ==
    /\ exec = NoExec /\ ~Pending /\ CanRestore /\ row.request.id < MaxRequests
    /\ row' = [row EXCEPT !.request = [id |-> @.id + 1, status |-> "pending"]]
    /\ \E left \in {"none", "running", "interrupted"} :
          run' = [run EXCEPT ![Task("restore", row'.request.id)].status = left]
    /\ UNCHANGED <<now, hot, pack, litter, exec, plan, readers, activity, faults>>

\* The same for a request that is pending: its run, if it has none.
RequestAgain ==
    /\ exec = NoExec /\ Pending /\ ~IsDue /\ row.op # "purging"
    /\ row.op = "restoring" \/ CanRestore
    /\ LET t == Task("restore", row.request.id)
       IN  /\ run[t].status = "none"
           /\ run' = [run EXCEPT ![t].status = "interrupted"]
    /\ UNCHANGED <<now, hot, pack, litter, row, exec, plan, readers, activity, faults>>

-----------------------------------------------------------------------------
(* A pass, run_lifecycle_jobs: what it decides from the row it has loaded. *)

\* Deletion debt first: a pending restore is tried, then the purge.
DuePlan(job) ==
    (IF Pending THEN <<Task("restore", row.request.id)>> ELSE <<>>)
    \o (IF job = "media_retention" \/ row.op = "purging"
        THEN <<Task("retention", 0)>> ELSE <<>>)

ArchivePlan ==
    IF ~Verified THEN <<Task("archive", 0)>>
    ELSE IF row.present
         THEN IF now >= HotDue THEN <<Task("hot_release", row.restores)>> ELSE <<>>
         ELSE IF row.released THEN <<>> ELSE <<Task("archive", 0)>>

Plans(job) ==
    IF IsDue \/ row.op = "purging" THEN {DuePlan(job)}
    ELSE {IF Pending THEN <<Task("restore", row.request.id)>> ELSE <<>>}
         \cup (IF job = "media_archive" THEN {ArchivePlan} ELSE {})

\* The decision; other steps happen before the pass acts on it.
Decide(job) ==
    /\ plan[job] = <<>> /\ exec.job # job
    /\ row.storage # "expired"
    /\ \E p \in Plans(job) : p # <<>> /\ plan' = [plan EXCEPT ![job] = p]
    /\ UNCHANGED <<now, hot, pack, litter, row, run, exec, readers, activity, faults>>

\* A lock is taken by somebody else, the processing lock by any local worker.
Blocked(job) ==
    /\ plan[job] # <<>> /\ exec.job # job
    /\ plan' = [plan EXCEPT ![job] = Tail(@)]
    /\ UNCHANGED <<now, hot, pack, litter, row, run, exec, readers, activity, faults>>

\* Mutant of ClaimableRun: a run that is running is left to its lease.
ClaimableWhenIdle(t) ==
    \/ run[t].status \in {"none", "interrupted"}
    \/ run[t].status = "partial" /\ now >= run[t].resume

\* A run that is running is recovered: whoever holds both locks knows it is dead.
ClaimableRun(t) ==
    \/ run[t].status \in {"none", "running", "interrupted"}
    \/ run[t].status = "partial" /\ now >= run[t].resume

\* Mutant of LocksFree: the bundle lock is not taken.
LocksFreeOfOperations == exec = NoExec
LocksFree == exec = NoExec /\ readers = {}

\* _execute: the locks, then _claim.
Begin(job) ==
    /\ plan[job] # <<>> /\ LocksFree
    /\ LET t == Head(plan[job])
       IN  IF ClaimableRun(t)
           THEN /\ exec' = [task |-> t, job |-> job, stage |-> "check"]
                /\ run' = [run EXCEPT ![t].status = "running"]
           ELSE UNCHANGED <<exec, run>>
    /\ plan' = [plan EXCEPT ![job] = Tail(@)]
    /\ UNCHANGED <<now, hot, pack, litter, row, readers, activity, faults>>

-----------------------------------------------------------------------------
(* Outcomes of an operation. *)

In(op, stage) == exec.task.op = op /\ exec.stage = stage
Goto(stage) == exec' = [exec EXCEPT !.stage = stage] /\ UNCHANGED run

\* The clock is bounded, and so is the time at which a run resumes.
Resume == Min({now + RetryTime, MaxNow})

\* Anything raised ends the run partial; row and files stay as they are.
Partial ==
    /\ run' = [run EXCEPT ![exec.task] = [status |-> "partial", resume |-> Resume]]
    /\ exec' = NoExec

\* The receipt transaction is durable, the run is not finished yet.
Finish ==
    /\ exec.stage = "done"
    /\ run' = [run EXCEPT ![exec.task].status = "succeeded"]
    /\ exec' = NoExec
    /\ UNCHANGED <<now, hot, pack, litter, row, plan, readers, activity, faults>>

-----------------------------------------------------------------------------
(* _settle_members: intent, unlink and settlement of each deletion. *)

Files(place) == IF place = "hot" THEN hot ELSE pack

Unsettled(why, place, ms) ==
    {m \in ms : Deletion(why, place, m) \notin row.settled \/ m \in Files(place)}

Remove(place, m) ==
    /\ hot' = IF place = "hot" THEN hot \ {m} ELSE hot
    /\ pack' = IF place = "pack" THEN pack \ {m} ELSE pack

\* Mutant of IntentFirst: the file goes before its intent is durable.
IntentAfter(d) == TRUE
IntentFirst(d) == d \in row.intents

\* One transaction for the next member: its intent, its unlink or its settlement.
SettleOne(why, place, ms) ==
    LET m == Min(Unsettled(why, place, ms))
        d == Deletion(why, place, m)
    IN  IF m \in Files(place)
        THEN IF d \in row.settled THEN Partial /\ UNCHANGED <<hot, pack, row>>
             ELSE /\ UNCHANGED <<exec, run>>
                  /\ IF IntentFirst(d) THEN Remove(place, m) /\ UNCHANGED row
                     ELSE /\ row' = [row EXCEPT !.intents = @ \cup {d}]
                          /\ UNCHANGED <<hot, pack>>
        ELSE /\ UNCHANGED <<hot, pack>>
             /\ IF d \in row.intents
                THEN /\ row' = [row EXCEPT !.settled = @ \cup {d}]
                     /\ UNCHANGED <<exec, run>>
                ELSE Partial /\ UNCHANGED row

-----------------------------------------------------------------------------
(* _perform_archive. *)

CheckArchive ==
    /\ In("archive", "check")
    /\ \/ /\ ~Verified /\ HotComplete
          /\ row' = [row EXCEPT !.op = "archiving"] /\ Goto("copy")
       \/ ~Verified /\ ~HotComplete /\ Partial /\ UNCHANGED row
       \/ Verified /\ Goto("verify") /\ UNCHANGED row
    /\ UNCHANGED <<now, hot, pack, litter, plan, readers, activity, faults>>

\* Mutant of CopyPack: what has been copied is published without a count.
CopyPackUncounted ==
    /\ In("archive", "copy")
    /\ \E ms \in SUBSET Members : pack' = ms
    /\ Goto("commit")
    /\ UNCHANGED <<now, hot, litter, row, plan, readers, activity, faults>>

\* Copy to staging, decode, and rename to the archive key.  Copies that an earlier
\* attempt left are read again, a staging file fails the count of members.
CopyPack ==
    /\ In("archive", "copy")
    /\ IF "pack" \in litter THEN Partial /\ UNCHANGED pack
       ELSE pack' = Members /\ Goto("commit")
    /\ UNCHANGED <<now, hot, litter, row, plan, readers, activity, faults>>

\* The control transaction from which retention counts.
CommitArchive ==
    /\ In("archive", "commit")
    /\ row' = [row EXCEPT !.storage = "archived", !.op = "idle",
                          !.due = now + RetentionTime]
    /\ Goto("verify")
    /\ UNCHANGED <<now, hot, pack, litter, plan, readers, activity, faults>>

VerifyArchive ==
    /\ In("archive", "verify")
    /\ IF PackComplete /\ ~IsDue THEN Goto("settle") ELSE Partial
    /\ UNCHANGED <<now, hot, pack, litter, row, plan, readers, activity, faults>>

\* _perform_hot_release up to its deletions.
CheckHotRelease ==
    /\ In("hot_release", "check")
    /\ IF /\ row.op # "purging" /\ row.present /\ ~IsDue /\ now >= HotDue
          /\ PackComplete
       THEN Goto("settle") ELSE Partial
    /\ UNCHANGED <<now, hot, pack, litter, row, plan, readers, activity, faults>>

\* The deletions of both releases, and the receipt that ends them.
ReleaseHot ==
    /\ exec.stage = "settle" /\ exec.task.op \in {"archive", "hot_release"}
    /\ LET why == IF exec.task.op = "archive" THEN Initial ELSE Restored(row.restores)
       IN  IF Unsettled(why, "hot", Members) # {} THEN SettleOne(why, "hot", Members)
           ELSE /\ row' = [row EXCEPT !.released = TRUE, !.present = FALSE, !.op = "idle"]
                /\ Goto("done") /\ UNCHANGED <<hot, pack>>
    /\ UNCHANGED <<now, litter, plan, readers, activity, faults>>

-----------------------------------------------------------------------------
(* _perform_restore. *)

\* Mutant of Restorable: only the storage state is looked at.
RestorableWhenArchived == row.storage = "archived"
Restorable == row.storage = "archived" /\ row.op # "purging" /\ ~IsDue

\* Too late is final for the request and its run.
FailRequest ==
    /\ row' = [row EXCEPT !.request.status = "failed"]
    /\ run' = [run EXCEPT ![exec.task].status = "failed"]
    /\ exec' = NoExec

CheckRestore ==
    /\ In("restore", "check")
    /\ \/ /\ Restorable /\ PackComplete
          /\ row' = [row EXCEPT !.op = "restoring"] /\ Goto("copy")
       \/ Restorable /\ ~PackComplete /\ Partial /\ UNCHANGED row
       \/ ~Restorable /\ row.storage = "archived" /\ FailRequest
       \/ row.storage # "archived" /\ Partial /\ UNCHANGED row
    /\ UNCHANGED <<now, hot, pack, litter, plan, readers, activity, faults>>

CopyHot ==
    /\ In("restore", "copy") /\ hot # Members
    /\ hot' = hot \cup {Min(Members \ hot)}
    /\ UNCHANGED <<now, pack, litter, row, run, exec, plan, readers, activity, faults>>

\* A restore that began in time may end after the deadline.
CommitRestore ==
    /\ In("restore", "copy") /\ hot = Members
    /\ row' = [row EXCEPT !.op = "idle", !.present = TRUE, !.restores = @ + 1,
                          !.restoredAt = now,
                          !.request.status = "succeeded"]
    /\ Goto("done")
    /\ UNCHANGED <<now, hot, pack, litter, plan, readers, activity, faults>>

-----------------------------------------------------------------------------
(* _perform_purge. *)

MayPurge == IsDue /\ litter = {}

\* What is missing must be explained by an intent of its own.
Explained ==
    /\ \A m \in Members \ pack : row.op = "purging" /\ Deletion(Purge, "pack", m) \in row.intents
    /\ row.op # "purging" =>
          \A m \in Members \ hot : \E d \in row.intents : d[2] = "hot" /\ d[3] = m

\* The hot members present now are frozen as targets of this purge.
CheckPurge ==
    /\ In("retention", "check")
    /\ \/ row.storage = "expired" /\ Goto("done") /\ UNCHANGED row
       \/ /\ row.storage # "expired" /\ MayPurge /\ Explained
          /\ row' = [row EXCEPT !.op = "purging",
                                !.purgeHot = IF row.op = "purging" THEN @ ELSE hot]
          /\ Goto("archive")
       \/ row.storage # "expired" /\ ~(MayPurge /\ Explained) /\ Partial /\ UNCHANGED row
    /\ UNCHANGED <<now, hot, pack, litter, plan, readers, activity, faults>>

PurgeArchive ==
    /\ In("retention", "archive")
    /\ IF Unsettled(Purge, "pack", Members) # {} THEN SettleOne(Purge, "pack", Members)
       ELSE /\ IF hot \subseteq row.purgeHot THEN Goto("hot") ELSE Partial
            /\ UNCHANGED <<hot, pack, row>>
    /\ UNCHANGED <<now, litter, plan, readers, activity, faults>>

PurgeHot ==
    /\ In("retention", "hot")
    /\ IF Unsettled(Purge, "hot", row.purgeHot) # {}
       THEN SettleOne(Purge, "hot", row.purgeHot)
       ELSE /\ row' = [row EXCEPT !.storage = "expired", !.op = "idle", !.present = FALSE]
            /\ Goto("done") /\ UNCHANGED <<hot, pack>>
    /\ UNCHANGED <<now, litter, plan, readers, activity, faults>>

Operate ==
    \/ CheckArchive \/ CopyPack \/ CommitArchive \/ VerifyArchive
    \/ CheckHotRelease \/ ReleaseHot
    \/ CheckRestore \/ CopyHot \/ CommitRestore
    \/ CheckPurge \/ PurgeArchive \/ PurgeHot
    \/ Finish

-----------------------------------------------------------------------------
(* Faults. *)

\* A copy in progress may leave its staging file, which nothing removes.
LeaveLitter ==
    litter' = IF In("archive", "copy") THEN litter \cup {"pack"}
              ELSE IF In("restore", "copy") /\ hot # Members THEN litter \cup {"hot"}
              ELSE litter

\* An I/O error, also a full disk: the run is partial.
FailIO ==
    /\ exec # NoExec /\ exec.stage # "done" /\ faults < MaxFaults
    /\ Partial
    /\ UNCHANGED litter \/ LeaveLitter
    /\ faults' = faults + 1
    /\ UNCHANGED <<now, hot, pack, row, plan, readers, activity>>

\* Ownership is found lost, as nothing renews the lease meanwhile: the exception
\* leaves the run running and ends the pass.
LoseOwnership ==
    /\ exec # NoExec /\ faults < MaxFaults
    /\ exec' = NoExec
    /\ plan' = [plan EXCEPT ![exec.job] = <<>>]
    /\ faults' = faults + 1
    /\ UNCHANGED <<now, hot, pack, litter, row, run, readers, activity>>

\* The process dies: locks, leases and passes are gone.
Crash ==
    /\ faults < MaxFaults
    /\ exec' = NoExec /\ plan' = [j \in Jobs |-> <<>>] /\ readers' = {}
    /\ UNCHANGED litter \/ LeaveLitter
    /\ faults' = faults + 1
    /\ UNCHANGED <<now, hot, pack, row, run, activity>>

Tick ==
    /\ now < MaxNow
    /\ now' = now + 1
    /\ UNCHANGED <<hot, pack, litter, row, run, exec, plan, readers, activity, faults>>

NextMedia ==
    \/ \E r \in Readers : OpenLease(r) \/ CloseLease(r)
    \/ RequestRestore \/ RequestAgain
    \/ \E j \in Jobs : Decide(j) \/ Blocked(j) \/ Begin(j)
    \/ Operate
    \/ FailIO \/ LoseOwnership \/ Crash
    \/ Tick

MediaSpec == InitMedia /\ [][NextMedia]_mediaVars

\* Time passes, consumers finish and operations run; the retention job's pass
\* recurs every hour and finds the locks free again and again.
MediaFairness ==
    /\ WF_mediaVars(Tick) /\ WF_mediaVars(Operate)
    /\ \A r \in Readers : WF_mediaVars(CloseLease(r))
    /\ WF_mediaVars(Decide("media_retention"))
    /\ SF_mediaVars(Begin("media_retention"))
FairMediaSpec == MediaSpec /\ MediaFairness

-----------------------------------------------------------------------------
(* What retention promises. *)

Deletions == ({"initial_release", "restored_release", "purge"} \X Nat)
             \X {"hot", "pack"} \X Members
Row == [storage : {"hot", "archived", "expired"},
        op : {"idle", "archiving", "restoring", "purging"}, due : Nat \cup {None},
        intents : SUBSET Deletions, settled : SUBSET Deletions,
        present : BOOLEAN, released : BOOLEAN, restores : Nat,
        restoredAt : Nat \cup {None}, purgeHot : SUBSET Members,
        request : [id : Nat, status : {"none", "pending", "succeeded", "failed"}]]
Run == [status : {"none", "running", "interrupted", "partial", "succeeded", "failed"},
        resume : Nat]
Stages == {"check", "copy", "commit", "verify", "settle", "archive", "hot", "done"}

\* Every variable has its type; an operation that executes has a running run
\* and nobody has a lease beside it (_execute, _file_lock).
MediaTypeOK ==
    /\ now \in Nat /\ activity \in Nat \cup {None} /\ faults \in Nat
    /\ hot \subseteq Members /\ pack \subseteq Members /\ litter \subseteq {"hot", "pack"}
    /\ row \in Row /\ run \in [Tasks -> Run] /\ plan \in [Jobs -> Seq(Tasks)]
    /\ readers \subseteq Readers
    /\ \/ exec = NoExec
       \/ /\ exec \in [task : Tasks, job : Jobs, stage : Stages]
          /\ run[exec.task].status = "running"

\* Until its retention is over no member of the bundle can be lost, whichever
\* operation is interrupted where: it is hot until the archive is committed and
\* in the archive until a purge, and no purge begins before the deadline
\* (_perform_archive, _perform_purge).
OriginalsSurvive ==
    IF row.op = "purging" \/ row.storage = "expired" THEN IsDue
    ELSE IF Verified THEN pack = Members ELSE hot = Members

\* Whatever is missing is explained by a durable intent of its own, whatever
\* crashed between intent, unlink and settlement, and nothing is settled that was
\* not intended (_settle_members).
GoneIsExplained ==
    /\ \A m \in Members \ hot : \E d \in row.intents : d[2] = "hot" /\ d[3] = m
    /\ Verified => \A m \in Members \ pack : Deletion(Purge, "pack", m) \in row.intents
    /\ row.settled \subseteq row.intents

\* A consumer that got the originals has them to its last byte, also when the
\* deadline passes meanwhile (media_read_lease, media_retention.py:408-452).
LeaseKeepsOriginals == readers # {} => hot = Members /\ row.op # "purging"

\* Once deletion has begun nothing reopens it and no file comes back, also not by
\* a restore that was decided before (update_state, _perform_restore).
NothingComesBack ==
    [][row.op = "purging" \/ row.storage = "expired" =>
          /\ row'.op = "purging" \/ row'.storage = "expired"
          /\ row.storage = "expired" => row'.storage = "expired"
          /\ hot' \subseteq hot /\ pack' \subseteq pack /\ row'.due = row.due]_mediaVars

\* Originals that were restored stay hot for HotTime after the restore and after
\* their last reader, unless retention ends (policy restored_hot_hours,
\* tests/test_v8_media_retention.py:356-366).
RestoredStaysHot ==
    [][row.present /\ row.op # "purging" /\ ~(hot \subseteq hot') => now >= HotDue]_mediaVars

\* A request for a restore ends with the bundle: whoever waits is told that it is
\* too late (run_lifecycle_jobs, tests/test_v8_media_retention.py:395-412).
ExpiredEndsRequest == row.storage = "expired" => ~Pending

\* Originals whose retention is over are deleted in the end, unless a dead copy
\* left a staging file, which blocks the purge (run_lifecycle_jobs).
DueIsPurged == IsDue ~> (row.storage = "expired" \/ litter # {})

=============================================================================
