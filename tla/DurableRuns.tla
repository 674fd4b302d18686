---------------------------- MODULE DurableRuns ----------------------------
(***************************************************************************)
(* The fenced job runner, src/dcar_eval/v8/durable_runs.py.                *)
(*                                                                         *)
(* A run is one row of scheduler_runs together with its attempts, the rows *)
(* of scheduler_run_attempts.  A root run is keyed by (job, scope); its    *)
(* charge-day continuations <<root, 1>>, <<root, 2>>, ... inherit its      *)
(* checkpoint.  Every operation is one BEGIN IMMEDIATE transaction, so it  *)
(* is one atomic step; what a worker remembers between two transactions    *)
(* (its DurableClaim and the checkpoint it last read) is state of its own  *)
(* and may be stale.                                                       *)
(*                                                                         *)
(* Attempt ids and owner tokens are fresh for every attempt, so both are   *)
(* the attempt's number within its run.  A checkpoint is abstracted to how *)
(* many of its items are done, and details.complete to checkpoint.complete *)
(* (every writer sets the two together).  Times are whole seconds.         *)
(***************************************************************************)
EXTENDS Integers, Sequences, FiniteSets

CONSTANTS
    Roots,          \* job scopes: one root run each
    MaxSeq,         \* bound: continuations of a root
    Workers,        \* processes and threads that claim runs
    Identities,     \* the inputs a claimant may propose to freeze
    NoIdentity,     \* a run that does not exist has none
    LeaseSeconds,   \* LEASE_SECONDS
    Days,           \* charge business days, in calendar order
    ResumeDelays,   \* how far ahead callers put next_resume_at
    MaxAttempts,    \* bound: attempts of one run
    MaxNow,         \* bound: the clock
    MaxItems        \* bound: items of a checkpoint

ASSUME BoundsAreNaturals ==
    /\ MaxSeq \in Nat /\ MaxAttempts \in Nat /\ MaxNow \in Nat /\ MaxItems \in Nat
    /\ LeaseSeconds \in Nat /\ Days \subseteq Nat /\ ResumeDelays \subseteq Nat
ASSUME NoIdentityIsNone == NoIdentity \notin Identities

VARIABLES
    run,     \* [Runs -> Row]: scheduler_runs joined with its attempts
    claim,   \* [Workers -> Claim or NoClaim]: the DurableClaim a worker holds
    view,    \* [Workers -> items or Unread]: the checkpoint it last read or wrote
    now      \* the wall clock

vars == <<run, claim, view, now>>

Runs == Roots \X (0..MaxSeq)
IsRoot(r) == r[2] = 0

RunStatus == {"absent", "running", "partial", "succeeded", "failed", "interrupted"}
TerminalStatus == {"partial", "succeeded", "failed", "interrupted"}
AttemptStatus == {"running"} \cup TerminalStatus

NoTime == -1
Unread == -1

Attempt == [status : AttemptStatus, lease : Nat]

Row == [status   : RunStatus,
        identity : Identities \cup {NoIdentity},
        day      : Days \cup {NoTime},          \* charge_business_day
        items    : Nat,                         \* checkpoint progress
        complete : BOOLEAN,                     \* checkpoint.complete
        resumeAt : Nat \cup {NoTime},           \* next_resume_at
        owner    : Nat,                         \* details.owner.attempt_id
        attempts : Seq(Attempt)]

Claim == [run : Runs, attempt : Nat, identity : Identities]
NoClaim == [run |-> <<>>, attempt |-> 0, identity |-> NoIdentity]

AbsentRow == [status |-> "absent", identity |-> NoIdentity, day |-> NoTime,
              items |-> 0, complete |-> FALSE, resumeAt |-> NoTime,
              owner |-> 0, attempts |-> <<>>]

RunningAttempts(row) ==
    {n \in DOMAIN row.attempts : row.attempts[n].status = "running"}

-----------------------------------------------------------------------------
(* What the transactions do to one row. *)

\* durable_runs.py:186-214 and :361-379: a new attempt owns the row.
Claimed(row, t) ==
    [row EXCEPT !.status   = "running",
                !.owner    = Len(row.attempts) + 1,
                !.attempts = Append(row.attempts,
                                    [status |-> "running", lease |-> t + LeaseSeconds])]

\* The rows of the two tables a terminal or recovering transaction closes.
Closed(row, n, status) ==
    [row EXCEPT !.status = status, !.attempts[n].status = status]

\* Mutant of Recovered: the second of the two updates is lost.
RecoveredAttemptOnly(row, n) == [row EXCEPT !.attempts[n].status = "interrupted"]

\* durable_runs.py:286-297 and :473-485: the row keeps its latest checkpoint.
Recovered(row, n) == Closed(row, n, "interrupted")

\* durable_runs.py:68-79: the lease of the claimed attempt is renewed.
Renewed(row, n, t) == [row EXCEPT !.attempts[n].lease = t + LeaseSeconds]

\* durable_runs.py:248-259: the worker's own progress replaces the row's.
Checkpointed(row, items, complete) ==
    [row EXCEPT !.items = items, !.complete = complete]

\* durable_runs.py:426-447: the attempt and the run end with one status.
Finished(row, n, status, resumeAt) ==
    [Closed(row, n, status) EXCEPT !.resumeAt =
        IF status = "partial" THEN resumeAt ELSE NoTime]

-----------------------------------------------------------------------------
(* The fences. *)

\* Mutant of AssertOwner: some owner is running, not this one.
AssertRunning(row, c) == row.status = "running" /\ row.identity = c.identity

\* durable_runs.py:217-235: assert_owner, with the row read in the transaction.
AssertOwner(row, c) ==
    /\ row.status = "running"
    /\ c.attempt \in RunningAttempts(row)
    /\ row.owner = c.attempt
    /\ row.identity = c.identity

\* durable_runs.py:73-77: the WHERE clause of heartbeat.
LeaseHeld(row, c, t) ==
    /\ c.attempt \in RunningAttempts(row)
    /\ row.attempts[c.attempt].lease >= t

\* Mutant of RootClaimable: whatever does not run is claimed.
ClaimableUnlessRunning(row, t) == row.status \notin {"absent", "running"}

\* durable_runs.py:178-185: when an existing root can be claimed.
RootClaimable(row, t) ==
    \/ row.status = "interrupted"
    \/ row.status = "partial" /\ ~row.complete
                              /\ row.resumeAt # NoTime /\ t >= row.resumeAt

\* durable_runs.py:352-359: when an existing continuation can be claimed.
ChildClaimable(row, t) ==
    /\ row.status \in {"partial", "interrupted"}
    /\ ~row.complete
    /\ row.status = "partial" => row.resumeAt <= t

\* The run whose checkpoint a new continuation copies, if it may be born now.
Predecessor(r) == <<r[1], r[2] - 1>>

\* durable_runs.py:310-317: the root exists and does not run.
RootOf(r) == <<r[1], 0>>
RootYielded(rows, r) == rows[RootOf(r)].status \notin {"absent", "running"}

\* durable_runs.py:329-351: birth of continuation r on charge day d.
ChildBirth(rows, r, d) ==
    LET prev == rows[Predecessor(r)]
    IN  /\ rows[r].status = "absent"
        /\ prev.status # "absent"
        /\ ~IsRoot(Predecessor(r)) => prev.status # "running" /\ prev.day <= d
        /\ ~prev.complete

\* The row a birth inserts; it is claimed in the same transaction.
NewRow(id, d, items) ==
    [AbsentRow EXCEPT !.identity = id, !.day = d, !.items = items]

\* Mutant of NewChildRow: a continuation does not inherit the frozen scope.
NewChildRowUnscoped(rows, r, d) == NewRow(NoIdentity, d, rows[Predecessor(r)].items)

\* A continuation keeps the root's frozen scope and its predecessor's checkpoint.
NewChildRow(rows, r, d) ==
    NewRow(rows[RootOf(r)].identity, d, rows[Predecessor(r)].items)

\* The attempts recover_expired_leases selects.
Expired(row, t) == {n \in RunningAttempts(row) :
                      row.status = "running" /\ row.attempts[n].lease < t}

RecoveredRows(rows, scope, t) ==
    [r \in Runs |-> IF r \in scope /\ Expired(rows[r], t) # {}
                   THEN Recovered(rows[r], CHOOSE n \in Expired(rows[r], t) : TRUE)
                   ELSE rows[r]]

-----------------------------------------------------------------------------
Owns(w) == claim[w] # NoClaim /\ AssertOwner(run[claim[w].run], claim[w])

Take(w, r, row) ==
    /\ run' = [run EXCEPT ![r] = row]
    /\ claim' = [claim EXCEPT ![w] = [run |-> r, attempt |-> row.owner,
                                      identity |-> row.identity]]
    /\ view' = [view EXCEPT ![w] = Unread]
    /\ UNCHANGED now

Drop(w) ==
    /\ claim' = [claim EXCEPT ![w] = NoClaim]
    /\ view' = [view EXCEPT ![w] = Unread]

\* Bounds: a run is claimed MaxAttempts times at most, and no lease outlives MaxNow.
MayClaim(r) == Len(run[r].attempts) < MaxAttempts
MayLease == now + LeaseSeconds < MaxNow

Init ==
    /\ run = [r \in Runs |-> AbsentRow]
    /\ claim = [w \in Workers |-> NoClaim]
    /\ view = [w \in Workers |-> Unread]
    /\ now = 0

\* claim_run on a scope nobody has claimed: the claimant's inputs are frozen.
ClaimNewRun(w, r, id) ==
    /\ claim[w] = NoClaim /\ IsRoot(r) /\ MayClaim(r) /\ MayLease
    /\ run[r].status = "absent"
    /\ Take(w, r, Claimed(NewRow(id, NoTime, 0), now))

\* claim_run on an existing scope: the inputs already frozen are used.
ClaimRun(w, r) ==
    /\ claim[w] = NoClaim /\ IsRoot(r) /\ MayClaim(r) /\ MayLease
    /\ RootClaimable(run[r], now)
    /\ Take(w, r, Claimed(run[r], now))

\* claim_child for a sequence that does not exist yet.
ClaimNewChild(w, r, d) ==
    /\ claim[w] = NoClaim /\ ~IsRoot(r) /\ MayClaim(r) /\ MayLease
    /\ RootYielded(run, r)
    /\ ChildBirth(run, r, d)
    /\ Take(w, r, Claimed(NewChildRow(run, r, d), now))

\* claim_child for an existing continuation.
ClaimChild(w, r) ==
    /\ claim[w] = NoClaim /\ ~IsRoot(r) /\ MayClaim(r) /\ MayLease
    /\ RootYielded(run, r)
    /\ ChildClaimable(run[r], now)
    /\ Take(w, r, Claimed(run[r], now))

\* get_run: an unlocked read, in a transaction of its own after the claim.
GetRun(w) ==
    /\ claim[w] # NoClaim
    /\ view' = [view EXCEPT ![w] = run[claim[w].run].items]
    /\ UNCHANGED <<run, claim, now>>

\* heartbeat from the worker or its lease thread.
Heartbeat(w) ==
    /\ claim[w] # NoClaim /\ MayLease
    /\ LeaseHeld(run[claim[w].run], claim[w], now)
    /\ run' = [run EXCEPT ![claim[w].run] = Renewed(@, claim[w].attempt, now)]
    /\ UNCHANGED <<claim, view, now>>

\* Mutant of Checkpoint: the row is running, so the claim is not looked at.
CheckpointUnfenced(w, complete) ==
    LET r == claim[w].run
        done == IF complete THEN view[w] ELSE view[w] + 1
    IN  /\ claim[w] # NoClaim /\ view[w] # Unread /\ MayLease /\ done <= MaxItems
        /\ run[r].status = "running" /\ ~run[r].complete
        /\ run' = [run EXCEPT ![r] = Checkpointed(@, done, complete)]
        /\ view' = [view EXCEPT ![w] = done]
        /\ UNCHANGED <<claim, now>>

\* checkpoint: one more item done, or the whole scope complete.
Checkpoint(w, complete) ==
    LET r == claim[w].run
        done == IF complete THEN view[w] ELSE view[w] + 1
    IN  /\ claim[w] # NoClaim /\ view[w] # Unread /\ MayLease /\ done <= MaxItems
        /\ AssertOwner(run[r], claim[w])
        /\ LeaseHeld(run[r], claim[w], now)
        /\ ~run[r].complete
        /\ run' = [run EXCEPT ![r] =
                      Checkpointed(Renewed(@, claim[w].attempt, now), done, complete)]
        /\ view' = [view EXCEPT ![w] = done]
        /\ UNCHANGED <<claim, now>>

\* Mutant of Finish: the status is not compared with the checkpoint.
FinishAnyStatus(w, status, delay) ==
    LET r == claim[w].run
    IN  /\ claim[w] # NoClaim
        /\ AssertOwner(run[r], claim[w])
        /\ run' = [run EXCEPT ![r] =
                      Finished(@, claim[w].attempt, status, now + delay)]
        /\ Drop(w)
        /\ UNCHANGED now

\* finish_run: owner fence only, an expired lease does not refuse it.
Finish(w, status, delay) ==
    LET r == claim[w].run
    IN  /\ claim[w] # NoClaim
        /\ AssertOwner(run[r], claim[w])
        /\ (status = "succeeded") = run[r].complete
        /\ run' = [run EXCEPT ![r] =
                      Finished(@, claim[w].attempt, status, now + delay)]
        /\ Drop(w)
        /\ UNCHANGED now

\* The process dies, or LostOwnership or another error unwinds the worker.
Abandon(w) ==
    /\ claim[w] # NoClaim
    /\ Drop(w)
    /\ UNCHANGED <<run, now>>

\* recover_expired_leases over the runs of the caller's scope.
RecoverExpiredLeases(scope) ==
    /\ \E r \in scope : Expired(run[r], now) # {}
    /\ run' = RecoveredRows(run, scope, now)
    /\ UNCHANGED <<claim, view, now>>

\* recover_run: a restarted writer or a parent scan takes a run from its
\* attempt n, which it read earlier; the lease plays no part.
RecoverRun(r, n) ==
    /\ run[r].status = "running" /\ n \in RunningAttempts(run[r])
    /\ run' = [run EXCEPT ![r] = Recovered(@, n)]
    /\ UNCHANGED <<claim, view, now>>

Tick ==
    /\ now < MaxNow
    /\ now' = now + 1
    /\ UNCHANGED <<run, claim, view>>

Next ==
    \/ \E w \in Workers, r \in Runs :
          \/ \E id \in Identities : ClaimNewRun(w, r, id)
          \/ ClaimRun(w, r)
          \/ \E d \in Days : ClaimNewChild(w, r, d)
          \/ ClaimChild(w, r)
    \/ \E w \in Workers :
          \/ GetRun(w)
          \/ Heartbeat(w)
          \/ \E complete \in BOOLEAN : Checkpoint(w, complete)
          \/ \E status \in TerminalStatus, delay \in ResumeDelays : Finish(w, status, delay)
          \/ Abandon(w)
    \/ \E scope \in SUBSET Runs : RecoverExpiredLeases(scope)
    \/ \E r \in Runs, n \in 1..MaxAttempts : RecoverRun(r, n)
    \/ Tick

Spec == Init /\ [][Next]_vars

\* The scheduler recovers expired leases at every dispatch, and time passes.
Fairness == WF_vars(Tick) /\ WF_vars(RecoverExpiredLeases(Runs))

FairSpec == Spec /\ Fairness

-----------------------------------------------------------------------------
(* What the runner promises. *)

\* Every variable has its type; rows, claims and views stay within their tables.
TypeOK ==
    /\ run \in [Runs -> Row]
    /\ claim \in [Workers -> Claim \cup {NoClaim}]
    /\ view \in [Workers -> Nat \cup {Unread}]
    /\ now \in Nat

\* The two tables agree after every transaction: a run is running exactly while
\* its latest attempt is, that attempt is the one details.owner names, and no
\* other attempt of the run is (claims, finishes and both recoveries each write
\* the tables separately; durable_runs.py:186-214, :286-297, :406-486).
OneRunningAttempt ==
    \A r \in Runs :
        /\ run[r].owner = Len(run[r].attempts)
        /\ RunningAttempts(run[r]) =
              IF run[r].status = "running" THEN {run[r].owner} ELSE {}

\* Whatever was claimed, recovered and re-claimed before, at most one worker
\* passes the owner fence of a run (assert_owner, durable_runs.py:217-235).
OneOwner ==
    \A v, w \in Workers : Owns(v) /\ Owns(w) /\ claim[v].run = claim[w].run => v = w

\* A worker that passes the owner fence has not been overtaken: the checkpoint in
\* its memory is the row's.  Without it a worker that lost its lease could write
\* back an older checkpoint (durable_runs.py:238-260, read by get_run :88-95).
OwnerViewIsCurrent ==
    \A w \in Workers :
        Owns(w) /\ view[w] # Unread => view[w] = run[claim[w].run].items

\* Continuations of a root are born consecutively, in charge-day order, and keep
\* the scope the root froze (claim_child, durable_runs.py:301-379).
ContinuationChain ==
    \A r \in Runs : ~IsRoot(r) /\ run[r].status # "absent" =>
        /\ run[Predecessor(r)].status # "absent"
        /\ run[r].identity = run[RootOf(r)].identity
        /\ ~IsRoot(Predecessor(r)) => run[Predecessor(r)].day <= run[r].day

\* No interleaving of claims, recoveries and finishes takes progress back: items
\* never shrink, completion is never revoked and a frozen identity never changes,
\* also across attempts (checkpoint, claim_run and the two recoveries).
ProgressKept ==
    [][\A r \in Runs : run[r].status # "absent" =>
          /\ run'[r].items >= run[r].items
          /\ run[r].complete => run'[r].complete /\ run'[r].items = run[r].items
          /\ run'[r].identity = run[r].identity]_vars

\* History is append-only: a closed attempt keeps its record and no attempt is
\* lost; a succeeded or failed run is never claimed, recovered or finished again
\* (the attempts' part is also a trigger of the table: storage.py:1467).
HistoryKept ==
    [][\A r \in Runs :
          /\ \A n \in DOMAIN run[r].attempts :
                /\ n \in DOMAIN run'[r].attempts
                /\ run[r].attempts[n].status # "running" =>
                      run'[r].attempts[n] = run[r].attempts[n]
          /\ run[r].status \in {"succeeded", "failed"} => run'[r] = run[r]]_vars

\* A run whose worker is gone does not stay running: recovery frees it, so that
\* the next claim can go on (recover_expired_leases, durable_runs.py:263-298).
OrphanIsRecovered ==
    \A r \in Runs :
        (run[r].status = "running" /\ \A w \in Workers : claim[w].run # r)
            ~> run[r].status # "running"

-----------------------------------------------------------------------------
(* The contract of FencedJobs, read off the rows. *)

PhaseOf(row) ==
    CASE row.status = "absent" -> "unborn"
      [] row.status = "running" -> "held"
      [] row.status \in {"partial", "interrupted"} -> "idle"
      [] OTHER -> row.status

Jobs == INSTANCE FencedJobs WITH
    Jobs   <- Runs,
    Amounts <- 0..MaxItems,
    phase  <- [r \in Runs |-> PhaseOf(run[r])],
    grants <- [r \in Runs |-> Len(run[r].attempts)],
    work   <- [r \in Runs |-> run[r].items],
    done   <- [r \in Runs |-> run[r].complete]

\* The two tables, with all their fences and recoveries, implement the abstract
\* fenced job (the module's docstring: "Fenced durable jobs").
ImplementsFencedJobs == Jobs!JobSpec

=============================================================================
