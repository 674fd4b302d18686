---------------------------- MODULE CaptureWork ----------------------------
(***************************************************************************)
(* The durable capture queue, src/dcar_eval/v8/capture_runtime.py, on top  *)
(* of the fenced runs of DurableRuns.                                      *)
(*                                                                         *)
(* A work item is a row of capture_work_items.  Executing it takes two     *)
(* records in two tables: an attempt of one of the item's runs (its root   *)
(* on the day of its data, a charge-day continuation afterwards) and the   *)
(* item's own state, owner token and lease.  run, claim and now are those  *)
(* of DurableRuns; its rows change here only through the transactions of   *)
(* the queue, several of them composed in one.  view stays Unread: the     *)
(* queue never reads a checkpoint outside a transaction.                   *)
(*                                                                         *)
(* What a provider answered, and what _readiness thinks of an item, are    *)
(* nondeterministic.  Statistics batches (capture_batches.py) and the      *)
(* intake pages (account_preparation.py) have entry points of their own    *)
(* and are left out.                                                       *)
(***************************************************************************)
EXTENDS DurableRuns

CONSTANTS
    DayLength,   \* the clock's units in a business day
    RetryBase,   \* RETRY_BACKOFF_BASE_SECONDS, also the continuation delay
    Scope,       \* the frozen identity of a work item
    ClockLag     \* bound: age of the dispatch clock read before the write lock

ASSUME QueueConstants ==
    /\ DayLength \in Nat \ {0} /\ RetryBase \in Nat /\ ClockLag \in Nat
    /\ Scope \in Identities
    /\ \A t \in 0..MaxNow : t \div DayLength \in Days

VARIABLE work   \* [Roots -> Item]: capture_work_items

captureVars == <<run, claim, view, now, work>>

ItemState == {"absent", "runnable", "running", "provider_blocked",
              "budget_deferred", "paid_identity_hold", "terminal"}
Waiting == {"provider_blocked", "budget_deferred"}

NoOwner == <<>>

Item == [state  : ItemState,
         owner  : (Runs \X Nat) \cup {NoOwner},   \* owner_token
         lease  : Nat,                            \* lease_expires_at
         due    : Nat,                            \* due_at
         day    : Days \cup {NoTime},             \* data_business_day
         nudged : BOOLEAN]   \* due_at was set by a command, not by the last result

AbsentItem == [state |-> "absent", owner |-> NoOwner, lease |-> 0, due |-> 0,
               day |-> NoTime, nudged |-> FALSE]

Today(t) == t \div DayLength

-----------------------------------------------------------------------------
(* Lease recovery: the attempts first, then the items nobody executes.     *)

TokenRuns(rows, owner) ==
    owner # NoOwner /\ owner[2] \in RunningAttempts(rows[owner[1]])

\* Mutant of StaleItem: the attempt behind the token is not looked at.
LapsedItem(item, rows, t) == item.state = "running" /\ item.lease <= t

\* Mutant of StaleItem: only the items in state 'leased', where none is.
LeasedItem(item, rows, t) ==
    item.state = "leased" /\ item.lease <= t /\ ~TokenRuns(rows, item.owner)

\* capture_runtime.py:1063-1071: the WHERE clause of _recover_work.
StaleItem(item, rows, t) ==
    item.state = "running" /\ item.lease <= t /\ ~TokenRuns(rows, item.owner)

RecoveredItems(items, rows, t) ==
    [i \in Roots |-> IF StaleItem(items[i], rows, t)
                     THEN [items[i] EXCEPT !.state = "runnable", !.owner = NoOwner]
                     ELSE items[i]]

-----------------------------------------------------------------------------
(* _claim_work: which run of the item's family a dispatch claims.          *)

RootRun(i) == <<i, 0>>
Children(rows, i) == {k \in 1..MaxSeq : rows[<<i, k>>].status # "absent"}

\* An item that first runs after its data day gets its root first; the root
\* yields at once, in the same transaction, and today's continuation is charged.
Anchored(rows, i, day, t) ==
    [r \in Runs |->
        IF r = RootRun(i) /\ rows[r].status = "absent" /\ Today(t) # day
        THEN Finished(Claimed(NewRow(Scope, NoTime, 0), t), 1, "partial", t)
        ELSE rows[r]]

\* Mutant of ContinuationFor: every dispatch of a later day opens a new run.
FreshContinuation(rows, i, today) == Cardinality(Children(rows, i)) + 1

\* Today's continuation if there is one, else the next free sequence number.
ContinuationFor(rows, i, today) ==
    LET todays == {k \in Children(rows, i) : rows[<<i, k>>].day = today}
    IN  IF todays # {} THEN CHOOSE k \in todays : \A j \in todays : j <= k
                       ELSE Cardinality(Children(rows, i)) + 1

\* Mutant of RunFor: the root is claimed again whatever the day.
RunAlwaysRoot(rows, i, day, t) == RootRun(i)

RunFor(rows, i, day, t) ==
    IF Today(t) = day THEN RootRun(i) ELSE <<i, ContinuationFor(rows, i, Today(t))>>

\* claim_run and claim_child return a claim for run r.
Claimable(rows, r, t) ==
    \/ IsRoot(r) /\ (rows[r].status = "absent" \/ RootClaimable(rows[r], t))
    \/ ~IsRoot(r) /\ RootYielded(rows, r)
                  /\ (ChildBirth(rows, r, Today(t)) \/ ChildClaimable(rows[r], t))

RowToClaim(rows, r, t) ==
    IF rows[r].status # "absent" THEN rows[r]
    ELSE IF IsRoot(r) THEN NewRow(Scope, NoTime, 0)
    ELSE NewChildRow(rows, r, Today(t))

-----------------------------------------------------------------------------
InitCapture == Init /\ work = [i \in Roots |-> AbsentItem]

\* What _readiness may say, and what a blocked item is due for.
Verdicts == Waiting \cup {"paid_identity_hold"}
BlockedItem(item, verdict, t) ==
    [item EXCEPT !.state = verdict,
                 !.due = IF verdict \in Waiting THEN t + RetryBase ELSE @]

\* _enqueue from the planner or a command.
Enqueue(i, verdict) ==
    /\ work[i].state = "absent"
    /\ work' = [work EXCEPT ![i] = [AbsentItem EXCEPT !.state = verdict, !.due = now,
                                                      !.day = Today(now)]]
    /\ UNCHANGED <<run, claim, view, now>>

\* The claim is taken and the item carries its token and lease.
StartExecution(w, r, row, rows, items) ==
    /\ run' = [rows EXCEPT ![r] = row]
    /\ claim' = [claim EXCEPT ![w] = [run |-> r, attempt |-> row.owner,
                                      identity |-> row.identity]]
    /\ work' = [items EXCEPT ![r[1]] =
                   [@ EXCEPT !.state = "running", !.owner = <<r, row.owner>>,
                             !.lease = now + LeaseSeconds, !.nudged = FALSE]]

\* The first transaction of _run_single_prepared: recover, select a due item
\* (the lanes decide which), ask for its readiness, and claim one of its runs.
\* at is the clock read before the write lock, now the one read inside it.
DispatchTo(w, i, rows, items, at) ==
    /\ items[i].state = "runnable" /\ items[i].due <= at
    /\ \/ \* _readiness refused it: no claim, the item waits
          /\ \E verdict \in Verdicts :
                work' = [items EXCEPT ![i] = BlockedItem(@, verdict, now)]
          /\ run' = rows /\ UNCHANGED claim
       \/ \* a confirmed quote that expired before any claim
          /\ work' = [items EXCEPT ![i].state = "terminal"]
          /\ run' = rows /\ UNCHANGED claim
       \/ \E anchored \in {Anchored(rows, i, items[i].day, now)} :
          \E r \in Runs \cap {RunFor(anchored, i, items[i].day, now)} :
             \/ /\ Claimable(anchored, r, now) /\ MayClaim(r) /\ MayLease
                /\ \E row \in {Claimed(RowToClaim(anchored, r, now), now)} :
                      StartExecution(w, r, row, anchored, items)
             \/ \* claim_run or claim_child returned None
                /\ ~Claimable(anchored, r, now)
                /\ IsRoot(r) \/ RootYielded(anchored, r)
                /\ run' = anchored /\ work' = items /\ UNCHANGED claim

DispatchIdle(rows, items, at) ==
    /\ \A i \in Roots : ~(items[i].state = "runnable" /\ items[i].due <= at)
    /\ run' = rows /\ work' = items /\ UNCHANGED claim

DispatchAt(w, rows, items, at) ==
    /\ claim[w] = NoClaim
    /\ \/ \E i \in Roots : DispatchTo(w, i, rows, items, at)
       \/ DispatchIdle(rows, items, at)
    /\ UNCHANGED <<view, now>>

Dispatch(w) ==
    \E at \in {t \in 0..now : now - t <= ClockLag} :
    \E rows \in {RecoveredRows(run, Runs, at)} :
    \E items \in {RecoveredItems(work, rows, at)} :
        DispatchAt(w, rows, items, at)

\* A manual or repair dispatch names its item and recovers nothing.
DispatchNamed(w, i) ==
    /\ claim[w] = NoClaim
    /\ DispatchTo(w, i, run, work, now)
    /\ UNCHANGED <<view, now>>

ItemLeaseHeld(item, c, t) ==
    item.state = "running" /\ item.owner = <<c.run, c.attempt>> /\ item.lease >= t

\* _renew_work_lease: both fences, or LostOwnership and neither.
BothFencesHold(w) ==
    LET c == claim[w]
    IN  /\ c # NoClaim
        /\ AssertOwner(run[c.run], c) /\ LeaseHeld(run[c.run], c, now)
        /\ ItemLeaseHeld(work[c.run[1]], c, now)

\* The renewal at the start of an execution and of its lease thread.
RenewWorkLease(w) ==
    /\ BothFencesHold(w) /\ MayLease
    /\ run' = [run EXCEPT ![claim[w].run] = Renewed(@, claim[w].attempt, now)]
    /\ work' = [work EXCEPT ![claim[w].run[1]].lease = now + LeaseSeconds]
    /\ UNCHANGED <<claim, view, now>>

\* Mutant of RenewAttempt: an expired lease is renewed as well.
RenewLapsedAttempt(w) ==
    LET c == claim[w]
    IN  /\ c # NoClaim /\ MayLease /\ AssertOwner(run[c.run], c)
        /\ run' = [run EXCEPT ![c.run] = Renewed(@, c.attempt, now)]
        /\ UNCHANGED <<claim, view, now, work>>

\* renew_paid_owner_lease, in the claim and at the send boundary of a paid fetch: the
\* attempt's lease alone, and only while it holds.
RenewAttempt(w) ==
    LET c == claim[w]
    IN  /\ c # NoClaim /\ MayLease
        /\ AssertOwner(run[c.run], c) /\ LeaseHeld(run[c.run], c, now)
        /\ run' = [run EXCEPT ![c.run] = Renewed(@, c.attempt, now)]
        /\ UNCHANGED <<claim, view, now, work>>

\* What an execution amounts to: the item's next state, the run's status, when
\* the item is due again and when the run may be claimed again.
Outcomes == {"complete", "continuation", "hold", "incomplete"} \cup Waiting

ItemAfter(outcome) ==
    CASE outcome \in {"complete", "incomplete"} -> "terminal"
      [] outcome = "continuation"               -> "runnable"
      [] outcome = "hold"                       -> "paid_identity_hold"
      [] OTHER                                  -> outcome

StatusAfter(outcome) ==
    CASE outcome = "complete"   -> "succeeded"
      [] outcome = "incomplete" -> "failed"
      [] OTHER                  -> "partial"

\* Mutant of DueAfter: the item is due before its run may be claimed.
DueAtOnce(item, outcome, backoff) ==
    CASE outcome = "continuation" -> now
      [] outcome \in Waiting      -> now + backoff
      [] OTHER                    -> item.due

DueAfter(item, outcome, backoff) ==
    CASE outcome = "continuation" -> now + RetryBase
      [] outcome \in Waiting      -> now + backoff
      [] OTHER                    -> item.due

ResumeAfter(outcome, backoff) ==
    IF outcome \in Waiting THEN now + backoff ELSE now + RetryBase

\* Mutant of Settle: the run is finished, its item is left for recovery.
SettleRunOnly(w, outcome, backoff) ==
    LET c == claim[w]
        row == Checkpointed(Renewed(run[c.run], c.attempt, now),
                            run[c.run].items, outcome = "complete")
    IN  /\ BothFencesHold(w)
        /\ run' = [run EXCEPT ![c.run] =
                      Finished(row, c.attempt, StatusAfter(outcome),
                               ResumeAfter(outcome, backoff))]
        /\ Drop(w)
        /\ UNCHANGED <<now, work>>

\* The last transaction of _run_single_prepared.
Settle(w, outcome, backoff) ==
    LET c == claim[w]
        item == work[c.run[1]]
        row == Checkpointed(Renewed(run[c.run], c.attempt, now),
                            run[c.run].items, outcome = "complete")
    IN  /\ BothFencesHold(w)
        /\ work' = [work EXCEPT ![c.run[1]] =
                       [item EXCEPT !.state = ItemAfter(outcome), !.owner = NoOwner,
                                    !.due = DueAfter(item, outcome, backoff)]]
        /\ run' = [run EXCEPT ![c.run] =
                      Finished(row, c.attempt, StatusAfter(outcome),
                               ResumeAfter(outcome, backoff))]
        /\ Drop(w)
        /\ UNCHANGED now

\* The worker dies or loses a fence; nothing is written.
AbandonWork(w) == Abandon(w) /\ UNCHANGED work

SettleWork(w) ==
    \E outcome \in Outcomes, backoff \in ResumeDelays : Settle(w, outcome, backoff)

EndExecution(w) == SettleWork(w) \/ AbandonWork(w)

\* capture_quality.py:163-176 (maintenance_tick) recovers the attempts and not the items.
RecoverAttempts ==
    /\ \E r \in Runs : Expired(run[r], now) # {}
    /\ run' = RecoveredRows(run, Runs, now)
    /\ UNCHANGED <<claim, view, now, work>>

\* recover_interrupted_scheduler_runs: every running attempt, whatever its lease.
InterruptedRows(rows) ==
    [r \in Runs |-> IF RunningAttempts(rows[r]) # {}
                    THEN Recovered(rows[r], CHOOSE n \in RunningAttempts(rows[r]) : TRUE)
                    ELSE rows[r]]

\* A new writer process: the workers of the old one are gone, their attempts end and
\* the items are left to the next dispatch.  Runs and attempts that do not agree on
\* what runs would stop the start.
RestartWriter ==
    /\ \A r \in Runs : run[r].status = "running" <=> RunningAttempts(run[r]) # {}
    /\ run' = InterruptedRows(run)
    /\ claim' = [w \in Workers |-> NoClaim]
    /\ UNCHANGED <<view, now, work>>

\* Mutant of Reconsider: held items are asked about again.
ReconsiderHeld(i) ==
    /\ work[i].state \notin {"absent", "terminal"} /\ work[i].due <= now
    /\ \/ work' = [work EXCEPT ![i].state = "runnable"]
       \/ \E verdict \in Verdicts : work' = [work EXCEPT ![i] = BlockedItem(@, verdict, now)]
    /\ UNCHANGED <<run, claim, view, now>>

\* The planner asks again about the waiting items that are due (_plan_due).
Reconsider(i) ==
    /\ work[i].state \in Waiting /\ work[i].due <= now
    /\ \/ work' = [work EXCEPT ![i].state = "runnable"]
       \/ \E verdict \in Verdicts : work' = [work EXCEPT ![i] = BlockedItem(@, verdict, now)]
    /\ UNCHANGED <<run, claim, view, now>>

Nudged(item, state) == [item EXCEPT !.state = state, !.due = now, !.nudged = TRUE]

\* enqueue_manual_work on an item that exists and does not run.
EnqueueManual(i, verdict) ==
    /\ work[i].state \in {"runnable"} \cup Waiting
    /\ work' = [work EXCEPT ![i] = Nudged(@, verdict)]
    /\ UNCHANGED <<run, claim, view, now>>

\* wake_consumers: the items that waited for a shared request's owner.
WakeConsumers(S) ==
    /\ S # {} /\ \A i \in S : work[i].state \in {"runnable", "provider_blocked"}
    /\ work' = [i \in Roots |-> IF i \in S THEN Nudged(work[i], "runnable") ELSE work[i]]
    /\ UNCHANGED <<run, claim, view, now>>

\* enqueue_authorized_compensation: the one way out of a paid identity hold.
EnqueueCompensation(i) ==
    /\ work[i].state \in {"paid_identity_hold", "runnable"} \cup Waiting
    /\ work' = [work EXCEPT ![i] = Nudged(@, "runnable")]
    /\ UNCHANGED <<run, claim, view, now>>

CaptureTick == Tick /\ UNCHANGED work

\* The planner, the commands, the dispatcher and the lease threads.
QueueStep ==
    \/ \E i \in Roots :
          \/ \E verdict \in Verdicts \cup {"runnable"} : Enqueue(i, verdict)
          \/ Reconsider(i)
          \/ \E verdict \in Verdicts \cup {"runnable"} : EnqueueManual(i, verdict)
          \/ EnqueueCompensation(i)
    \/ \E w \in Workers :
          \/ Dispatch(w)
          \/ \E i \in Roots : DispatchNamed(w, i)
          \/ RenewWorkLease(w)
    \/ \E S \in SUBSET Roots : WakeConsumers(S)
    \/ RecoverAttempts
    \/ CaptureTick

NextCapture ==
    \/ QueueStep
    \/ \E w \in Workers : RenewAttempt(w) \/ EndExecution(w)
    \/ RestartWriter

CaptureSpec == InitCapture /\ [][NextCapture]_captureVars

\* The rolling dispatcher keeps dispatching, an execution ends one way or the
\* other (provider calls time out), and time passes.
CaptureFairness ==
    /\ WF_captureVars(CaptureTick)
    /\ \A w \in Workers :
          /\ WF_captureVars(Dispatch(w))
          /\ WF_captureVars(EndExecution(w))

FairCaptureSpec == CaptureSpec /\ CaptureFairness

-----------------------------------------------------------------------------
CaptureTypeOK == TypeOK /\ work \in [Roots -> Item]

\* The two tables never part: whatever run of an item's family is running, the
\* item is running too and holds exactly that attempt's token.  So at most one
\* run of a family runs, a due item is free to be claimed, and claim_child never
\* meets a running root or predecessor (capture_runtime.py:1063-1071, :1347, :1407).
AttemptHoldsItem ==
    \A r \in Runs : run[r].status = "running" =>
        /\ work[r[1]].state = "running"
        /\ work[r[1]].owner = <<r, run[r].owner>>

\* At most one worker passes the owner fence of an item, over all runs of its
\* family: recovery and re-dispatch never leave two executions that may write.
OneExecutor ==
    \A v, w \in Workers :
        Owns(v) /\ Owns(w) /\ claim[v].run[1] = claim[w].run[1] => v = w

\* A completed run's item is terminal and stays out of the queue: no recovery,
\* planner pass or command puts it back (capture_runtime.py:1407-1421).
CompletedIsTerminal ==
    \A r \in Runs : run[r].complete => work[r[1]].state = "terminal"

\* A due item that no command moved forward can be claimed: due_at and the run's
\* next_resume_at are set together and agree also across a charge-day change.
\* Otherwise the oldest due item answers "not_due_or_owned" to every dispatch and
\* hides the items behind it (capture_runtime.py:1344-1346, :1400-1421).
DueIsClaimable ==
    \A i \in Roots :
        work[i].state = "runnable" /\ work[i].due <= now /\ ~work[i].nudged =>
            LET rows == Anchored(run, i, work[i].day, now)
                r == RunFor(rows, i, work[i].day, now)
            IN  r \in Runs => Claimable(rows, r, now)

\* An item has at most one continuation for a business day and they follow the
\* calendar, whatever crashed or was re-claimed in between (_claim_work).
OneContinuationPerDay ==
    \A i \in Roots : \A j, k \in Children(run, i) :
        j < k => run[<<i, j>>].day < run[<<i, k>>].day

\* Every execution is charged to the day it starts on: the root only on the day of
\* the item's data, afterwards that day's continuation (_claim_work).
ChargedOnItsDay ==
    [][\A r \in Runs : run'[r].status = "running" /\ run'[r].owner # run[r].owner =>
          (IF IsRoot(r) THEN work[r[1]].day ELSE run'[r].day) = Today(now)]_captureVars

\* A paid identity hold waits for a command: no recovery, planner pass, wake-up or
\* worker takes an item out of it (the docstring at capture_runtime.py:187-192).
HoldsAwaitCommand ==
    [][\A i \in Roots :
          work[i].state = "paid_identity_hold" /\ work'[i].state # "paid_identity_hold"
              => work'[i].nudged /\ work'[i].due = now]_captureVars

\* An item that was handed to no live worker returns to the queue: neither a crash
\* before the first renewal nor a recovery of the attempt alone strands it.
AbandonedIsRequeued ==
    \A i \in Roots :
        (work[i].state = "running" /\ \A w \in Workers : claim[w] = NoClaim
                                          \/ claim[w].run[1] # i)
            ~> work[i].state # "running"

=============================================================================
