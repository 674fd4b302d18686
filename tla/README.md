# A verification development of the DcarAIGC workbench

TLA+ models, TLC runs and TLAPS proofs about the second generation (`v8`) of the
workbench: the durable work, the money and the locks of its writer process.
Paths below are relative to `src/src/dcar_eval/v8/` unless they name another root.

## 1. The system

DcarAIGC is a local, single-user workbench that plans the capture of accounts and
videos, buys data from a paid provider (TikHub), evaluates and archives it, and
publishes read-only snapshots. One writer process (port 8766) owns the SQLite
database and runs the scheduler; a read-only service (8768), the web client (4174)
and a login gateway (4173) never write it. Inside the writer, threads of the
scheduler, of capture executors, of lease renewals and of HTTP commands compete for
one process-wide write lock, and every durable change is one SQLite transaction under
that lock. A network call is never made inside a transaction, so everything that spans
a call is a protocol of several transactions between which the process may die, the
lease may expire, and somebody else may go on.

### Components

| Component | Keeps | Operations | Hard behaviour | Correct when |
|---|---|---|---|---|
| Fenced durable runs, `durable_runs.py` | `scheduler_runs`, `scheduler_run_attempts` | claim, claim child, heartbeat, get, checkpoint, finish, recover | expiry races late owners; two tables | one owner; progress and history are kept |
| Capture work queue, `capture_runtime.py` | `capture_work_items`, two leases | enqueue, dispatch, renew, settle, recover, reconsider, commands | item and attempt in two records; day change | never two executions; nothing abandoned stays; holds wait |
| Paid provider fetch, `capture.py`, `paid_dispatch.py` | `fetch_slots`, `provider_usage`, dispatch chains, budget, admissions, paid-scope claims, send files | claim, send, call, answer, cleanup, recover, settle, compensate | purchase in three steps around a call; late answers; crash between file and commit | nothing bought twice; every account agrees |
| Write lock, `storage.py` `_FairWriteLock` | queues of three priorities, two streaks | acquire, release | wake-ups, time-outs, starvation | bounded overtaking, no lost wake-up |
| Provider budgets, `provider_budget.py` | budget periods, quotas, circuits | reserve, check, renew owner lease | period change, quotas | limits hold at reservation and send |
| Settlements and compensations, `usage_settlements.py`, `capture_compensation.py` | immutable settlements, grants | reconcile, verify, authorize, enqueue | one sequence after the other | a repurchase follows a settled purchase |
| Paid drain and profiles, `paid_drain.py`, `profile_*.py` | drain events, activations | schedule, start, seal, release, abort | reservations in flight; activations pending for several instants | a released switch leaves and lets in no request of another profile; the tables explain every send |
| Recovery commands, `provider_recovery.py`, `fault_recovery.py`, `operation_recovery.py` | faults, probes | record, probe, resolve | one probe at a time | faults close on proof only |
| Statistics batches, `capture_batches.py` | one call for many items | freeze, run, settle | one member of several fails | members agree with the batch |
| Shared requests, `capture_shared_requests.py` | owner and consumers of a request | register, wake | owner ends before consumers | every consumer wakes |
| Intake, `account_preparation.py` | intake requests and pages | claim, page, finish | own claim path | pages in order, resumable |
| Scans, `tikhub_scan.py`, `matrix_scan.py`, `comment_paging.py` | checkpoints | page loops | client of durable runs | as durable runs |
| Scheduler and pipeline, `scheduler.py`, `pipeline.py` | daily stages | tick, start-up recovery | order of recoveries | as durable runs |
| Media retention, `media_retention.py`, `media_lifecycle.py` | bundle states, file locks, delete intents | archive, restore, purge, read lease | readers against unlink; crash between intent and unlink | no file lost that is needed |
| Raw evidence and retention, `raw_evidence.py`, `local_raw_retention.py`, `raw_archive.py` | content-addressed files, intents | store, archive, unlink | crash between intent and unlink | evidence outlives its use |
| Read cache, `read_cache.py` | bounded single-flight cache | get, invalidate | invalidation while loading | never stale after an epoch |
| Snapshots, `deploy/` | generations on two hosts | publish, install | swap of a directory | readers see whole generations |
| Evaluation, matching, reports, exports | derived data | pure functions and projections | none | as specified |
| Gateway, Douyin control, web client, legacy workflow | own stores | request handling | separate services | out of scope |

`PROJECT.json` lists every component with its sources, and with the reason where it is
not modelled.

### How they interact

    scheduler tick ──> plan ──> Enqueue ─┐
                  ──> execute ─> Dispatch ──> claim_run / claim_child ──> executor
                                                     │ paid work
                                                     └─> claim ─> send ─> CALL ─> answer
                  ──> maintenance: recover stale slots, expired leases; reconcile_due
    HTTP command  ──> enqueue_manual, compensation, recover_run
    start-up      ──> end interrupted runs, then recover slots, media, tasks

* Capture work executes under an attempt of a durable run: the item's owner token is
  the attempt's, and both leases are renewed in one transaction.
* A paid request names the scheduler attempt it is made for; the send boundary renews
  that attempt's lease, and the answer asks whether the attempt still runs before it
  touches the slot.
* All of them commit under the write lock; lease renewals and paid sends have
  priorities of their own.
* Start-up ends the interrupted attempts before it recovers slots, so that no slot is
  held back by the lease of a dead process (`api.py:2977-2990`). Work items are
  recovered by the next dispatch.

## 2. Modules

| Module | Models | Extends |
|---|---|---|
| `FencedJobs` | abstract contract of a durable run | - |
| `DurableRuns` | `durable_runs.py` | instantiates `FencedJobs` |
| `CaptureWork` | `capture_runtime.py`, on the rows of `DurableRuns` | `DurableRuns` |
| `PaidFetch` | the paid path of `capture.py` with the parts of `provider_budget.py`, `usage_settlements.py`, `raw_evidence.py`, `scheduler.py` it calls | - |
| `PaidWork` | the paid fetches of a capture execution: `capture_runtime.py` with `capture.py` | `CaptureWork`, instantiates `PaidFetch` |
| `WriteLock` | `storage.py` `_FairWriteLock` | - |
| `PaidDrain` | `paid_drain.py`, `profile_activations.py`, `profile_control.py` | - |
| `MediaRetention` | `media_retention.py`, with `media_lifecycle.py` and the jobs that call it | - |
| `RawRetention` | `local_raw_retention.py`, `raw_archive.py` and the half of `capture.py` that stores a body | - |
| `FreshReads` | abstract contract of the read service | - |
| `ReadCache` | `read_cache.py` | instantiates `FreshReads` |
| `*Proofs`, eight of them | theorems about all but the two contracts; those about `PaidWork` are in `CaptureWorkProofs` | the module they prove about |
| `MC*` | model values and small instances | the module they check |

Every definition that stands for code is listed with its lines in `PROJECT.json`
(`map`). Definitions introduced by a comment "Mutant of X" are plausible bugs of X that
the listed property detects; no specification uses them.

**DurableRuns.** `run` holds a row per root and continuation with its attempts: the
status, the lease and the frozen identity of both tables. `claim` is the
`DurableClaim` a worker holds in memory, `view` the checkpoint it read in an earlier
transaction, `now` the clock. Each public function is one action, because each is one
transaction: `ClaimNewRun`/`ClaimRun` are the two outcomes of `claim_run`,
`ClaimNewChild`/`ClaimChild` those of `claim_child`. A worker that dies is `Abandon`.
Recovery takes a scope, since callers restrict it to kinds of runs. `FencedJobs` says
what a client may rely on: a job is unborn, held, idle or ended, one holder at a time,
and its work only grows; `ImplementsFencedJobs` maps the two tables to it.

**CaptureWork.** Adds `work`, a row per item. `Dispatch(w)` is the whole of
`_run_single_prepared` up to the executor: recovery of attempts and items with a clock
that may be older than the one claims use, readiness of the selected item (any
verdict), choice of the root or of the day's continuation, the claim and both leases;
if the run cannot be claimed, the recovery still commits. `Settle` is the end of an
execution with any result of the provider, `RenewAttempt` the paid path's renewal of the
attempt alone, `RestartWriter` the start of a new process, which ends every running
attempt and leaves the items to the next dispatch. What the executor does with its
checkpoint is left out, which is why `view` stays unread here.

**PaidFetch.** A *ticket* `<<slot, n>>` is the n-th claim of a slot: one row of
`provider_usage`, its dispatch chain, and the fetcher in memory that carries it.
`Claim`, `Send`, `Answer` and `CleanUp` are the four transactions of
`_execute_claimed_fetch`; between them the fetcher can die (`AbandonFetch`), lose its
attempt (`Lapse`, `Lose`, of any set of tickets, since tickets may share an attempt) or
be refused (`SendRefused`). `SendFailsLate` is the
window in which the send file exists and its transaction does not commit. `Recover` is
`recover_stale_fetch_slots` with the synchronization of billing guards, over any set
of slots without a live owner (age is nondeterministic), `Restart` what a new process
does first. Prices are one unit; a request is a batch of one, whose member identity
moves with the request's.

**PaidWork.** The composition of the two. `PaidFetch` knows of a ticket's scheduler
attempt only a variable `owner`: live, lapsed or lost. Here the attempt is one of the
queue's: `holder` is the attempt a ticket was claimed under, and `Owners` reads the
owner off its row and the clock, as the code's SQL does. A worker is a dispatcher's
thread that executes its claim sequentially, with one fetcher at a time. Each claim and
each send is one transaction with `RenewAttempt`; an execution settles when none of its
fetchers is at work; a worker that dies takes its fetcher along; the rest of the queue
and of the tables moves independently. `ImplementsPaidFetch` says that what `PaidFetch`
lets its environment do is all the queue ever does.

**WriteLock.** The three ticket queues, the streaks, and the set of threads that were
notified. `Acquire` enters or queues, `AcquireRefused` is a non-blocking refusal,
`Resume` a woken thread that finds its turn, `GiveUp` a time-out, `Reenter` and
`ReleaseInner` the nested holds. `overtakes` is a history variable: how many grants of
each priority the present head of each queue has let pass.

**PaidDrain.** `acts` are the activations of a profile with their cancellations,
`drains` what the START of each drain froze, `chain` the append-only events, `usages`
the paid requests with the activation each is bound to. `Reserve`, `Send`, `NotSent`,
`Answer` and `Settle` are the life of a request, with the gate asked at the claim and
again at the send boundary and the ledger's trigger behind it. `Begin(p)` starts a
switch to another profile; `StartComplete` and `FinishComplete` are the two halves of
COMPLETE, which reads the clock, recovers and waits, and then writes SEALED and
RELEASE; `completing` is the time it read. `GiveUpComplete` is a COMPLETE that is refused
or dies, `AbortBegin` and `AbortComplete` are the restore of the old profile,
`ScheduleSameProfile` a change within one, with an activation that needs no drain. The
clock counts instants, `Day` of them from midnight to midnight. When a switch takes
effect is `Boundary`: an approved one to the integrated profile `Lead` after its BEGIN at
any hour (the code's fifteen minutes), every other at the next midnight and only begun in
the `Evening`; same-profile activations always at the next midnight. As in the code, an
activation pending for exactly the same instant is replaced or taken over, and one
pending for another instant is not even looked at, so several may be ahead at a time.

**MediaRetention.** One bundle: its member files in the originals (`hot`) and in the
archive copy (`pack`), the staging files of dead copies (`litter`), the control `row`,
the durable `run` of every operation, and the consumers that hold a read lease. A job's
pass is two steps because the code takes two: `Decide(job)` loads the row and makes the
`plan`, `Begin(job)` takes the exclusive locks and the run for what was decided, however
much has changed since; `Blocked(job)` is a lock that is not free. `Operate` is one
stage (checks, copy, commit, verify, unlink with settlement, finish) of the archive, the
release of originals, the restore or the purge. `FailIO`, `LoseOwnership` and `Crash`
interrupt between any two stages; a copy that dies leaves its staging file.

**RawRetention.** One content-addressed body shared by several responses: the inode at
its path, its row, the ledger of retention events, the index file of each response, and
the transaction that holds the write lock (`tx`), because a store writes its file
before its transaction commits. `Receive` and `Replay` begin a store, `WriteIndex` and
`Register` end it, `Abandon` is its failure. `Retire` commits the intent, `Unlink` and
`Complete` are the two further steps of a maintenance tick. `Apply`, `Pin` and `Unpin`
are what protects a body.

**ReadCache.** `rev` is `DatabaseRevision`, the rest of the variables the fields of
`BoundedReadCache`, `req` the request each client is in. A request asks for the revision
(`Observe`), looks up under the lock (`Lookup`, which ends in `Hit`, `Join`, `Own` or
`Refuse`), and as an owner waits for a loader's permit, computes, stores and leaves;
each of these is one critical section. The writer commits and, in two halves, notifies and
invalidates; between them the gateway's acknowledgement is not out. `shown` separates
what a commit did from what the probes of the revision see of it, since the digest is
computed from a few columns. `FreshReads` has commits, acknowledgements and readers only:
a reader is answered once, perhaps together with others, with a version that was
committed and is no older than what was acknowledged when it asked, or it ends without an
answer. `ImplementsFreshReads` reads this off the requests.

## 3. Runs

| Run | Instance | Question |
|---|---|---|
| `durable_runs` | 1 root, 1 continuation, 2 attempts each, 2 workers, 2 proposed inputs, clock 3, lease 1; fair | Can a stale owner write, can progress or history be lost, do the tables implement the abstract job, does an orphan become free? |
| `capture_work` | 1 item, 3 business days of 3 units, 2 dispatchers, 2 continuations, 2 attempts each, clock lag 1; fair | Do queue state and run state ever part, are days and holds respected, does abandoned work come back? |
| `paid_fetch` | 2 slots of one identity, 2 claims and 1, 1 compensation | Is a request bought once, does every account of it agree? |
| `paid_work` | 1 item, 1 slot of 2 claims, 1 compensation, 2 workers, 2 attempts, lease 0, clock 2; fair | Do the queue's fences give the paid path what it assumes, is every open usage closed? |
| `write_lock` | 3 threads, bursts of 2, one re-entry; fair; deadlock checked | Are waits bounded, is a wake-up ever lost, can it deadlock, does every waiter enter? |
| `one_burst` | 3 threads, the code's bursts 8 and 4; deadlock checked | Does the docstring's bound hold? (No, section 6.) |
| `paid_drain` | 2 profiles, 3 activations, 3 drains, 2 requests, days of 3 instants with an evening of 2, lead 2, clock 4 | Once a switch is released, is a request of another profile open; do the tables explain every send? |
| `media` | 2 members, 2 jobs, 1 reader, 1 restore request, 1 fault, retention 2, hot time 1, clock 3; fair | Are originals lost early, without explanation or under a reader; is deletion final, and does it happen? |
| `pending_restore` | the same | Does the end of retention end a pending request? (No, section 6.) |
| `restored_hot` | the same | Do restored originals stay hot for their time? (No, section 6.) |
| `raw_retention` | 3 responses of one body, 2 hot days, 5 days, 2 faults; fair | Is evidence that is needed ever unreadable, does a retirement end? |
| `read_cache` | 2 clients, 1 domain, 1 entry, 2 bytes, bodies of 1 and 3, 1 loader, 1 write, 1 replaced file, time to live 1, clock 1; fair | Does the cache implement `FreshReads` (no user is shown data older than a write he was told of), do limits hold, does every request end? |

**Why the bounds are enough.** A fence is only interesting with an owner and a successor
that finds its leavings; a worker may be both the old owner and the new one, so two
workers and two attempts have every pair, and the proofs cover any number. A lease of one
unit leaves room for a renewal, an expiry and a late action of the expired owner. Days of
three units put attempts on both sides of midnight; three days give a continuation a
predecessor that is itself a continuation. One identity shared by two slots with two
claims and one has every pair of fetchers that can meet: two slots, a slot and its retry,
an original and its compensation. `paid_work` has one old execution and its
successor, each with a fetcher of the same slot; a lease of no time is enough for a
renewal within the instant, an expiry and a late action. Its module bounds what does not
concern the two: the item only waits to be dispatched, the first attempt is interrupted
and is the first worker's. Three threads give every priority a head, or one
priority a queue; the bursts are constants of the module, so that small ones exercise the
same comparisons. In `paid_drain` a lead of two in a day of three puts an approved switch
before midnight, on it or behind it, according to the hour of its BEGIN; two activations
besides the first are a switch and a second one, an abort of it, or a roster activation
pending beside it for another instant, and the clock goes on past both; two requests are
one on each side. The proofs cover any number of each. In `media` one fault can hit any stage of any
operation, and a second job acts on a decision that the first has overtaken; two members
make a partial deletion possible. In `raw_retention` one response retires, one returns,
one comes new while a cleanup is pending. In `read_cache` a body of three never fits, one
of one does, and a second one evicts it by the limit of entries; owner and waiter are
two clients, and a request that begins after an acknowledgement meets one that began
before. Two clients reach neither the refusal of a computation beyond the in-flight limit
nor an eviction that the limit of bytes alone demands: for those `CacheIsBounded` rests on
theorem `Bounded`. The frozen inputs of a run are exercised by two proposals for the root
only: an existing run is claimed without inputs in the model, since the code goes on with
the frozen ones, so `ProgressKept` and `ContinuationChain` say little about the freezing.

Every bound is a guard named in its module (`MaxNow`, `MaxAttempts`, `MaxItems`, `MaxSeq`, `MaxClaims`,
`ClockLag`, `MaxFaults`, ...); `MayLease` keeps leases short of the end of the clock so
that none outlives the model.

Deadlock is checked for the lock; elsewhere a clock or a number of claims that is used
up ends a behaviour, and the configurations say so. No symmetry is declared: most runs
check liveness, where it is unsound, and the others have too few equal values to gain by it.

**Fairness.** `DurableRuns`: time passes and the scheduler's recovery keeps running.
`CaptureWork`: time passes, each dispatch loop keeps running, an execution ends (its
provider calls have time-outs). `PaidWork`: the same, its executions included, and
maintenance keeps recovering stale slots; that a lease expires is then a consequence of
the clock and of executions that end, nothing about leases is assumed. A single weak
fairness of recovery over all recoverable slots is what its query does. Claims, renewals
and commands are never assumed. `WriteLock`: a notified thread runs, an inner hold is
released (weak), a holder releases (strong, since it may reenter meanwhile), and threads
do not time out for ever. `MediaRetention`: time passes, an operation goes on, a reader
finishes, the retention job comes round; strong fairness of `Begin("media_retention")`
says that its pass does not miss the free locks every time, which a job that recurs every
hour for ever, among operations and readers that end, justifies. `RawRetention`:
maintenance comes round and a transaction in the process ends. `ReadCache`: each request
proceeds; that a waiter gives up is *not* assumed, so `RequestsEnd` says that its owner
tells it. `PaidDrain` states no fairness: completion is a command of the operator.

## 4. Properties

Each property names in its module the code it is about; `PROJECT.json` relates them to
the hazards. The ones a reader should know:

* `OneOwner`, `OwnerViewIsCurrent`, `ProgressKept`: one claim passes the fence; what it
  writes starts from what the row holds; checkpoints never go back.
* `HistoryKept`, `ContinuationChain`: closed attempts and settled runs never change;
  continuations form a chain in day order. `ImplementsFencedJobs` is the refinement.
* `AttemptHoldsItem`, `OneExecutor`: while an attempt of an item runs, the item is running
  for it and for nobody else, whatever was recovered in between.
* `DueIsClaimable`: an item that is due has a run that can be claimed, otherwise it would
  hide every item behind it. Items whose `due_at` a command has set are exempt.
* `ChargedOnItsDay`, `OneContinuationPerDay`, `HoldsAwaitCommand`, `CompletedIsTerminal`:
  days, holds and results survive every interleaving.
* `ImplementsPaidFetch`, `OneFetcher`: an attempt that lost its lease never gets it back,
  a compensation meets no older fetcher that could still end its slot, and an item has
  one fetcher at a time that can, whatever died or was recovered in between.
* `BoughtOnce`, `ReleasedNeverCalls`: at most one call per paid key, sequences only after
  settled predecessors, refunds only of what was never sent.
* `BudgetBalanced`, `OpenUsageHoldsSlot`, `AdmissionFollowsPurchase`: counter, usage,
  dispatch chain, slot and admission row tell the same story.
* `LateAnswersAreAudit`: the answer of a fetcher that lost its attempt or was overtaken
  leaves the slot's status and attempt count alone.
* `BoundedOvertaking` (`RenewalTurn`, `SendTurn`, `NormalTurn`), `NextIsAwake`: how many
  grants each priority may have to let pass, and that the next thread is awake.
* `ReleasedSwitchIsDrained`, `LedgerExplainsSends`: once the newest switch is released,
  and unless it is aborted, every open paid request is of its target's profile, whatever
  else was pending and takes force behind it; and whoever reads the activation tables
  afterwards finds for every send the activation it was made under, although COMPLETE uses
  a clock it read before it waited.
* `OriginalsSurvive`, `GoneIsExplained`, `LeaseKeepsOriginals`, `NothingComesBack`: the
  originals are in one whole copy until retention ends, each missing file has a durable
  intent of its own, a reader has its files to the last byte, and deletion is final.
* `EvidenceSurvives`: a body that is pinned, recent or not fully applied is readable
  whatever retired, returned or failed before.
* `ImplementsFreshReads`, `OldDataStaysOut`: a request that begins after an acknowledged
  write is not answered from before it, by cache, by a joined computation or by one that
  ends late. `CacheIsBounded`, `HitsAreYoung`: counter, limits and ages.
* Liveness: `OrphanIsRecovered`, `AbandonedIsRequeued`, `OpenUsageCloses`,
  `EveryWaiterEnters`, `DueIsPurged`, `CleanupEnds`, `RequestsEnd`.

## 5. Proofs

TLAPS proves, for every value of the constants that the named assumptions allow:

| Module | Theorems | Assumptions |
|---|---|---|
| `DurableRunsProofs` | `TypeCorrect`, `TablesAgree`, `AtMostOneOwner`, `ViewIsCurrent`, `ProgressIsKept`, `HistoryIsKept`, `RefinesFencedJobs` | bounds are naturals, `NoIdentity` is no identity |
| `CaptureWorkProofs` | `QueueTypeCorrect`, `TokensAgree`, `OneExecutorPerItem`, `CompletionIsFinal`, `ContinuationsFollowDays`, `ChainIsWhole`, `ChargesAreDated`, `HoldsAreKept`, `DueItemsAreClaimable`; of `PaidWork`: `PaidWorkIsCapture`, `RefinesPaidFetch`, `OneFetcherPerItem`, `PurchasesInQueue`, `LateAnswersInQueue` | the same; a day is positive and every instant has its day; finitely many slots, each of one item and one identity |
| `PaidFetchProofs` | `TypeCorrect`, `PurchasesAreUnique`, `ReleasedIsFinal`, `BudgetIsBalanced`, `OpenHoldsSlot`, `AdmissionFollows`, `LateIsAudit` | finitely many slots, each with an identity; bounds are naturals |
| `WriteLockProofs` | `TypeCorrect`, `NoLostWakeup`, `RenewalsArePrompt`, `SendsGetATurn`, `OrdinaryWritersGetATurn`, `OvertakingIsBounded` | bursts are positive, the no-thread value is no thread |
| `PaidDrainProofs` | `DrainTypeCorrect`, `SwitchesAreDrained`, `LedgerIsTrue` | the three named profiles are profiles; a day and the lead are positive; bounds are naturals |
| `MediaRetentionProofs` | `TypeCorrect`, `OriginalsAreSafe`, `DeletionsAreExplained`, `LeasesAreSafe`, `DeletionIsFinal` | members are finitely many and some; retention and hot times are positive |
| `RawRetentionProofs` | `TypeCorrect`, `EvidenceIsKept`, `UnlinkIsCommitted` | hot days and calendar are positive |
| `ReadCacheProofs` | `TypeCorrect`, `Freshness`, `OldStaysOut`, `Bounded`, `YoungHits`, `RefinesFreshReads` | limits, sizes and the time to live are positive, clients finitely many |

Each module proves `Inductive` (`QueueInductive`, `DueInductive` and `PaidInductive` in
`CaptureWorkProofs`), that its invariant holds in every reachable state, and derives the
rest.

*Durable runs.* `OneOwner` is not inductive: that two claims of a run never both pass
the fence needs that their attempts differ (`ClaimsDiffer`), that every remembered
attempt exists (`ClaimOK`), and that the two tables agree, so that taking the row over
closes the attempt before it (`RowOK`). Lemmas state the effect of each transaction on
one row; one lemma per action lifts them to the table. `RefinesFencedJobs` follows from
the same invariant: every transaction is one step of the abstract job or a stutter, and
recovery gives back a set of jobs in one step.

*Capture work.* `AttemptHoldsItem` says one direction only. `QueueInv` keeps the pair
of tables `Sound`: a running run's item holds its token (`Holds`), a completed run's
item is terminal (`Completed`), continuations follow the calendar (`Calendar`) and
belong to their item (`Scoped`); `ClaimsOK` ties to it what the dispatchers remember. A
dispatch is proved in the order in which it acts: recovery of attempts, recovery of
items, anchoring of the day, claim. That at most one run of a family runs then needs no
argument of its own, because an item has one token. `DueInv` adds what `DueIsClaimable`
needs: the item's `due_at` and the resume time of the run of its day agree; items in a
hold or moved by a command are exempt, and a new day has no run yet.

*Paid fetches.* Three things protect a purchase. A usage gets behind the send boundary
only under a key nobody else has, and a call is behind the boundary (`Purchases`). An
ordinary claim asks under sequence 0, and an identity that was ever used has lost
sequence 0 for good (`Sequences`), so a fetcher behind the boundary can be overtaken
in its slot by compensations only, and a compensation runs when the attempts before it
are over (`Overtaken`). That last fact makes `LateAnswersAreAudit` and
`OpenUsageHoldsSlot` hold although `_paid_slot_owner` compares the attempt *count*,
which an original behind the boundary and a compensation before it share. The budget
follows by counting: each step changes the set of billed usages by the tickets it
refunds.

*Paid work.* Of a step of the queue the paid path sees how the owners of its tickets
change. Lemmas about one row (`Ages`) and about the table (`AllAge`) say that every step
of the queue but the dispatcher's claim and the renewal of a live attempt leaves each
attempt's owner as it is or makes it older, from live to lapsed to lost; a claim adds an
attempt that no ticket names yet (`FreshClaims`). `HoldersInv` adds to the queue's
invariant that a ticket's attempt is one of its item, that every fetcher at work is
carried by a worker whose claim is that attempt, and that a worker carries one. A renewal
needs a lease that holds, so it changes no owner. When an item compensates, its token is
the caller's attempt, by `AttemptHoldsItem` every other attempt of the item has ended, and
the caller carries nothing: so every fetcher of the slot that is still at work has lost
its attempt, which is the guard of `Compensate`. `RefinesPaidFetch` maps each step to one
of `PaidFetch`. `PurchasesInQueue` and `LateAnswersInQueue` carry the theorems of
`PaidFetchProofs` over to the composition: that module is instantiated with `Owners` for
`owner`, and `SamePaidFetch` shows that its steps are those of `PaidWork`'s instance of
`PaidFetch`. By `PaidWorkIsCapture` the theorems about `CaptureWork` hold as well.

*Write lock.* The bounds on overtaking follow from what the two streaks remember of the
history of each queue's head (`RenewalHistory`, `SendHistory`, `NormalHistory`): a
renewal is held back only when its burst is used up, and its turn starts a new one.

*Paid drain.* Nothing is assumed about how many activations are pending and for when:
the one in force is the greatest by instant and number (`LatestIsUnique`). Activations
name drains that exist, and the first is in force for good (`ActsSound`). The chain ends
with the newest drain, an abort is of a fenced drain, and only switches are fenced
(`ChainInOrder`). A request was made for an activation that was eligible and in force
(`RequestsInForce`). Between START and what follows it the drain decides of its target
alone, and nothing was sent since the target should have taken effect (`Draining`). With
these the two properties are inductive. An open gate looks at the newest switch that is
not aborted and asks for its target's profile (`OpenGate`); RELEASE finds no request open;
a new drain either is a switch, then not released, or leaves the newest switch as it was;
a fence excepts its drain. So `ReleasedSwitchIsDrained` needs nothing about what is in
force, and time alone never breaks it. A new activation lies ahead of the clock (`Ahead`)
and replaces only what lies ahead, an abort cancels only what never was in force, and a
late RELEASE makes its target eligible since an instant after every send, by `Draining`:
so no step changes what the tables give for the instant of a send.

*Media.* `Alone` says that an operation under way excludes readers and other operations,
`Storage` that the storage state follows from the deadline, `Stage` what each stage of an
operation rests on, and with the three properties they are inductive. The plan of a pass
needs no invariant: what it decided may be stale, and the proofs show that the checks
under the locks make it harmless to the originals. Types have an invariant of their own
(`TInv`), which counts restores beyond one per request against the faults.

*Raw bodies.* A row that says present has a file (`FileThere`); a cleanup is of a body
that is retired (`CleanupOfRetired`, `RetiredIsDone`); nothing is recorded of a body
before it exists (`NothingBefore`). `UnlinkIsCommitted` is proved of every step: a file
disappears only under a committed intent and without a pin.

*Read cache.* The key of a computation carries the domain's generation. While it is the
current one, nothing was acknowledged since the owner looked up (`Fresh`), so neither a
waiter (`Waiting`) nor an entry (`Entries`) can be older than what a request was told.
`Acknowledged` says that only what is committed is acknowledged, `Requests` what a request
holds at each point of its way. The byte counter is compared with a sum over the entries,
a recursive function; its lemmas are proved by the least counterexample (`NatInduct`),
because the library's induction theorems take an operator as a parameter.
`RefinesFreshReads` needs one more invariant, `Committed`: no body, in the cache or in a
request, is newer than the database. Each step is then one of the contract for the
requests whose reading changes (`ReadsAnswer`, `ReadsFinish`): `Store` answers the owner
and all its waiters at once, a hit or a late join one reader, `Fail` ends owner and
waiters together, and loading, expiry and eviction are stutters.

**Assumed, not proved.** The guard of `Compensate` in `PaidFetch` is a consequence of
the queue's fences (`RefinesPaidFetch`). What `PaidWork` takes from the shape of the code:
a slot belongs to one item, because an item is identified by operation, subject and
logical due time (`capture_runtime.py:449-451`) and a slot by subject, stage and the
window these make; an execution runs its fetches one after the other in its own thread;
and the execution's thread is the only one that settles its item.

**Only model-checked.** The liveness properties: liveness under fairness is out of the
prover's reach.

## 6. Divergences and observations

Three runs show the code doing something else than a text of the repository says.

* `one_burst`. The docstring of `_FairWriteLock` (`storage.py:106-112`) says: "Ordinary
  writers get a turn after eight renewals even under continuous priority traffic." A
  waiting send is what yields to first when the renewals' burst is used up, and its
  grant clears the renewals' streak. An ordinary writer is passed by eight renewals, a
  send and a ninth renewal. The bound the code keeps is `NormalTurn`, one burst of
  renewals around each of at most four sends (40 renewals, 4 sends), checked on small
  bursts and proved for all. Without sends the docstring is right.
* `pending_restore`. A pass that cannot claim a pending restore, because its run is
  partial and resumes later or a lock is held, purges the due bundle all the same
  (`media_retention.py:1180-1185`); expired bundles are skipped afterwards and the
  request stays pending for ever. A test is named after the contrary
  (`tests/test_v8_media_retention.py:395`).
* `restored_hot`. The archive pass decides from a row it loaded before the locks
  (`media_retention.py:1205`). If it decided to finish an interrupted initial release and
  another job restores the originals meanwhile, it unlinks them at once, although the
  policy keeps restored originals hot for a day (`media_policy.py:18`). No original is
  lost: the archive copy is whole, which `OriginalsSurvive` shows and the proof confirms.

What the models show and no text denies:

* A COMPLETE that crosses the boundary while it waits backdates the eligibility of its
  target (`profile_control.py:3008`). It is harmless to requests: both properties hold.
* A profile can come back without a drain. A roster activation of TikHub is pending for
  midnight; an approved switch to the integrated profile is begun (before or after it),
  released and in force within the quarter of an hour. Each looks for conflicts at its own
  instant only (`profile_control.py:2490-2497`, `:2621-2628`) and nothing cancels the
  other, so at midnight TikHub is in force while integrated requests may be open. The
  same happens to a roster activation that was taken over by a later switch: it has no
  eligibility contract and takes force even if that switch is never completed. The gate
  asks for the released target's profile and stays closed then, until another switch:
  paid dispatch stands still, but no request of the old profile joins the open ones. That
  is what `ReleasedSwitchIsDrained` says; "an open request is of the profile in force" is
  false.
* The property excepts an aborted switch for a reason. With four activations and drains
  (beyond the instance; found by a search for it) an approved switch is released, a second
  one is begun and aborted with the source restored, a request is made under the source
  and a roster activation scheduled; then the first switch takes effect and the gate opens
  for it with the source's request still open. Requests of both profiles are open then.
* An index file of a response whose transaction was rolled back is unknown to retention;
  and if a process dies after the unlink and a store is rolled back afterwards, another
  inode lies at the path, `Unlink` refuses it and the cleanup stays open. `CleanupEnds`
  names that case.
* A staging file of a dead copy blocks the purge of its bundle until somebody removes it
  (`DueIsPurged` names the case).
* Two reads, one begun after the other was answered, may go back in time as long as
  nothing newer was acknowledged: a computation that looked up before an invalidation and
  loads late returns its answer; a request that begins then joins a computation of the
  next generation that loaded earlier. `FreshReads` leaves the order of answers open for
  that reason. (Found by a search of `ReadCache` with two clients and two writes.)
* A statistics batch sets a failed member's state and reason but not its `due_at`
  (`capture_batches.py:306-352`), while its run resumes in five minutes. When the planner
  puts such a member back, it is due before its run may be claimed. The single-item path
  sets both, which `DueItemsAreClaimable` proves.

## 7. Not modelled

Left out on purpose: SQL and schema, prices and quotas, payload formats, parsing,
selection order among due items, evaluation and reporting (pure functions), the
separate services, one-off migrations and release proofs. The map covers a small part
of the repository's lines for that reason: most of its 258,000 lines are one-off scripts,
media decoding, request parsing, reports and deployment, which keep no state that two
actors share, and a model of them would repeat them.

Components with state that are left out:

* *Statistics batches.* Their cases need two items and a batch over several days, a state
  space that multiplied with the family of runs is beyond a run of minutes; the
  observation above is from reading.
* *Intake, scans, comment paging.* Clients of durable runs and of the paid fetch: their
  page loops checkpoint between transactions that `DurableRuns` has, their own claims are
  not modelled.
* *Shared requests.* The wake-up of a consumer is an action of `CaptureWork`; the
  registration is not modelled.
* *Provider, fault and operation recovery; billing reconciliation.* Commands of an
  operator, each one transaction; what they reopen is a command of `CaptureWork`.
* *Snapshots and deployment.* Shell over SSH between two hosts, without state shared with
  the writer.

Within the modelled components:

* `CaptureWork`: one entry point of several, and any verdict of readiness.
* `PaidFetch`: no clock. Recovery leaves the admission row `reserved_unsent` and a new
  claim does not refresh one in that state (`capture.py:2218`); the refusal that follows
  is a nondeterministic one here.
* `PaidDrain`: the window in which COMPLETE is accepted only delays it; whether a switch
  to the integrated profile is approved is a free choice; diagnostics, current holds, forward releases and the bridge from schema 18 are
  left out; a scheduler attempt that a drain waits for is an open request.
* `MediaRetention`: a bundle from its sealed completion on; activation modes and space
  reservation are left out. Only two of the three jobs run at once in the instance.
* `RawRetention`: the second archive tier (`raw_archive.py`, days 8 to 31) has no
  production caller; legacy files without a row are left out.
* `ReadCache`: the digest is abstracted to whether a commit shows in it.

Beyond the provers: liveness under fairness; what a recursive definition computes for every
input, except by the argument named in section 5.

## 8. Reproducing

    tlc -workers 2 -config MCPaidFetch.cfg MCPaidFetch
    tlapm PaidFetchProofs.tla

and likewise for the other configurations and proof modules. On two cores the longest
runs are `paid_work` (85 thousand states), `paid_fetch` (730 thousand), `read_cache`
(183 thousand), `capture_work` (163 thousand), each of one to two minutes and most of it
liveness, `durable_runs` (520 thousand, two minutes) and `paid_drain`
(2.6 million, two minutes); the longest proofs are `CaptureWorkProofs` and `ReadCacheProofs` with several minutes each.
