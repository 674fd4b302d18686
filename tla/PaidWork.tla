------------------------------ MODULE PaidWork ------------------------------
(***************************************************************************)
(* Paid fetches inside the capture queue: CaptureWork's workers carry the  *)
(* fetchers of PaidFetch (capture_runtime.py with capture.py).             *)
(*                                                                         *)
(* PaidFetch knows of a ticket's scheduler attempt only whether it runs    *)
(* and whether its lease holds.  Here the attempt is one of the queue's:   *)
(* holder is the attempt a ticket was claimed under, and the owner of      *)
(* PaidFetch is read off its row and the clock.  A worker executes its     *)
(* claim sequentially, one fetcher at a time, and takes its fetcher along  *)
(* when it dies.  A slot belongs to one work item: an item is identified   *)
(* by operation, subject and logical due time, a slot by subject, stage    *)
(* and the window they make.                                               *)
(*                                                                         *)
(* What CaptureWork and PaidFetch leave open stays open here: which items  *)
(* are ready, what a provider answers and whether it bills.                *)
(***************************************************************************)
EXTENDS CaptureWork

CONSTANTS
    Slots,            \* fetch_slots
    ItemOf,           \* the work item of a slot
    PaidIdentities,   \* Identities, IdentityOf and the bounds of PaidFetch
    IdentityOf,
    MaxSequence,
    MaxRequests,
    MaxClaims

ASSUME PaidWorkConstants ==
    /\ IsFiniteSet(Slots) /\ ItemOf \in [Slots -> Roots]
    /\ IdentityOf \in [Slots -> PaidIdentities]
    /\ MaxSequence \in Nat /\ MaxRequests \in Nat /\ MaxClaims \in [Slots -> Nat]

VARIABLES
    holder,   \* [Tickets -> attempt or NoOwner]: scheduler_attempt_id of the usage
    phase,    \* the other variables of PaidFetch
    slot, usage, consumed, admission, scopeClaims, sendFiles, settled, calls

tableVars == <<slot, usage, consumed, admission, scopeClaims, sendFiles, settled, calls>>
paidWorkVars == <<captureVars, holder, phase, tableVars>>

Tickets == UNION {{s} \X (1..MaxClaims[s]) : s \in Slots}

\* What a fence or a recovery of the paid path sees of the attempt of ticket t.
OwnerOf(rows, holders, time, t) ==
    LET h == holders[t]
    IN  CASE ~TokenRuns(rows, h)                            -> "lost"
          [] TokenRuns(rows, h)
             /\ rows[h[1]].attempts[h[2]].lease >= time     -> "live"
          [] OTHER                                          -> "lapsed"

Owners == [t \in Tickets |-> OwnerOf(run, holder, now, t)]

P == INSTANCE PaidFetch WITH Identities <- PaidIdentities, owner <- Owners

AttemptOf(w) == <<claim[w].run, claim[w].attempt>>

\* The fetcher a worker carries, until its phase is "gone".
Carries(w, t) == claim[w] # NoClaim /\ holder[t] = AttemptOf(w) /\ phase[t] # "gone"

-----------------------------------------------------------------------------
InitPaidWork == InitCapture /\ holder = [t \in Tickets |-> NoOwner] /\ P!InitFetch

\* The items and the queue; the dispatcher, its recoveries and the clock among them.
QueueMoves == QueueStep /\ UNCHANGED <<holder, phase, tableVars>>

\* A worker claims the next ticket of a slot of its item, and with it renews its
\* attempt.
MayClaimTicket(w, t) ==
    /\ RenewAttempt(w)
    /\ ItemOf[t[1]] = claim[w].run[1]
    /\ \A u \in Tickets : ~Carries(w, u)
    /\ holder' = [holder EXCEPT ![t] = AttemptOf(w)]

FirstFetch(w, t) == MayClaimTicket(w, t) /\ P!Claim(t)

\* capture_compensation.py:105-113: the item runs under the caller's attempt.
CompensatingFetch(w, t, k) ==
    /\ MayClaimTicket(w, t)
    /\ work[ItemOf[t[1]]].state = "running" /\ work[ItemOf[t[1]]].owner = AttemptOf(w)
    /\ P!Compensation(t, k)

\* The send boundary renews the attempt as well; a send that fails renews nothing.
SendFetch(w, t) == Carries(w, t) /\ RenewAttempt(w) /\ P!Send(t) /\ UNCHANGED holder

FetchGoesOn(w, t) ==
    /\ Carries(w, t)
    /\ \/ \E next \in P!Refusals : P!SendFailsLate(t, next) \/ P!SendRefused(t, next)
       \/ P!CleanUp(t)
       \/ P!Call(t)
       \/ P!AnswerOk(t)
       \/ P!AnswerFailed(t)
    /\ UNCHANGED <<captureVars, holder>>

\* An error of the fetcher reaches the execution, which goes on without it.
FetchFails(w, t) == Carries(w, t) /\ P!AbandonFetch(t) /\ UNCHANGED <<captureVars, holder>>

WorkerFetches(w) ==
    \E t \in Tickets : SendFetch(w, t) \/ FetchGoesOn(w, t)

\* An execution settles its item when no fetcher of it is at work.
SettleExecution(w) ==
    /\ SettleWork(w) /\ \A t \in Tickets : ~Carries(w, t)
    /\ UNCHANGED <<holder, phase, tableVars>>

\* The worker dies or loses a fence, and its fetcher with it.
AbandonExecution(w) ==
    /\ AbandonWork(w)
    /\ phase' = [t \in Tickets |-> IF Carries(w, t) THEN "gone" ELSE phase[t]]
    /\ UNCHANGED <<holder, tableVars>>

EndPaidExecution(w) == SettleExecution(w) \/ AbandonExecution(w)

\* The tables' own steps: recovery of stale slots, settlement, a payload that fails.
TablesMove ==
    /\ \/ \E S \in SUBSET P!Recoverable : P!Recover(S)
       \/ \E t \in Tickets : P!Settle(t)
       \/ \E s \in Slots : P!MarkTerminal(s)
    /\ UNCHANGED <<captureVars, holder>>

\* The start of the writer ends the attempts before anything else happens.
RestartAll ==
    /\ RestartWriter
    /\ phase' = [t \in Tickets |-> "gone"]
    /\ UNCHANGED <<holder, tableVars>>

NextPaidWork ==
    \/ QueueMoves
    \/ \E w \in Workers :
          \/ \E t \in Tickets :
                \/ FirstFetch(w, t)
                \/ \E k \in 1..MaxSequence : CompensatingFetch(w, t, k)
                \/ FetchFails(w, t)
          \/ WorkerFetches(w)
          \/ EndPaidExecution(w)
    \/ TablesMove
    \/ RestartAll

PaidWorkSpec == InitPaidWork /\ [][NextPaidWork]_paidWorkVars

\* Time passes and executions end, as in CaptureWork: a fetcher does not hang
\* (network permits and time-outs); and maintenance recovers stale slots.
PaidWorkFairness ==
    /\ WF_paidWorkVars(CaptureTick /\ UNCHANGED <<holder, phase, tableVars>>)
    /\ \A w \in Workers : WF_paidWorkVars(EndPaidExecution(w))
    /\ WF_paidWorkVars(P!Recover(P!Recoverable) /\ UNCHANGED <<captureVars, holder>>)

FairPaidWorkSpec == PaidWorkSpec /\ PaidWorkFairness

-----------------------------------------------------------------------------
\* At most one fetcher of an item can still end a slot, over all its slots, runs and
\* attempts: the item's token is one attempt's, and that attempt's worker has one.
OneFetcher ==
    \A t, u \in Tickets :
        /\ phase[t] # "gone" /\ phase[u] # "gone"
        /\ Owners[t] # "lost" /\ Owners[u] # "lost"
        /\ ItemOf[t[1]] = ItemOf[u[1]]
        => t = u

\* The queue's fences give the paid path everything it assumes of its scheduler
\* attempts: an attempt that lost its lease never gets it back, one that ended stays
\* ended, a claim is made under a live attempt, and a compensation never meets a
\* fetcher of an earlier attempt that could still end the slot.
ImplementsPaidFetch == P!FetchSpec

\* No reservation and no send stays open for ever, wherever its fetcher or its
\* worker died: the attempt's lease runs out and maintenance closes the slot
\* (recover_stale_fetch_slots, capture.py:543-608).
OpenUsageCloses ==
    \A t \in Tickets : usage[t].state \in P!Open ~> usage[t].state \notin P!Open

=============================================================================
