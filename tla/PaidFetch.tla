----------------------------- MODULE PaidFetch -----------------------------
(***************************************************************************)
(* A paid provider request, src/dcar_eval/v8/capture.py.                   *)
(*                                                                         *)
(* A fetch slot is bought in two transactions around the network call: the *)
(* claim reserves money and the slot, the send boundary makes the purchase *)
(* of a paid key (identity, sequence) durable, the call runs outside every *)
(* transaction, and its answer settles usage, budget and slot in a third.  *)
(* A ticket <<slot, n>> is the n-th claim of a slot: its row of            *)
(* provider_usage with its dispatch chain, and the fetcher that carries it *)
(* in memory.  The fetcher may lose its scheduler attempt, or die, at any  *)
(* point; stale slots are recovered by maintenance and at start-up.        *)
(*                                                                         *)
(* There is no clock: that a slot is stale (600 s), an admission expired   *)
(* or a send old enough to settle (10 min) is nondeterministic.  Requests  *)
(* are singletons: the member identity moves with the request's.           *)
(***************************************************************************)
EXTENDS Integers, FiniteSets

CONSTANTS
    Slots,         \* fetch_slots
    Identities,    \* paid_scope_identity values, without their sequence
    IdentityOf,    \* the identity a slot's request has
    MaxSequence,   \* compensations of an identity (4 in the code)
    MaxRequests,   \* max_billable_requests of the budget
    MaxClaims      \* bound: how often each slot is claimed

ASSUME FetchConstants ==
    /\ IsFiniteSet(Slots) /\ IdentityOf \in [Slots -> Identities]
    /\ MaxSequence \in Nat /\ MaxRequests \in Nat /\ MaxClaims \in [Slots -> Nat]

VARIABLES
    slot,         \* [Slots -> Slot]
    usage,        \* [Tickets -> Usage]: provider_usage and its dispatch events
    owner,        \* [Tickets -> Owner]: the scheduler attempt of the claim
    phase,        \* [Tickets -> Phase]: what the fetcher is doing, in memory
    consumed,     \* consumed_requests of the budget
    admission,    \* [Keys -> Admission]: admission_reservations
    scopeClaims,  \* provider_paid_scope_claims
    sendFiles,    \* paid_send_claims/*.claim.json, never removed
    settled,      \* provider_usage_settlements
    calls         \* history: the tickets whose network call was started

fetchVars == <<slot, usage, owner, phase, consumed, admission, scopeClaims,
               sendFiles, settled, calls>>

TicketsOf(s) == {s} \X (1..MaxClaims[s])
Tickets == UNION {TicketsOf(s) : s \in Slots}
Keys == Identities \X (0..MaxSequence)

Slot == [status : {"pending", "running", "retryable_failed", "terminal_failed", "succeeded"},
         count  : Nat,        \* attempt_count
         guard  : BOOLEAN]    \* last_error_code = BILLING_UNKNOWN_SLOT_ERROR

Open == {"reserved", "sent"}
UsageState == Open \cup {"none", "completed", "failed", "billing_unknown", "not_sent"}
OpenEvent == {"reserved", "send_marked"}
Event == OpenEvent \cup {"none", "succeeded", "failed", "billing_unknown", "not_sent"}

Usage == [state   : UsageState,
          key     : Keys,       \* paid_scope_identity, paid_sequence
          attempt : Nat,        \* attempt_number
          billed  : {0, 1},     \* billed_requests
          event   : Event]      \* the last event of the dispatch chain

\* The scheduler attempt runs with a valid lease, runs with an expired one, or
\* does not run any more.
Owner == {"live", "lapsed", "lost"}
Phase == {"gone", "claimed", "refused", "held", "sent", "called"}
Admission == {"none", "reserved_unsent", "sent_unsettled", "settled", "released_unsent"}

NoUsage(s) == [state |-> "none", key |-> <<IdentityOf[s], 0>>, attempt |-> 0,
               billed |-> 0, event |-> "none"]

IsNext(t) == /\ usage[t].state = "none"
             /\ \A m \in 1..(t[2] - 1) : usage[<<t[1], m>>].state # "none"
IsLatest(t) == /\ usage[t].state # "none"
               /\ \A m \in (t[2] + 1)..MaxClaims[t[1]] : usage[<<t[1], m>>].state = "none"

-----------------------------------------------------------------------------
(* Usage rows and their dispatch chains.                                   *)

\* Mutant of PaidKey: a retry asks under a key of its own.
PaidKeyOfRetry(s, k) ==
    <<IdentityOf[s], IF slot[s].count < MaxSequence THEN slot[s].count ELSE MaxSequence>>

PaidKey(s, k) == <<IdentityOf[s], k>>

Reserved(s, k) == [state |-> "reserved", key |-> PaidKey(s, k),
                   attempt |-> slot[s].count + 1, billed |-> 1, event |-> "reserved"]

\* Mutants of Releasable: money comes back for what was sent, or comes back twice.
ReleasableOpen(u) == u.state \in {"reserved", "sent"}
ReleasableUnsent(u) == u.state \in {"reserved", "not_sent"}

\* _release_unsent_usage: refundable only before the durable send boundary.
Releasable(u) == u.state = "reserved"
Released(u) == [u EXCEPT !.state = "not_sent", !.billed = 0, !.event = "not_sent"]

\* Mutant of FinishIfOpen: the chain ends with the usage's state.
FinishWithState(u, outcome) == IF u.event \in OpenEvent THEN u.state ELSE u.event

\* _finish_dispatch_if_open: an earlier recovery terminal is preserved.
FinishIfOpen(u, outcome) == IF u.event \in OpenEvent THEN outcome ELSE u.event

\* Mutants of Recovered: the chain stays open, or only sent usages are looked at.
RecoveredRowOnly(u) ==
    IF Releasable(u) THEN Released(u)
    ELSE IF u.state \in {"sent", "billing_unknown"}
         THEN [u EXCEPT !.state = "billing_unknown"] ELSE u
RecoveredSentOnly(u) ==
    IF u.state \in {"sent", "billing_unknown"}
    THEN [u EXCEPT !.state = "billing_unknown", !.event = FinishIfOpen(u, "billing_unknown")]
    ELSE u

\* capture.py:558-608: what recovery makes of a usage of a stale slot.
Recovered(u) ==
    IF Releasable(u) THEN Released(u)
    ELSE IF u.state \in {"sent", "billing_unknown"}
         THEN [u EXCEPT !.state = "billing_unknown",
                        !.event = FinishIfOpen(u, "billing_unknown")]
         ELSE u

\* _settle_budget and the end of the dispatch chain; billed may be unknown.
Settled(u, ok, billed) ==
    CASE billed = "unknown" ->
            [u EXCEPT !.state = "billing_unknown", !.event = FinishIfOpen(u, "billing_unknown")]
      [] OTHER ->
            [u EXCEPT !.state = IF ok THEN "completed" ELSE "failed",
                      !.billed = IF billed = "no" THEN 0 ELSE @,
                      !.event = FinishIfOpen(u, IF ok THEN "succeeded" ELSE "failed")]

\* Mutant of AdmissionAfter: an answer settles the admission whatever it says.
AdmissionAnswered(state, billed) == IF state = "sent_unsettled" THEN "settled" ELSE state

AdmissionAfter(state, billed) ==
    IF state = "sent_unsettled" /\ billed # "unknown" THEN "settled" ELSE state

-----------------------------------------------------------------------------
(* The slot's fences.                                                      *)

\* _paid_slot_owner without the scheduler's part.
HoldsSlot(t) ==
    LET s == slot[t[1]]
        u == usage[t]
        expected == IF phase[t] \in {"sent", "called"} THEN u.attempt ELSE u.attempt - 1
    IN  /\ s.status = "running" /\ s.count = expected
        /\ u.state \in {"reserved", "sent", "billing_unknown"} /\ u.billed = 1

\* Mutant of OwnsSlot: the scheduler attempt is not looked at.
OwnsSlotAnyAttempt(t) == HoldsSlot(t)

\* _paid_slot_owner: the attempt must run, its lease is not compared.
OwnsSlot(t) == owner[t] # "lost" /\ HoldsSlot(t)

Unresolved(usages, s) == \E t \in TicketsOf(s) : usages[t].state = "billing_unknown"

-----------------------------------------------------------------------------
InitFetch ==
    /\ slot = [s \in Slots |-> [status |-> "pending", count |-> 0, guard |-> FALSE]]
    /\ usage = [t \in Tickets |-> NoUsage(t[1])]
    /\ owner = [t \in Tickets |-> "lost"]
    /\ phase = [t \in Tickets |-> "gone"]
    /\ consumed = 0
    /\ admission = [key \in Keys |-> "none"]
    /\ scopeClaims = {} /\ sendFiles = {} /\ settled = {} /\ calls = {}

\* consumed_requests after n refunds: MAX(0, consumed_requests - 1) each.
Refunded(n) == IF n < consumed THEN consumed - n ELSE 0

\* The rest of the claim transaction: money, admission and slot are taken.  An
\* admission that is still reserved is kept as it is.
Reserve(t, k) ==
    LET s == t[1]
        key == PaidKey(s, k)
    IN  /\ IsNext(t) /\ consumed < MaxRequests
        /\ key \notin scopeClaims
        /\ admission[key] \in {"none", "released_unsent", "reserved_unsent"}
        /\ admission' = [admission EXCEPT ![key] = "reserved_unsent"]
        /\ consumed' = consumed + 1
        /\ usage' = [usage EXCEPT ![t] = Reserved(s, k)]
        /\ slot' = [slot EXCEPT ![s] = [@ EXCEPT !.status = "running", !.guard = FALSE]]
        /\ phase' = [phase EXCEPT ![t] = "claimed"]
        /\ UNCHANGED <<scopeClaims, sendFiles, settled, calls>>

\* _claim_paid_tikhub for the first purchase of an identity.
Claim(t) ==
    /\ slot[t[1]].status \in {"pending", "retryable_failed", "terminal_failed"}
    /\ ~slot[t[1]].guard
    /\ Reserve(t, 0)

\* authorize_compensation: sequence k follows the settled purchase k - 1.
Authorized(s, k) == PaidKey(s, k - 1) \in scopeClaims \cap settled

\* _claim_paid_tikhub inside an authorized compensation: the slot's guard and
\* result do not matter.
Compensation(t, k) ==
    /\ slot[t[1]].status # "running"
    /\ Authorized(t[1], k)
    /\ Reserve(t, k)

\* The work item of a slot has one executor: when it compensates, no fetcher of the
\* slot that is still at work has a running attempt (a theorem of PaidWork).
Compensate(t, k) ==
    /\ \A u \in TicketsOf(t[1]) : phase[u] # "gone" => owner[u] = "lost"
    /\ Compensation(t, k)

\* The checks of _mark_paid_sent that this model can tell apart.
MaySend(t) ==
    /\ phase[t] = "claimed" /\ owner[t] = "live" /\ OwnsSlot(t)
    /\ usage[t].state = "reserved"
    /\ admission[usage[t].key] = "reserved_unsent"
    /\ usage[t].key \notin scopeClaims
    /\ usage[t].key \notin sendFiles

\* _mark_paid_sent: the file first, then everything else in one transaction.
Send(t) ==
    LET key == usage[t].key
    IN  /\ MaySend(t)
        /\ sendFiles' = sendFiles \cup {key}
        /\ scopeClaims' = scopeClaims \cup {key}
        /\ admission' = [admission EXCEPT ![key] = "sent_unsettled"]
        /\ usage' = [usage EXCEPT ![t] = [@ EXCEPT !.state = "sent", !.event = "send_marked"]]
        /\ slot' = [slot EXCEPT ![t[1]].count = usage[t].attempt]
        /\ phase' = [phase EXCEPT ![t] = "sent"]
        /\ UNCHANGED <<consumed, settled, calls>>

\* The transaction fails after the file was created, or the process dies between
\* the two: the file stays.
SendFailsLate(t, next) ==
    /\ MaySend(t)
    /\ sendFiles' = sendFiles \cup {usage[t].key}
    /\ phase' = [phase EXCEPT ![t] = next]
    /\ UNCHANGED <<slot, usage, consumed, admission, scopeClaims, settled, calls>>

\* A check of _mark_paid_sent refuses: a lost fence, a used key, a quota, a
\* changed price, a drain (which cleans nothing up, so the fetcher is gone).
SendRefused(t, next) ==
    /\ phase[t] = "claimed"
    /\ phase' = [phase EXCEPT ![t] = next]
    /\ UNCHANGED <<slot, usage, consumed, admission, scopeClaims, sendFiles,
                   settled, calls>>

\* The cleanup transaction of a refused send.
CleanUp(t) ==
    LET key == usage[t].key
        status == IF phase[t] = "held" THEN "terminal_failed" ELSE "pending"
    IN  /\ phase[t] \in {"refused", "held"}
        /\ phase' = [phase EXCEPT ![t] = "gone"]
        /\ IF Releasable(usage[t])
           THEN /\ usage' = [usage EXCEPT ![t] = Released(@)]
                /\ consumed' = Refunded(1)
                /\ admission' = [admission EXCEPT ![key] =
                                    IF @ = "reserved_unsent" THEN "released_unsent" ELSE @]
                /\ slot' = [slot EXCEPT ![t[1]] =
                               IF HoldsSlot(t)
                               THEN [@ EXCEPT !.status = status, !.guard = FALSE] ELSE @]
           ELSE UNCHANGED <<slot, usage, consumed, admission>>
        /\ UNCHANGED <<scopeClaims, sendFiles, settled, calls>>

\* The network call, outside every transaction.
Call(t) ==
    /\ phase[t] = "sent"
    /\ phase' = [phase EXCEPT ![t] = "called"]
    /\ calls' = calls \cup {t}
    /\ UNCHANGED <<slot, usage, consumed, admission, scopeClaims, sendFiles, settled>>

\* The slot after an answer: its owner ends it, anybody else may only lift a
\* guard that nothing unresolved stands behind any more.
SlotAfter(t, usages, status, billed) ==
    LET s == slot[t[1]]
    IN  IF OwnsSlot(t)
        THEN [s EXCEPT !.status = status, !.guard = @ \/ billed = "unknown"]
        ELSE [s EXCEPT !.guard = @ /\ (billed = "unknown" \/ Unresolved(usages, t[1]))]

\* The answer's transaction in _execute_claimed_fetch_in_slot.
Answer(t, ok, billed, status) ==
    /\ phase[t] = "called"
    /\ phase' = [phase EXCEPT ![t] = "gone"]
    /\ usage' = [usage EXCEPT ![t] = Settled(@, ok, billed)]
    /\ consumed' = Refunded(usage[t].billed - usage'[t].billed)
    /\ admission' = [admission EXCEPT ![usage[t].key] = AdmissionAfter(@, billed)]
    /\ slot' = [slot EXCEPT ![t[1]] = SlotAfter(t, usage', status, billed)]
    /\ UNCHANGED <<scopeClaims, sendFiles, settled, calls>>

AnswerOk(t) == \E billed \in {"yes", "no"} : Answer(t, TRUE, billed, "succeeded")
AnswerFailed(t) ==
    \E billed \in {"yes", "no", "unknown"}, status \in {"retryable_failed", "terminal_failed"} :
        Answer(t, FALSE, billed, status)

\* The fetcher dies or is cancelled, at whatever point.
AbandonFetch(t) ==
    /\ phase[t] # "gone"
    /\ phase' = [phase EXCEPT ![t] = "gone"]
    /\ UNCHANGED <<slot, usage, consumed, admission, scopeClaims, sendFiles,
                   settled, calls>>

\* Running slots none of whose scheduler attempts has a valid lease.
Recoverable == {s \in Slots : slot[s].status = "running"
                              /\ \A t \in TicketsOf(s) : owner[t] # "live"}

\* recover_stale_fetch_slots over those of them that are old enough; the guard is
\* synchronized for every slot.  Admissions are left alone.
Recover(S) ==
    /\ usage' = [t \in Tickets |-> IF t[1] \in S THEN Recovered(usage[t]) ELSE usage[t]]
    /\ consumed' = Refunded(Cardinality({t \in Tickets : usage[t].billed # usage'[t].billed}))
    /\ slot' = [s \in Slots |->
                   [slot[s] EXCEPT
                       !.status = IF s \in S THEN "retryable_failed" ELSE @,
                       !.guard = Unresolved(usage', s) \/ (s \notin S /\ @)]]
    /\ slot' # slot
    /\ UNCHANGED <<phase, admission, scopeClaims, sendFiles, settled, calls>>

\* A new writer process: recover_interrupted_scheduler_runs ends every attempt
\* before it recovers slots.
Restart ==
    /\ phase' = [t \in Tickets |-> "gone"]
    /\ owner' = [t \in Tickets |-> "lost"]
    /\ UNCHANGED <<slot, usage, consumed, admission, scopeClaims, sendFiles, settled, calls>>

OwnersBecome(S, state) ==
    /\ owner' = [t \in Tickets |-> IF t \in S THEN state ELSE owner[t]]
    /\ UNCHANGED <<slot, usage, phase, consumed, admission, scopeClaims, sendFiles,
                   settled, calls>>

\* Leases of the tickets' attempts expire; attempts are recovered or end.  Tickets
\* may have one attempt in common, and one recovery ends many.
Lapse(S) == (\A t \in S : owner[t] = "live") /\ OwnersBecome(S, "lapsed")
Lose(S) == (\A t \in S : owner[t] # "lost") /\ OwnersBecome(S, "lost")

\* reconcile_due: a send is conservatively charged, whatever became of it.
Settle(t) ==
    /\ usage[t].state \in {"sent", "completed", "failed", "billing_unknown"}
    /\ usage[t].key \notin settled
    /\ settled' = settled \cup {usage[t].key}
    /\ UNCHANGED <<slot, usage, phase, consumed, admission, scopeClaims,
                   sendFiles, calls>>

\* mark_fetch_slot_terminal_failure, after a business failure of the payload.
MarkTerminal(s) ==
    /\ slot[s].status = "succeeded"
    /\ slot' = [slot EXCEPT ![s].status = "terminal_failed"]
    /\ UNCHANGED <<usage, phase, consumed, admission, scopeClaims, sendFiles,
                   settled, calls>>

Refusals == {"refused", "held", "gone"}

\* What the fetcher itself does next.
Fetch(t) ==
    \/ Send(t)
    \/ \E next \in Refusals : SendFailsLate(t, next) \/ SendRefused(t, next)
    \/ CleanUp(t)
    \/ Call(t)
    \/ AnswerOk(t)
    \/ AnswerFailed(t)

\* A step of the tables and the fetchers; the scheduler's attempts stay as they are.
TableStep ==
    \/ \E t \in Tickets : Fetch(t) \/ AbandonFetch(t) \/ Settle(t)
    \/ \E S \in SUBSET Recoverable : Recover(S)
    \/ \E s \in Slots : MarkTerminal(s)

\* The claim asserts the ticket's attempt and renews its lease.
ClaimFetch(t) ==
    /\ Claim(t) \/ \E k \in 1..MaxSequence : Compensate(t, k)
    /\ owner' = [owner EXCEPT ![t] = "live"]

NextFetch ==
    \/ \E t \in Tickets : ClaimFetch(t)
    \/ TableStep /\ UNCHANGED owner
    \/ \E S \in SUBSET Tickets : Lapse(S) \/ Lose(S)
    \/ Restart

FetchSpec == InitFetch /\ [][NextFetch]_fetchVars

-----------------------------------------------------------------------------
(* What the paid path promises.                                            *)

FetchTypeOK ==
    /\ slot \in [Slots -> Slot]
    /\ usage \in [Tickets -> Usage]
    /\ owner \in [Tickets -> Owner]
    /\ phase \in [Tickets -> Phase]
    /\ consumed \in Nat
    /\ admission \in [Keys -> Admission]
    /\ scopeClaims \subseteq Keys /\ sendFiles \subseteq Keys /\ settled \subseteq Keys
    /\ calls \subseteq Tickets

\* No request is bought twice: two network calls for one identity, from whatever
\* slots, retries and restarts, have different sequences, and each sequence after
\* the first is called only when the one before it was settled ("Acquire a durable
\* one-winner claim before a paid network send", raw_evidence.py:399).
BoughtOnce ==
    /\ \A c, d \in calls : usage[c].key = usage[d].key => c = d
    /\ \A c \in calls : usage[c].key[2] > 0 =>
          <<usage[c].key[1], usage[c].key[2] - 1>> \in settled

\* A reservation that was given back as not sent was never called and no fetcher
\* can still call it, although recovery and cleanup give back from outside
\* (_release_unsent_usage, capture.py:1825-1852).
ReleasedNeverCalls ==
    \A t \in Tickets : usage[t].state = "not_sent" =>
        t \notin calls /\ phase[t] \notin {"sent", "called"}

\* The budget's counter is the number of billed usages after every interleaving of
\* cleanup, recovery and late answers, stays within its ceiling, and a usage whose
\* billing is open or unknown keeps its money (capture.py:1069-1228).
BudgetBalanced ==
    /\ consumed = Cardinality({t \in Tickets : usage[t].billed = 1})
    /\ consumed <= MaxRequests
    /\ \A t \in Tickets : usage[t].state \in Open \cup {"billing_unknown"} => usage[t].billed = 1

\* A usage is open exactly as long as its dispatch chain is, which is what a profile
\* drain waits for, and then its slot is running for it and nothing else.
OpenUsageHoldsSlot ==
    \A t \in Tickets :
        /\ usage[t].state \in Open <=> usage[t].event \in OpenEvent
        /\ usage[t].state \in Open => slot[t[1]].status = "running" /\ IsLatest(t)

\* The admission row follows the purchase of its key: unsettled while the answer is
\* missing or its billing unknown, settled after it; raw retention relies on it
\* (local_raw_retention.py:224-225).
AdmissionFollowsPurchase ==
    \A t \in Tickets :
        /\ usage[t].state \in {"sent", "billing_unknown"} =>
              admission[usage[t].key] = "sent_unsettled"
        /\ usage[t].state \in {"completed", "failed"} => admission[usage[t].key] = "settled"

\* A late answer is audit only: a fetcher that lost its scheduler attempt, or that
\* the slot was claimed after, settles its own usage and leaves the slot's status and
\* attempt count as they are ("Late response retained as audit only",
\* capture.py:3295-3299).
LateAnswersAreAudit ==
    [][\A t \in Tickets :
          phase[t] = "called" /\ phase'[t] = "gone" /\ (owner[t] = "lost" \/ ~IsLatest(t)) =>
              /\ slot'[t[1]].status = slot[t[1]].status
              /\ slot'[t[1]].count = slot[t[1]].count]_fetchVars

=============================================================================
