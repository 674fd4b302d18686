-------------------------- MODULE PaidFetchProofs --------------------------
(***************************************************************************)
(* Proofs about PaidFetch, for any slots, identities and numbers of claims *)
(* and compensations.                                                      *)
(*                                                                         *)
(* What protects a purchase is the ledger of paid keys: a usage crosses    *)
(* the send boundary only under a key that no other usage has, and every   *)
(* call is behind the boundary (Purchases).  An ordinary claim asks under  *)
(* sequence 0, which a used identity has lost for ever (Sequences), so a   *)
(* fetcher behind the boundary can only be overtaken by a compensation,    *)
(* which waits until its attempt is over (Overtaken).                      *)
(***************************************************************************)
EXTENDS PaidFetch, FiniteSetTheorems, TLAPS

Crossed(t) == usage[t].state \in {"sent", "completed", "failed", "billing_unknown"}

\* Whoever is behind the send boundary owns its key.
Purchases ==
    /\ \A t \in Tickets : Crossed(t) => usage[t].key \in scopeClaims
    /\ \A t, u \in Tickets : Crossed(t) /\ Crossed(u) /\ usage[t].key = usage[u].key => t = u
    /\ \A t \in Tickets : t \in calls => Crossed(t)
    /\ \A t \in Tickets : phase[t] \in {"sent", "called"} =>
          usage[t].state \in {"sent", "billing_unknown"}

\* Sequences of an identity start at 0 and follow settled ones.
Sequences ==
    /\ \A t \in Tickets : usage[t].key[1] = IdentityOf[t[1]]
    /\ \A t \in Tickets : usage[t].key[2] > 0 =>
          /\ <<usage[t].key[1], usage[t].key[2] - 1>> \in settled
          /\ <<usage[t].key[1], 0>> \in scopeClaims
    /\ \A key \in scopeClaims : <<key[1], 0>> \in scopeClaims

\* Tickets are used in order.
InOrder ==
    \A t \in Tickets : usage[t].state # "none" =>
        \A m \in 1..(t[2] - 1) : usage[<<t[1], m>>].state # "none"

\* A fetcher behind the send boundary that was overtaken has no running attempt.
Overtaken ==
    \A t \in Tickets : phase[t] \in {"sent", "called"} /\ ~IsLatest(t) => owner[t] = "lost"

\* A ticket nobody used costs nothing.
UnusedIsFree == \A t \in Tickets : usage[t].state = "none" => usage[t].billed = 0

IInv == /\ FetchTypeOK /\ Purchases /\ Sequences /\ InOrder /\ Overtaken /\ UnusedIsFree
        /\ OpenUsageHoldsSlot /\ BudgetBalanced /\ AdmissionFollowsPurchase

-----------------------------------------------------------------------------
(* Tickets and keys. *)
LEMMA TicketFacts ==
    ASSUME NEW t \in Tickets
    PROVE  /\ t[1] \in Slots /\ t[2] \in 1..MaxClaims[t[1]] /\ t = <<t[1], t[2]>>
           /\ t \in TicketsOf(t[1])
           /\ \A m \in 1..MaxClaims[t[1]] : <<t[1], m>> \in Tickets
BY DEF Tickets, TicketsOf

(* The tickets of a slot are those that name it. *)
LEMMA TicketsOfSlot ==
    ASSUME NEW s \in Slots
    PROVE  /\ TicketsOf(s) \subseteq Tickets
           /\ \A t \in Tickets : t \in TicketsOf(s) <=> t[1] = s
BY DEF Tickets, TicketsOf

(* Slots are finitely many, and so are their claims. *)
LEMMA TicketsAreFinite == IsFiniteSet(Tickets)
<1> DEFINE f == [s \in Slots |-> TicketsOf(s)]
<1>1. f \in Surjection(Slots, {TicketsOf(s) : s \in Slots})
  BY DEF Surjection
<1>2. IsFiniteSet({TicketsOf(s) : s \in Slots})
  BY <1>1, FS_Surjection, FetchConstants DEF FetchConstants
<1>3. ASSUME NEW s \in Slots PROVE IsFiniteSet(TicketsOf(s))
  <2>1. IsFiniteSet({s}) BY FS_Singleton
  <2>2. MaxClaims[s] \in Nat BY FetchConstants DEF FetchConstants
  <2>3. IsFiniteSet(1..MaxClaims[s]) BY <2>2, FS_Interval
  <2> QED BY <2>1, <2>3, FS_Product DEF TicketsOf
<1> QED BY <1>2, <1>3, FS_UNION DEF Tickets

(* A paid key is an identity and a sequence. *)
LEMMA KeyFacts ==
    ASSUME NEW key \in Keys
    PROVE  /\ key[1] \in Identities /\ key[2] \in 0..MaxSequence
           /\ key = <<key[1], key[2]>>
BY DEF Keys

(* The latest ticket of a slot is one. *)
LEMMA OneLatest ==
    ASSUME FetchConstants, NEW t \in Tickets, NEW u \in Tickets, t[1] = u[1],
           IsLatest(t), IsLatest(u)
    PROVE  t = u
<1>1. t[2] \in 1..MaxClaims[t[1]] /\ u[2] \in 1..MaxClaims[t[1]] /\ MaxClaims[t[1]] \in Nat
  BY TicketFacts DEF FetchConstants
<1>2. t = <<t[1], t[2]>> /\ u = <<t[1], u[2]>>
  BY TicketFacts
<1>3. ~(t[2] < u[2])
  BY <1>1, <1>2 DEF IsLatest
<1>4. ~(u[2] < t[2])
  BY <1>1, <1>2 DEF IsLatest
<1> QED BY <1>1, <1>2, <1>3, <1>4

(* As long as no ticket is born, the latest stays the latest. *)
LEMMA NoBirth ==
    ASSUME FetchConstants,
           \A t \in Tickets : usage'[t].state = "none" <=> usage[t].state = "none"
    PROVE  /\ \A t \in Tickets : IsLatest(t)' <=> IsLatest(t)
           /\ InOrder => InOrder'
<1>1. ASSUME NEW t \in Tickets
      PROVE  \A m \in 1..MaxClaims[t[1]] :
                usage'[<<t[1], m>>].state = "none" <=> usage[<<t[1], m>>].state = "none"
  BY TicketFacts
<1>2. ASSUME NEW t \in Tickets
      PROVE  t[2] \in 1..MaxClaims[t[1]] /\ MaxClaims[t[1]] \in Nat
  BY TicketFacts DEF FetchConstants
<1>3. ASSUME NEW t \in Tickets PROVE IsLatest(t)' <=> IsLatest(t)
  BY <1>1, <1>2 DEF IsLatest
<1>4. ASSUME InOrder PROVE InOrder'
  BY <1>1, <1>2, <1>4 DEF InOrder
<1> QED BY <1>3, <1>4

(* What the operators on usages return. *)
LEMMA UsageOperators ==
    ASSUME NEW u \in Usage, NEW ok \in BOOLEAN, NEW billed \in {"yes", "no", "unknown"}
    PROVE  /\ Released(u) \in Usage /\ Recovered(u) \in Usage /\ Settled(u, ok, billed) \in Usage
           /\ Released(u).key = u.key /\ Recovered(u).key = u.key
           /\ Settled(u, ok, billed).key = u.key
<1>1. Released(u) \in Usage /\ Released(u).key = u.key
  BY DEF Usage, UsageState, Open, Event, OpenEvent, Released
<1>2. Recovered(u) \in Usage /\ Recovered(u).key = u.key
  <2>1. \A e \in Event : /\ [u EXCEPT !.state = "billing_unknown", !.event = e] \in Usage
                         /\ [u EXCEPT !.state = "billing_unknown", !.event = e].key = u.key
    BY DEF Usage, UsageState, Open
  <2>2. FinishIfOpen(u, "billing_unknown") \in Event
    BY DEF FinishIfOpen, Usage, Event, OpenEvent
  <2> QED BY <1>1, <2>1, <2>2, Zenon DEF Recovered
<1>3. Settled(u, ok, billed) \in Usage /\ Settled(u, ok, billed).key = u.key
  <2>1. \A outcome \in {"billing_unknown", "succeeded", "failed"} :
           FinishIfOpen(u, outcome) \in Event
    BY DEF FinishIfOpen, Usage, Event, OpenEvent
  <2>2. CASE billed = "unknown"
    <3>1. \A e \in Event : /\ [u EXCEPT !.state = "billing_unknown", !.event = e] \in Usage
                           /\ [u EXCEPT !.state = "billing_unknown", !.event = e].key = u.key
      BY DEF Usage, UsageState, Open
    <3> QED BY <2>1, <2>2, <3>1, Zenon DEF Settled
  <2>3. CASE billed # "unknown"
    <3> DEFINE state == IF ok THEN "completed" ELSE "failed"
               cost == IF billed = "no" THEN 0 ELSE u.billed
               e == FinishIfOpen(u, IF ok THEN "succeeded" ELSE "failed")
    <3>1. state \in UsageState /\ cost \in {0, 1} /\ e \in Event
      BY <2>1 DEF Usage, UsageState
    <3>2. Settled(u, ok, billed) = [u EXCEPT !.state = state, !.billed = cost, !.event = e]
      BY <2>3 DEF Settled
    <3> HIDE DEF state, cost, e
    <3> QED BY <3>1, <3>2 DEF Usage
  <2> QED BY <2>2, <2>3, Zenon
<1> QED BY <1>1, <1>2, <1>3

(* What recovery makes of each state of a usage. *)
LEMMA RecoveredUsage ==
    ASSUME NEW u \in Usage
    PROVE  /\ u.state = "reserved" => /\ Recovered(u).state = "not_sent"
                                      /\ Recovered(u).billed = 0
                                      /\ Recovered(u).event = "not_sent"
           /\ u.state \in {"sent", "billing_unknown"} =>
                 /\ Recovered(u).state = "billing_unknown"
                 /\ Recovered(u).billed = u.billed
                 /\ Recovered(u).event = IF u.event \in OpenEvent THEN "billing_unknown"
                                                                ELSE u.event
           /\ u.state \notin {"reserved", "sent", "billing_unknown"} => Recovered(u) = u
BY DEF Usage, Released, Recovered, Releasable, FinishIfOpen

(* A refund the counter can bear is subtracted in full. *)
LEMMA RefundedType ==
    ASSUME NEW n \in Nat, consumed \in Nat
    PROVE  /\ Refunded(n) \in Nat
           /\ n <= consumed => Refunded(n) = consumed - n
BY DEF Refunded

(* No purchase is made or forgotten. *)
LEMMA PurchasesKept ==
    ASSUME Purchases, UNCHANGED <<scopeClaims, calls>>,
           \A t \in Tickets : Crossed(t)' <=> Crossed(t),
           \A t \in Tickets : usage'[t].key = usage[t].key,
           \A t \in Tickets : phase'[t] \in {"sent", "called"} =>
               usage'[t].state \in {"sent", "billing_unknown"}
    PROVE  Purchases'
<1>1. \A t \in Tickets : Crossed(t)' => usage'[t].key \in scopeClaims'
  BY DEF Purchases
<1>2. \A t, u \in Tickets : Crossed(t)' /\ Crossed(u)' /\ usage'[t].key = usage'[u].key => t = u
  BY DEF Purchases
<1>3. \A t \in Tickets : t \in calls' => Crossed(t)'
  BY DEF Purchases
<1> QED BY <1>1, <1>2, <1>3 DEF Purchases

-----------------------------------------------------------------------------
(* The claim. *)
LEMMA ReserveStep ==
    ASSUME FetchConstants, IInv, NEW t \in Tickets, NEW k \in 0..MaxSequence, Reserve(t, k),
           owner' = [owner EXCEPT ![t] = "live"],
           slot[t[1]].status # "running",
           \A u \in TicketsOf(t[1]) : phase[u] \in {"sent", "called"} => owner[u] = "lost",
           k > 0 => /\ <<IdentityOf[t[1]], k - 1>> \in settled
                    /\ <<IdentityOf[t[1]], 0>> \in scopeClaims
    PROVE  IInv'
<1> DEFINE s == t[1]
           key == <<IdentityOf[s], k>>
<1>t. /\ s \in Slots /\ t[2] \in 1..MaxClaims[s] /\ MaxClaims[s] \in Nat
      /\ IdentityOf[s] \in Identities /\ key \in Keys /\ MaxSequence \in Nat
  BY TicketFacts DEF FetchConstants, Keys
<1>r. Reserved(s, k) = [state |-> "reserved", key |-> key, attempt |-> slot[s].count + 1,
                        billed |-> 1, event |-> "reserved"]
  BY DEF Reserved, PaidKey
<1>u. /\ usage[t].state = "none" /\ consumed < MaxRequests /\ key \notin scopeClaims
      /\ admission[key] \in {"none", "released_unsent", "reserved_unsent"}
      /\ admission' = [admission EXCEPT ![key] = "reserved_unsent"]
      /\ consumed' = consumed + 1
      /\ usage' = [usage EXCEPT ![t] = Reserved(s, k)]
      /\ slot' = [slot EXCEPT ![s] = [@ EXCEPT !.status = "running", !.guard = FALSE]]
      /\ owner' = [owner EXCEPT ![t] = "live"]
      /\ phase' = [phase EXCEPT ![t] = "claimed"]
      /\ UNCHANGED <<scopeClaims, sendFiles, settled, calls>>
      /\ \A m \in 1..(t[2] - 1) : usage[<<s, m>>].state # "none"
  BY DEF Reserve, IsNext, PaidKey
<1>v. /\ usage \in [Tickets -> Usage] /\ usage'[t] = Reserved(s, k)
      /\ \A u \in Tickets : u # t => usage'[u] = usage[u]
  BY <1>u DEF IInv, FetchTypeOK
<1>1. FetchTypeOK'
  <2>1. slot' \in [Slots -> Slot]
    <3>1. slot \in [Slots -> Slot]
      BY DEF IInv, FetchTypeOK
    <3>2. [slot[s] EXCEPT !.status = "running", !.guard = FALSE] \in Slot
      BY <3>1, <1>t DEF Slot
    <3> QED BY <1>u, <3>1, <3>2
  <2>2. Reserved(s, k) \in Usage
    <3>1. slot[s].count \in Nat
      BY <1>t DEF IInv, FetchTypeOK, Slot
    <3> QED BY <1>r, <1>t, <3>1 DEF Usage, UsageState, Open, Event, OpenEvent
  <2>3. usage' \in [Tickets -> Usage]
    BY <1>u, <2>2 DEF IInv, FetchTypeOK
  <2>4. /\ owner' \in [Tickets -> Owner] /\ phase' \in [Tickets -> Phase]
        /\ admission' \in [Keys -> Admission] /\ consumed' \in Nat
    BY <1>u, <1>t DEF IInv, FetchTypeOK, Owner, Phase, Admission
  <2> QED BY <1>u, <2>1, <2>3, <2>4 DEF IInv, FetchTypeOK
<1>2. Purchases'
  <2>1. \A u \in Tickets : Crossed(u)' <=> (u # t /\ Crossed(u))
    BY <1>v, <1>r, <1>u DEF Crossed
  <2>2. \A u \in Tickets : Crossed(u) => u # t
    BY <1>u DEF Crossed
  <2>3. \A u \in Tickets : phase'[u] \in {"sent", "called"} => u # t /\ phase[u] \in {"sent", "called"}
    BY <1>u DEF IInv, FetchTypeOK
  <2> QED BY <1>u, <1>v, <2>1, <2>2, <2>3 DEF IInv, Purchases
<1>3. Sequences'
  <2>1. usage'[t].key = key /\ key[1] = IdentityOf[s] /\ key[2] = k
    BY <1>v, <1>r
  <2>2. \A u \in Tickets : usage'[u].key = IF u = t THEN key ELSE usage[u].key
    BY <1>v, <2>1
  <2>3. \A u \in Tickets : usage'[u].key[1] = IdentityOf[u[1]]
    BY <2>1, <2>2 DEF IInv, Sequences
  <2>4. \A u \in Tickets : usage'[u].key[2] > 0 =>
          /\ <<usage'[u].key[1], usage'[u].key[2] - 1>> \in settled
          /\ <<usage'[u].key[1], 0>> \in scopeClaims
    <3>1. Sequences
      BY Zenon DEF IInv
    <3>2. k > 0 => /\ <<key[1], key[2] - 1>> \in settled /\ <<key[1], 0>> \in scopeClaims
      BY <2>1
    <3> HIDE DEF key
    <3> QED BY <2>1, <2>2, <3>1, <3>2 DEF Sequences
  <2>5. settled' = settled /\ scopeClaims' = scopeClaims
    BY <1>u
  <2>6. \A q \in scopeClaims : <<q[1], 0>> \in scopeClaims
    BY DEF IInv, Sequences
  <2> HIDE DEF key
  <2> QED BY <2>3, <2>4, <2>5, <2>6 DEF Sequences
<1>4. ASSUME NEW u \in Tickets, u[1] = s, usage[u].state # "none"
      PROVE  u[2] < t[2]
  <2>1. u = <<s, u[2]>> /\ t = <<s, t[2]>> /\ u[2] \in 1..MaxClaims[s]
    BY <1>4, TicketFacts
  <2>2. \A m \in 1..(u[2] - 1) : usage[<<s, m>>].state # "none"
    BY <1>4 DEF IInv, InOrder
  <2>3. ~(t[2] < u[2])
    BY <1>t, <1>u, <2>1, <2>2
  <2>4. t[2] # u[2]
    BY <1>4, <1>u, <2>1
  <2> QED BY <1>t, <2>1, <2>3, <2>4
<1>5. InOrder'
  <2> SUFFICES ASSUME NEW u \in Tickets, usage'[u].state # "none", NEW m \in 1..(u[2] - 1)
               PROVE  usage'[<<u[1], m>>].state # "none"
    BY DEF InOrder
  <2>1. <<u[1], m>> \in Tickets
    BY TicketFacts DEF FetchConstants
  <2>2. usage[<<u[1], m>>].state # "none"
    BY <1>u, <1>v DEF IInv, InOrder
  <2> QED BY <2>1, <2>2, <1>u, <1>v
<1>6. IsLatest(t)'
  <2> SUFFICES ASSUME NEW m \in (t[2] + 1)..MaxClaims[s]
               PROVE  usage'[<<s, m>>].state = "none"
    BY <1>v, <1>r DEF IsLatest
  <2>1. <<s, m>> \in Tickets /\ <<s, m>>[1] = s /\ <<s, m>>[2] = m
    BY <1>t, TicketFacts
  <2>2. usage[<<s, m>>].state = "none"
    BY <1>t, <1>4, <2>1
  <2> QED BY <1>t, <1>v, <2>1, <2>2, TicketFacts
<1>7. ASSUME NEW u \in Tickets, u[1] # s PROVE IsLatest(u)' <=> IsLatest(u)
  <2>1. \A m \in 1..MaxClaims[u[1]] : usage'[<<u[1], m>>] = usage[<<u[1], m>>]
    BY <1>7, <1>v, TicketFacts
  <2>2. u[2] \in 1..MaxClaims[u[1]] /\ MaxClaims[u[1]] \in Nat
    BY TicketFacts DEF FetchConstants
  <2>3. usage'[u] = usage[u]
    BY <1>7, <1>v
  <2> QED BY <2>1, <2>2, <2>3 DEF IsLatest
<1>8. Overtaken'
  <2> SUFFICES ASSUME NEW u \in Tickets, phase'[u] \in {"sent", "called"}, ~IsLatest(u)'
               PROVE  owner'[u] = "lost"
    BY DEF Overtaken
  <2>1. u # t /\ phase[u] \in {"sent", "called"} /\ owner'[u] = owner[u]
    BY <1>u, <1>t DEF IInv, FetchTypeOK
  <2>2. CASE u[1] = s
    BY <2>1, <2>2, <1>t, TicketsOfSlot
  <2>3. CASE u[1] # s
    BY <2>1, <2>3, <1>7 DEF IInv, Overtaken
  <2> QED BY <2>2, <2>3
<1>9. UnusedIsFree'
  BY <1>v, <1>r DEF IInv, UnusedIsFree
<1>10. OpenUsageHoldsSlot'
  <2>1. slot'[s].status = "running" /\ \A r \in Slots : r # s => slot'[r] = slot[r]
    BY <1>u, <1>t DEF IInv, FetchTypeOK, Slot
  <2> SUFFICES ASSUME NEW u \in Tickets
               PROVE  /\ usage'[u].state \in Open <=> usage'[u].event \in OpenEvent
                      /\ usage'[u].state \in Open =>
                            slot'[u[1]].status = "running" /\ IsLatest(u)'
    BY DEF OpenUsageHoldsSlot
  <2>2. CASE u = t
    BY <2>1, <2>2, <1>v, <1>r, <1>6 DEF Open, OpenEvent
  <2>3. CASE u # t
    <3>1. usage'[u] = usage[u] /\ (usage[u].state \in Open <=> usage[u].event \in OpenEvent)
      BY <2>3, <1>v DEF IInv, OpenUsageHoldsSlot
    <3>2. ASSUME usage[u].state \in Open
          PROVE  u[1] # s /\ slot[u[1]].status = "running" /\ IsLatest(u)
      BY <3>2 DEF IInv, OpenUsageHoldsSlot
    <3>3. u[1] \in Slots
      BY TicketFacts
    <3> QED BY <3>1, <3>2, <3>3, <2>1, <1>7
  <2> QED BY <2>2, <2>3
<1>11. BudgetBalanced'
  <2> DEFINE B == {u \in Tickets : usage[u].billed = 1}
  <2>1. t \notin B /\ IsFiniteSet(B) /\ consumed = Cardinality(B)
    <3>1. usage[t].billed = 0
      BY <1>u DEF IInv, UnusedIsFree
    <3>2. IsFiniteSet(B)
      BY TicketsAreFinite, FS_Subset
    <3> QED BY <3>1, <3>2 DEF IInv, BudgetBalanced
  <2>2. {u \in Tickets : usage'[u].billed = 1} = B \cup {t}
    BY <1>v, <1>r
  <2>3. Cardinality(B \cup {t}) = Cardinality(B) + 1
    BY <2>1, FS_AddElement
  <2>4. consumed' <= MaxRequests
    BY <1>u DEF IInv, FetchTypeOK, FetchConstants
  <2>5. \A u \in Tickets : usage'[u].state \in Open \cup {"billing_unknown"} => usage'[u].billed = 1
    BY <1>v, <1>r DEF IInv, BudgetBalanced
  <2>6. consumed' = Cardinality({u \in Tickets : usage'[u].billed = 1})
    BY <1>u, <2>1, <2>2, <2>3
  <2> QED BY <2>4, <2>5, <2>6 DEF BudgetBalanced
<1>12. AdmissionFollowsPurchase'
  <2>1. \A u \in Tickets : Crossed(u) => usage[u].key # key
    BY <1>u DEF IInv, Purchases
  <2>2. \A u \in Tickets : usage[u].key \in Keys
    BY DEF IInv, FetchTypeOK, Usage
  <2>3. \A u \in Tickets : Crossed(u) => admission'[usage[u].key] = admission[usage[u].key]
    BY <2>1, <2>2, <1>u DEF IInv, FetchTypeOK
  <2> QED BY <1>v, <1>r, <2>3 DEF IInv, AdmissionFollowsPurchase, Crossed
<1> QED BY <1>1, <1>2, <1>3, <1>5, <1>8, <1>9, <1>10, <1>11, <1>12 DEF IInv

-----------------------------------------------------------------------------
(* Steps that leave the usages alone. *)
LEMMA LedgerStutters ==
    ASSUME FetchConstants, IInv, FetchTypeOK',
           UNCHANGED <<usage, consumed, admission, scopeClaims>>,
           settled \subseteq settled',
           \A t \in Tickets : phase'[t] \in {"sent", "called"} => phase[t] \in {"sent", "called"},
           \A t \in Tickets : t \in calls' => t \in calls \/ phase[t] \in {"sent", "called"},
           \A t \in Tickets : owner[t] = "lost" => owner'[t] = "lost",
           \A s \in Slots : slot[s].status = "running" => slot'[s].status = "running"
    PROVE  IInv'
<1>1. Purchases'
  BY DEF IInv, Purchases, Crossed
<1>2. Sequences' /\ UnusedIsFree' /\ BudgetBalanced' /\ AdmissionFollowsPurchase'
  BY DEF IInv, Sequences, UnusedIsFree, BudgetBalanced, AdmissionFollowsPurchase
<1>3. InOrder' /\ \A t \in Tickets : IsLatest(t)' <=> IsLatest(t)
  BY NoBirth DEF IInv
<1>4. Overtaken'
  BY <1>3 DEF IInv, Overtaken
<1>5. OpenUsageHoldsSlot'
  BY <1>3, TicketFacts DEF IInv, OpenUsageHoldsSlot
<1> QED BY <1>1, <1>2, <1>3, <1>4, <1>5 DEF IInv

(* Refusals, calls and settlements leave the ledger alone. *)
LEMMA QuietSteps ==
    ASSUME FetchConstants, IInv, NEW t \in Tickets, UNCHANGED owner
    PROVE  /\ \A next \in Refusals : SendFailsLate(t, next) => IInv'
           /\ \A next \in Refusals : SendRefused(t, next) => IInv'
           /\ Call(t) => IInv'
           /\ AbandonFetch(t) => IInv'
           /\ Settle(t) => IInv'
<1>t. /\ usage[t] \in Usage /\ usage[t].key \in Keys /\ phase \in [Tickets -> Phase]
      /\ owner \in [Tickets -> Owner]
  BY DEF IInv, FetchTypeOK, Usage
<1>1. ASSUME NEW next \in Refusals, SendFailsLate(t, next) PROVE IInv'
  <2>1. FetchTypeOK'
    BY <1>1, <1>t DEF IInv, FetchTypeOK, SendFailsLate, Refusals, Phase
  <2> QED BY <1>1, <1>t, <2>1, LedgerStutters DEF SendFailsLate, Refusals
<1>2. ASSUME NEW next \in Refusals, SendRefused(t, next) PROVE IInv'
  <2>1. FetchTypeOK'
    BY <1>2, <1>t DEF IInv, FetchTypeOK, SendRefused, Refusals, Phase
  <2> QED BY <1>2, <1>t, <2>1, LedgerStutters DEF SendRefused, Refusals
<1>3. ASSUME Call(t) PROVE IInv'
  <2>1. FetchTypeOK'
    BY <1>3, <1>t DEF IInv, FetchTypeOK, Call, Phase
  <2> QED BY <1>3, <1>t, <2>1, LedgerStutters DEF Call
<1>4. ASSUME AbandonFetch(t) PROVE IInv'
  <2>1. FetchTypeOK'
    BY <1>4, <1>t DEF IInv, FetchTypeOK, AbandonFetch, Phase
  <2> QED BY <1>4, <1>t, <2>1, LedgerStutters DEF AbandonFetch
<1>7. ASSUME Settle(t) PROVE IInv'
  <2>1. FetchTypeOK'
    BY <1>7, <1>t DEF IInv, FetchTypeOK, Settle
  <2> QED BY <1>7, <1>t, <2>1, LedgerStutters DEF Settle
<1> QED BY <1>1, <1>2, <1>3, <1>4, <1>7

(* Attempts that lapse or end, however many at once, leave the ledger alone. *)
LEMMA OwnersStep ==
    ASSUME FetchConstants, IInv, NEW S \in SUBSET Tickets, Lapse(S) \/ Lose(S)
    PROVE  IInv'
<1>1. PICK state \in {"lapsed", "lost"} :
          OwnersBecome(S, state) /\ \A t \in S : owner[t] = "lost" => state = "lost"
  BY DEF Lapse, Lose
<1>2. FetchTypeOK'
  BY <1>1 DEF IInv, FetchTypeOK, OwnersBecome, Owner
<1>3. \A t \in Tickets : owner[t] = "lost" => owner'[t] = "lost"
  BY <1>1 DEF OwnersBecome
<1> QED BY <1>1, <1>2, <1>3, LedgerStutters DEF OwnersBecome

(* A restart leaves the ledger alone. *)
LEMMA RestartStep ==
    ASSUME FetchConstants, IInv, Restart
    PROVE  IInv'
<1>1. FetchTypeOK'
  BY DEF IInv, FetchTypeOK, Restart, Phase, Owner
<1> QED BY <1>1, LedgerStutters DEF Restart

(* A business failure of a payload touches succeeded slots only. *)
LEMMA MarkTerminalStep ==
    ASSUME FetchConstants, IInv, NEW s \in Slots, MarkTerminal(s), UNCHANGED owner
    PROVE  IInv'
<1>1. slot' \in [Slots -> Slot]
      /\ \A r \in Slots : slot[r].status = "running" => slot'[r].status = "running"
  BY DEF IInv, FetchTypeOK, MarkTerminal, Slot
<1>2. FetchTypeOK'
  BY <1>1 DEF IInv, FetchTypeOK, MarkTerminal
<1> QED BY <1>1, <1>2, LedgerStutters DEF MarkTerminal

-----------------------------------------------------------------------------
(* The send boundary. *)
LEMMA SendStep ==
    ASSUME FetchConstants, IInv, NEW t \in Tickets, Send(t), UNCHANGED owner
    PROVE  IInv'
<1> DEFINE s == t[1]
           key == usage[t].key
<1>t. /\ s \in Slots /\ usage[t] \in Usage /\ key \in Keys
      /\ usage \in [Tickets -> Usage] /\ phase \in [Tickets -> Phase]
      /\ admission \in [Keys -> Admission]
  BY TicketFacts DEF IInv, FetchTypeOK, Usage
<1>s. /\ usage[t].state = "reserved" /\ phase[t] = "claimed" /\ owner[t] = "live"
      /\ key \notin scopeClaims /\ slot[s].status = "running" /\ usage[t].billed = 1
  BY DEF Send, MaySend, OwnsSlot, HoldsSlot
<1>u. /\ sendFiles' = sendFiles \cup {key} /\ scopeClaims' = scopeClaims \cup {key}
      /\ admission' = [admission EXCEPT ![key] = "sent_unsettled"]
      /\ usage' = [usage EXCEPT ![t] = [@ EXCEPT !.state = "sent", !.event = "send_marked"]]
      /\ slot' = [slot EXCEPT ![s].count = usage[t].attempt]
      /\ phase' = [phase EXCEPT ![t] = "sent"]
      /\ UNCHANGED <<owner, consumed, settled, calls>>
  BY DEF Send
<1>v. /\ usage'[t] = [usage[t] EXCEPT !.state = "sent", !.event = "send_marked"]
      /\ usage'[t].state = "sent" /\ usage'[t].event = "send_marked"
      /\ usage'[t].key = key /\ usage'[t].billed = 1
      /\ \A u \in Tickets : u # t => usage'[u] = usage[u]
  BY <1>t, <1>s, <1>u DEF Usage
<1>l. InOrder' /\ \A u \in Tickets : IsLatest(u)' <=> IsLatest(u)
  BY <1>v, <1>s, NoBirth DEF IInv
<1>1. FetchTypeOK'
  <2>1. slot' \in [Slots -> Slot]
    <3>1. slot \in [Slots -> Slot] /\ usage[t].attempt \in Nat
      BY <1>t DEF IInv, FetchTypeOK, Usage
    <3>2. [slot[s] EXCEPT !.count = usage[t].attempt] \in Slot
      BY <3>1, <1>t DEF Slot
    <3>3. slot' = [slot EXCEPT ![s] = [slot[s] EXCEPT !.count = usage[t].attempt]]
      BY <1>u
    <3> QED BY <3>1, <3>2, <3>3
  <2>2. usage'[t] \in Usage
    BY <1>t, <1>v DEF Usage, UsageState, Open, Event, OpenEvent
  <2>3. usage' \in [Tickets -> Usage] /\ phase' \in [Tickets -> Phase]
    BY <1>t, <1>u, <2>2, <1>v DEF Phase
  <2>4. admission' \in [Keys -> Admission]
    BY <1>t, <1>u DEF Admission
  <2> QED BY <1>u, <1>t, <2>1, <2>3, <2>4 DEF IInv, FetchTypeOK
<1>2. Purchases'
  <2>1. \A u \in Tickets : Crossed(u)' <=> (u = t \/ Crossed(u))
    BY <1>v, <1>s DEF Crossed
  <2>2. \A u \in Tickets : Crossed(u) => u # t /\ usage[u].key # key
    BY <1>s DEF IInv, Purchases, Crossed
  <2>3. \A u \in Tickets : phase'[u] \in {"sent", "called"} => u = t \/ phase[u] \in {"sent", "called"}
    BY <1>u, <1>t
  <2> QED BY <1>u, <1>v, <2>1, <2>2, <2>3 DEF IInv, Purchases
<1>3. Sequences'
  <2>1. \A u \in Tickets : usage'[u].key = usage[u].key
    BY <1>v
  <2>2. key[2] \in Nat /\ key = <<key[1], key[2]>>
    BY <1>t, KeyFacts DEF FetchConstants
  <2>3. <<key[1], 0>> \in scopeClaims \cup {key}
    <3>1. CASE key[2] = 0
      BY <2>2, <3>1
    <3>2. CASE key[2] > 0
      BY <3>2 DEF IInv, Sequences
    <3> QED BY <2>2, <3>1, <3>2
  <2> QED BY <1>u, <2>1, <2>3 DEF IInv, Sequences
<1>4. IsLatest(t)
  BY <1>s DEF IInv, OpenUsageHoldsSlot, Open
<1>5. Overtaken'
  BY <1>4, <1>l, <1>u, <1>t DEF IInv, Overtaken
<1>6. UnusedIsFree'
  <2>1. UnusedIsFree
    BY Zenon DEF IInv
  <2> QED BY <1>v, <2>1 DEF UnusedIsFree
<1>7. OpenUsageHoldsSlot'
  <2>1. \A r \in Slots : slot'[r].status = slot[r].status
    BY <1>u, <1>t DEF IInv, FetchTypeOK, Slot
  <2> SUFFICES ASSUME NEW u \in Tickets
               PROVE  /\ usage'[u].state \in Open <=> usage'[u].event \in OpenEvent
                      /\ usage'[u].state \in Open =>
                            slot'[u[1]].status = "running" /\ IsLatest(u)'
    BY DEF OpenUsageHoldsSlot
  <2>2. CASE u = t
    BY <2>1, <2>2, <1>t, <1>s, <1>v, <1>l, <1>4 DEF Open, OpenEvent
  <2>3. CASE u # t
    <3>1. usage'[u] = usage[u] /\ u[1] \in Slots /\ (IsLatest(u)' <=> IsLatest(u))
      BY <2>3, <1>v, <1>l, TicketFacts
    <3>2. slot'[u[1]].status = slot[u[1]].status
      BY <2>1, <3>1
    <3>3. /\ usage[u].state \in Open <=> usage[u].event \in OpenEvent
          /\ usage[u].state \in Open => slot[u[1]].status = "running" /\ IsLatest(u)
      BY DEF IInv, OpenUsageHoldsSlot
    <3> QED BY <3>1, <3>2, <3>3
  <2> QED BY <2>2, <2>3
<1>8. BudgetBalanced'
  <2>1. {u \in Tickets : usage'[u].billed = 1} = {u \in Tickets : usage[u].billed = 1}
    BY <1>v, <1>s
  <2>2. \A u \in Tickets : usage'[u].state \in Open \cup {"billing_unknown"} => usage'[u].billed = 1
    BY <1>v DEF IInv, BudgetBalanced
  <2> QED BY <1>u, <2>1, <2>2 DEF IInv, BudgetBalanced
<1>9. AdmissionFollowsPurchase'
  <2>1. \A u \in Tickets : Crossed(u) => u # t /\ usage[u].key # key
    BY <1>s DEF IInv, Purchases, Crossed
  <2>2. \A u \in Tickets : usage[u].key \in Keys
    BY <1>t DEF Usage
  <2>3. admission'[key] = "sent_unsettled"
    BY <1>u, <1>t
  <2>4. \A u \in Tickets : Crossed(u) => admission'[usage[u].key] = admission[usage[u].key]
    BY <2>1, <2>2, <1>u, <1>t
  <2> SUFFICES ASSUME NEW u \in Tickets
               PROVE  /\ usage'[u].state \in {"sent", "billing_unknown"} =>
                            admission'[usage'[u].key] = "sent_unsettled"
                      /\ usage'[u].state \in {"completed", "failed"} =>
                            admission'[usage'[u].key] = "settled"
    BY DEF AdmissionFollowsPurchase
  <2>5. CASE u = t
    BY <2>5, <1>v, <2>3
  <2>6. CASE u # t
    BY <2>6, <1>v, <2>4 DEF IInv, AdmissionFollowsPurchase, Crossed
  <2> QED BY <2>5, <2>6
<1> QED BY <1>1, <1>2, <1>3, <1>5, <1>6, <1>7, <1>8, <1>9, <1>l DEF IInv

-----------------------------------------------------------------------------
(* Giving a reservation back. *)
LEMMA CleanUpStep ==
    ASSUME FetchConstants, IInv, NEW t \in Tickets, CleanUp(t), UNCHANGED owner
    PROVE  IInv'
<1> DEFINE s == t[1]
           key == usage[t].key
<1>t. /\ s \in Slots /\ usage[t] \in Usage /\ key \in Keys
      /\ usage \in [Tickets -> Usage] /\ phase \in [Tickets -> Phase]
      /\ admission \in [Keys -> Admission] /\ consumed \in Nat
  BY TicketFacts DEF IInv, FetchTypeOK, Usage
<1>p. /\ phase' = [phase EXCEPT ![t] = "gone"]
      /\ UNCHANGED <<owner, scopeClaims, sendFiles, settled, calls>>
  BY DEF CleanUp
<1>q. \A u \in Tickets : phase'[u] \in {"sent", "called"} => phase[u] \in {"sent", "called"}
  BY <1>p, <1>t
<1>a. CASE ~Releasable(usage[t])
  <2>1. UNCHANGED <<slot, usage, consumed, admission>>
    BY <1>a DEF CleanUp
  <2>2. FetchTypeOK'
    BY <1>p, <2>1, <1>t DEF IInv, FetchTypeOK, Phase
  <2> QED BY <1>p, <1>q, <2>1, <2>2, LedgerStutters
<1>b. CASE Releasable(usage[t])
  <2>s. usage[t].state = "reserved" /\ usage[t].billed = 1 /\ IsLatest(t)
    BY <1>b DEF Releasable, IInv, OpenUsageHoldsSlot, BudgetBalanced, Open
  <2>u. /\ usage' = [usage EXCEPT ![t] = Released(@)]
        /\ consumed' = Refunded(1)
        /\ admission' = [admission EXCEPT ![key] =
                            IF @ = "reserved_unsent" THEN "released_unsent" ELSE @]
        /\ \A r \in Slots : r # s => slot'[r] = slot[r]
        /\ slot' = [slot EXCEPT ![s] =
                       IF HoldsSlot(t)
                       THEN [@ EXCEPT !.status = IF phase[t] = "held" THEN "terminal_failed"
                                                                      ELSE "pending",
                                      !.guard = FALSE] ELSE @]
    BY <1>b, <1>t DEF CleanUp, IInv, FetchTypeOK
  <2>v. /\ usage'[t] = Released(usage[t]) /\ Released(usage[t]) \in Usage
        /\ usage'[t].state = "not_sent" /\ usage'[t].event = "not_sent"
        /\ usage'[t].key = key /\ usage'[t].billed = 0
        /\ \A u \in Tickets : u # t => usage'[u] = usage[u]
    BY <1>t, <2>u, UsageOperators DEF Usage, Released
  <2>l. InOrder' /\ \A u \in Tickets : IsLatest(u)' <=> IsLatest(u)
    BY <2>v, <2>s, NoBirth DEF IInv
  <2>1. FetchTypeOK'
    <3>1. slot' \in [Slots -> Slot]
      <4> DEFINE status == IF phase[t] = "held" THEN "terminal_failed" ELSE "pending"
      <4>1. slot \in [Slots -> Slot] /\ slot[s] \in Slot
        BY <1>t DEF IInv, FetchTypeOK
      <4>2. [slot[s] EXCEPT !.status = status, !.guard = FALSE] \in Slot
        BY <4>1 DEF Slot
      <4>3. slot' = [slot EXCEPT ![s] =
                        IF HoldsSlot(t)
                        THEN [slot[s] EXCEPT !.status = status, !.guard = FALSE] ELSE slot[s]]
        BY <2>u
      <4> HIDE DEF status
      <4> QED BY <4>1, <4>2, <4>3
    <3>2. usage' \in [Tickets -> Usage] /\ phase' \in [Tickets -> Phase]
      BY <1>t, <1>p, <2>u, <2>v DEF Phase
    <3>3. admission' \in [Keys -> Admission] /\ consumed' \in Nat
      BY <1>t, <2>u, RefundedType DEF Admission
    <3> QED BY <1>p, <3>1, <3>2, <3>3 DEF IInv, FetchTypeOK
  <2>2. Purchases'
    <3>1. \A u \in Tickets : Crossed(u)' <=> Crossed(u)
      BY <2>v, <2>s DEF Crossed
    <3>2. ASSUME NEW u \in Tickets, phase'[u] \in {"sent", "called"}
          PROVE  usage'[u].state \in {"sent", "billing_unknown"}
      <4>1. usage[u].state \in {"sent", "billing_unknown"}
        BY <3>2, <1>q DEF IInv, Purchases
      <4> QED BY <4>1, <2>s, <2>v
    <3> QED BY <3>1, <3>2, <1>p, <2>v, PurchasesKept DEF IInv
  <2>3. Sequences'
    <3>1. \A u \in Tickets : usage'[u].key = usage[u].key
      BY <2>v
    <3> QED BY <1>p, <3>1 DEF IInv, Sequences
  <2>4. Overtaken'
    BY <1>p, <1>q, <2>l DEF IInv, Overtaken
  <2>5. UnusedIsFree'
    BY <2>v DEF IInv, UnusedIsFree
  <2>6. OpenUsageHoldsSlot'
    <3>1. ASSUME NEW u \in Tickets, u # t, usage[u].state \in Open
          PROVE  u[1] # s
      BY <3>1, <2>s, OneLatest DEF IInv, OpenUsageHoldsSlot
    <3> QED BY <3>1, <2>u, <2>v, <2>l, TicketFacts DEF IInv, OpenUsageHoldsSlot, Open, OpenEvent
  <2>7. BudgetBalanced'
    <3> DEFINE B == {u \in Tickets : usage[u].billed = 1}
    <3>1. t \in B /\ IsFiniteSet(B) /\ consumed = Cardinality(B)
      BY <2>s, TicketsAreFinite, FS_Subset DEF IInv, BudgetBalanced
    <3>2. {u \in Tickets : usage'[u].billed = 1} = B \ {t}
      BY <2>v
    <3>3. Cardinality(B \ {t}) = Cardinality(B) - 1 /\ Cardinality(B \ {t}) \in Nat
      BY <3>1, FS_RemoveElement, FS_CardinalityType
    <3>4. consumed' = consumed - 1
      BY <1>t, <2>u, <3>1, <3>3, RefundedType
    <3>5. consumed' <= MaxRequests
      BY <3>4, <1>t DEF IInv, BudgetBalanced, FetchConstants
    <3>6. \A u \in Tickets : usage'[u].state \in Open \cup {"billing_unknown"} => usage'[u].billed = 1
      BY <2>v DEF IInv, BudgetBalanced, Open
    <3>7. consumed' = Cardinality({u \in Tickets : usage'[u].billed = 1})
      BY <3>1, <3>2, <3>3, <3>4
    <3> QED BY <3>5, <3>6, <3>7 DEF BudgetBalanced
  <2>8. AdmissionFollowsPurchase'
    <3>1. \A u \in Tickets : usage[u].key \in Keys
      BY <1>t DEF Usage
    <3>2. \A k \in Keys : admission[k] \in {"sent_unsettled", "settled"} => admission'[k] = admission[k]
      BY <2>u, <1>t
    <3> QED BY <2>v, <3>1, <3>2 DEF IInv, AdmissionFollowsPurchase
  <2> QED BY <2>1, <2>2, <2>3, <2>4, <2>5, <2>6, <2>7, <2>8, <2>l DEF IInv
<1> QED BY <1>a, <1>b

-----------------------------------------------------------------------------
(* Recovery. *)
LEMMA RecoverStep ==
    ASSUME FetchConstants, IInv, NEW S \in SUBSET Recoverable, Recover(S), UNCHANGED owner
    PROVE  IInv'
<1>t. /\ S \subseteq Slots /\ usage \in [Tickets -> Usage] /\ slot \in [Slots -> Slot]
      /\ consumed \in Nat
  BY DEF IInv, FetchTypeOK, Recoverable
<1>u. /\ usage' = [t \in Tickets |-> IF t[1] \in S THEN Recovered(usage[t]) ELSE usage[t]]
      /\ consumed' = Refunded(Cardinality({t \in Tickets : usage[t].billed # usage'[t].billed}))
      /\ slot' = [r \in Slots |->
                     [slot[r] EXCEPT
                         !.status = IF r \in S THEN "retryable_failed" ELSE slot[r].status,
                         !.guard = Unresolved(usage', r) \/ (r \notin S /\ slot[r].guard)]]
      /\ UNCHANGED <<owner, phase, admission, scopeClaims, sendFiles, settled, calls>>
  BY DEF Recover
<1>v. ASSUME NEW t \in Tickets
      PROVE  /\ usage'[t] \in Usage /\ usage'[t].key = usage[t].key
             /\ t[1] \notin S => usage'[t] = usage[t]
             /\ t[1] \in S => usage'[t] = Recovered(usage[t])
  BY <1>t, <1>u, UsageOperators
<1>w. ASSUME NEW t \in Tickets
      PROVE  /\ usage[t].state = "reserved" /\ t[1] \in S =>
                   /\ usage'[t].state = "not_sent" /\ usage'[t].event = "not_sent"
                   /\ usage'[t].billed = 0
             /\ usage[t].state \in {"sent", "billing_unknown"} /\ t[1] \in S =>
                   /\ usage'[t].state = "billing_unknown" /\ usage'[t].billed = usage[t].billed
                   /\ usage'[t].event \notin OpenEvent
             /\ usage[t].state \notin {"reserved", "sent", "billing_unknown"} \/ t[1] \notin S =>
                   usage'[t] = usage[t]
  <2>1. usage[t] \in Usage
    BY <1>t
  <2> QED BY <1>v, <2>1, RecoveredUsage DEF OpenEvent
<1>l. InOrder' /\ \A t \in Tickets : IsLatest(t)' <=> IsLatest(t)
  <2>1. ASSUME NEW t \in Tickets
        PROVE  usage'[t].state = "none" <=> usage[t].state = "none"
    BY <1>w
  <2> QED BY <2>1, NoBirth DEF IInv
<1>s. ASSUME NEW r \in Slots
      PROVE  slot'[r] \in Slot /\ (r \notin S => slot'[r].status = slot[r].status)
  <2>1. slot[r] \in Slot
    BY <1>t
  <2>2. (Unresolved(usage', r) \/ (r \notin S /\ slot[r].guard)) \in BOOLEAN
    OBVIOUS
  <2>3. slot'[r] = [slot[r] EXCEPT
                       !.status = IF r \in S THEN "retryable_failed" ELSE slot[r].status,
                       !.guard = Unresolved(usage', r) \/ (r \notin S /\ slot[r].guard)]
    BY <1>u
  <2> QED BY <2>1, <2>2, <2>3 DEF Slot
<1>1. FetchTypeOK'
  <2>1. usage' \in [Tickets -> Usage]
    BY <1>u, <1>v
  <2>2. slot' \in [Slots -> Slot]
    BY <1>u, <1>s
  <2>3. consumed' \in Nat
    <3>1. IsFiniteSet({t \in Tickets : usage[t].billed # usage'[t].billed})
      BY TicketsAreFinite, FS_Subset
    <3>2. Cardinality({t \in Tickets : usage[t].billed # usage'[t].billed}) \in Nat
      BY <3>1, FS_CardinalityType
    <3> QED BY <1>t, <1>u, <3>2, RefundedType
  <2> QED BY <1>u, <2>1, <2>2, <2>3 DEF IInv, FetchTypeOK
<1>2. Purchases'
  <2>1. \A t \in Tickets : Crossed(t)' <=> Crossed(t)
    BY <1>w DEF Crossed
  <2>2. ASSUME NEW t \in Tickets, phase'[t] \in {"sent", "called"}
        PROVE  usage'[t].state \in {"sent", "billing_unknown"}
    <3>1. usage[t].state \in {"sent", "billing_unknown"}
      BY <2>2, <1>u DEF IInv, Purchases
    <3> QED BY <3>1, <1>w
  <2>3. \A t \in Tickets : usage'[t].key = usage[t].key
    BY <1>v
  <2> QED BY <1>u, <2>1, <2>2, <2>3, PurchasesKept DEF IInv
<1>3. Sequences'
  <2>1. \A t \in Tickets : usage'[t].key = usage[t].key
    BY <1>v
  <2> QED BY <1>u, <2>1 DEF IInv, Sequences
<1>4. Overtaken'
  BY <1>u, <1>l DEF IInv, Overtaken
<1>5. UnusedIsFree'
  BY <1>w DEF IInv, UnusedIsFree
<1>6. OpenUsageHoldsSlot'
  <2> SUFFICES ASSUME NEW t \in Tickets
               PROVE  /\ usage'[t].state \in Open <=> usage'[t].event \in OpenEvent
                      /\ usage'[t].state \in Open =>
                            slot'[t[1]].status = "running" /\ IsLatest(t)'
    BY DEF OpenUsageHoldsSlot
  <2>1. t[1] \in Slots
    BY TicketFacts
  <2>2. /\ usage[t].state \in Open <=> usage[t].event \in OpenEvent
        /\ usage[t].state \in Open => slot[t[1]].status = "running" /\ IsLatest(t)
    BY DEF IInv, OpenUsageHoldsSlot
  <2>3. CASE t[1] \notin S
    BY <2>1, <2>2, <2>3, <1>v, <1>l, <1>s
  <2>4. CASE t[1] \in S
    BY <2>2, <2>4, <1>w DEF Open, OpenEvent
  <2> QED BY <2>3, <2>4
<1>7. BudgetBalanced'
  <2> DEFINE B == {t \in Tickets : usage[t].billed = 1}
             R == {t \in Tickets : usage[t].billed # usage'[t].billed}
  <2>1. ASSUME NEW t \in Tickets PROVE usage[t].billed \in {0, 1} /\ usage'[t].billed \in {0, 1}
    BY <1>t, <1>v DEF Usage
  <2>2. ASSUME NEW t \in R PROVE usage[t].billed = 1 /\ usage'[t].billed = 0
    BY <2>1, <1>w DEF IInv, BudgetBalanced, Open
  <2>3. R \subseteq B /\ {t \in Tickets : usage'[t].billed = 1} = B \ R
    BY <2>1, <2>2
  <2>4. IsFiniteSet(B) /\ IsFiniteSet(R) /\ consumed = Cardinality(B)
    BY TicketsAreFinite, FS_Subset DEF IInv, BudgetBalanced
  <2>5. /\ Cardinality(B) \in Nat /\ Cardinality(R) \in Nat /\ Cardinality(R) <= Cardinality(B)
        /\ Cardinality(B \ R) = Cardinality(B) - Cardinality(R)
    <3>1. B \cap R = R
      BY <2>3
    <3>2. Cardinality(B \ R) = Cardinality(B) - Cardinality(B \cap R)
      BY <2>4, FS_Difference
    <3>3. Cardinality(R) <= Cardinality(B)
      BY <2>3, <2>4, FS_Subset
    <3> QED BY <2>4, <3>1, <3>2, <3>3, FS_CardinalityType
  <2>6. consumed' = consumed - Cardinality(R)
    BY <1>t, <1>u, <2>4, <2>5, RefundedType
  <2>7. consumed' = Cardinality({t \in Tickets : usage'[t].billed = 1})
    BY <2>3, <2>4, <2>5, <2>6
  <2>8. consumed' <= MaxRequests
    BY <2>4, <2>5, <2>6 DEF IInv, BudgetBalanced, FetchConstants
  <2>9. \A t \in Tickets : usage'[t].state \in Open \cup {"billing_unknown"} => usage'[t].billed = 1
    BY <1>w DEF IInv, BudgetBalanced, Open
  <2> QED BY <2>7, <2>8, <2>9 DEF BudgetBalanced
<1>8. AdmissionFollowsPurchase'
  <2> SUFFICES ASSUME NEW t \in Tickets
               PROVE  /\ usage'[t].state \in {"sent", "billing_unknown"} =>
                            admission'[usage'[t].key] = "sent_unsettled"
                      /\ usage'[t].state \in {"completed", "failed"} =>
                            admission'[usage'[t].key] = "settled"
    BY DEF AdmissionFollowsPurchase
  <2>1. /\ usage[t].state \in {"sent", "billing_unknown"} =>
              admission[usage[t].key] = "sent_unsettled"
        /\ usage[t].state \in {"completed", "failed"} => admission[usage[t].key] = "settled"
    BY DEF IInv, AdmissionFollowsPurchase
  <2>2. usage'[t].key = usage[t].key /\ admission' = admission
    BY <1>u, <1>v
  <2> QED BY <2>1, <2>2, <1>w
<1> QED BY <1>1, <1>2, <1>3, <1>l, <1>4, <1>5, <1>6, <1>7, <1>8 DEF IInv

-----------------------------------------------------------------------------
(* The answer. *)
LEMMA SettledUsage ==
    ASSUME NEW u \in Usage, NEW ok \in BOOLEAN, NEW billed \in {"yes", "no", "unknown"}
    PROVE  /\ Settled(u, ok, billed).state \in {"completed", "failed", "billing_unknown"}
           /\ Settled(u, ok, billed).state = "billing_unknown" <=> billed = "unknown"
           /\ Settled(u, ok, billed).event \notin OpenEvent
           /\ Settled(u, ok, billed).billed = IF billed = "no" THEN 0 ELSE u.billed
BY DEF Usage, FinishIfOpen, Settled, OpenEvent

(* The slot after an answer is a slot, and keeps its status unless its owner ends it. *)
LEMMA AnsweredSlot ==
    ASSUME NEW t \in Tickets, slot[t[1]] \in Slot, NEW usages,
           NEW status \in {"succeeded", "retryable_failed", "terminal_failed"},
           NEW billed \in {"yes", "no", "unknown"}
    PROVE  /\ SlotAfter(t, usages, status, billed) \in Slot
           /\ SlotAfter(t, usages, status, billed).count = slot[t[1]].count
           /\ ~OwnsSlot(t) => SlotAfter(t, usages, status, billed).status = slot[t[1]].status
<1> DEFINE s == slot[t[1]]
           ended == s.guard \/ billed = "unknown"
           kept == s.guard /\ (billed = "unknown" \/ Unresolved(usages, t[1]))
<1>1. s.guard \in BOOLEAN /\ ended \in BOOLEAN /\ kept \in BOOLEAN
  BY DEF Slot
<1>2. SlotAfter(t, usages, status, billed) =
         IF OwnsSlot(t) THEN [s EXCEPT !.status = status, !.guard = ended]
                        ELSE [s EXCEPT !.guard = kept]
  BY DEF SlotAfter
<1> HIDE DEF ended, kept
<1>3. /\ [s EXCEPT !.status = status, !.guard = ended] \in Slot
      /\ [s EXCEPT !.status = status, !.guard = ended].count = s.count
      /\ [s EXCEPT !.guard = kept] \in Slot
      /\ [s EXCEPT !.guard = kept].count = s.count
      /\ [s EXCEPT !.guard = kept].status = s.status
  BY <1>1 DEF Slot
<1> QED BY <1>2, <1>3

(* An answer, in time or late, preserves the invariant. *)
LEMMA AnswerStep ==
    ASSUME FetchConstants, IInv, NEW t \in Tickets, NEW ok \in BOOLEAN,
           NEW billed \in {"yes", "no", "unknown"},
           NEW status \in {"succeeded", "retryable_failed", "terminal_failed"},
           Answer(t, ok, billed, status), UNCHANGED owner
    PROVE  IInv'
<1> DEFINE s == t[1]
           key == usage[t].key
<1>t. /\ s \in Slots /\ usage[t] \in Usage /\ key \in Keys /\ slot[s] \in Slot
      /\ usage \in [Tickets -> Usage] /\ phase \in [Tickets -> Phase]
      /\ slot \in [Slots -> Slot] /\ admission \in [Keys -> Admission] /\ consumed \in Nat
  BY TicketFacts DEF IInv, FetchTypeOK, Usage
<1>s. /\ phase[t] = "called" /\ usage[t].state \in {"sent", "billing_unknown"}
      /\ usage[t].billed = 1 /\ Crossed(t) /\ admission[key] = "sent_unsettled"
  BY DEF Answer, IInv, Purchases, BudgetBalanced, AdmissionFollowsPurchase, Open, Crossed
<1>u. /\ phase' = [phase EXCEPT ![t] = "gone"]
      /\ usage' = [usage EXCEPT ![t] = Settled(usage[t], ok, billed)]
      /\ consumed' = Refunded(usage[t].billed - usage'[t].billed)
      /\ admission' = [admission EXCEPT ![key] = AdmissionAfter(admission[key], billed)]
      /\ slot' = [slot EXCEPT ![s] = SlotAfter(t, usage', status, billed)]
      /\ UNCHANGED <<owner, scopeClaims, sendFiles, settled, calls>>
  BY DEF Answer
<1>v. /\ usage'[t] = Settled(usage[t], ok, billed) /\ usage'[t] \in Usage
      /\ usage'[t].key = key
      /\ usage'[t].state \in {"completed", "failed", "billing_unknown"}
      /\ usage'[t].state = "billing_unknown" <=> billed = "unknown"
      /\ usage'[t].event \notin OpenEvent
      /\ usage'[t].billed = IF billed = "no" THEN 0 ELSE 1
      /\ \A u \in Tickets : u # t => usage'[u] = usage[u]
  <2>1. /\ usage'[t] = Settled(usage[t], ok, billed)
        /\ \A u \in Tickets : u # t => usage'[u] = usage[u]
    BY <1>t, <1>u
  <2>2. /\ Settled(usage[t], ok, billed) \in Usage
        /\ Settled(usage[t], ok, billed).key = key
    BY <1>t, UsageOperators
  <2>3. /\ Settled(usage[t], ok, billed).state \in {"completed", "failed", "billing_unknown"}
        /\ Settled(usage[t], ok, billed).state = "billing_unknown" <=> billed = "unknown"
        /\ Settled(usage[t], ok, billed).event \notin OpenEvent
        /\ Settled(usage[t], ok, billed).billed = IF billed = "no" THEN 0 ELSE 1
    BY <1>t, <1>s, SettledUsage
  <2> QED BY <2>1, <2>2, <2>3
<1>q. \A u \in Tickets : phase'[u] \in {"sent", "called"} => u # t /\ phase[u] \in {"sent", "called"}
  BY <1>u, <1>t
<1>w. /\ slot'[s] \in Slot /\ (~OwnsSlot(t) => slot'[s].status = slot[s].status)
      /\ \A r \in Slots : r # s => slot'[r] = slot[r]
  <2>1. /\ SlotAfter(t, usage', status, billed) \in Slot
        /\ ~OwnsSlot(t) => SlotAfter(t, usage', status, billed).status = slot[s].status
    BY <1>t, AnsweredSlot
  <2> QED BY <2>1, <1>t, <1>u
<1>l. InOrder' /\ \A u \in Tickets : IsLatest(u)' <=> IsLatest(u)
  BY <1>v, <1>s, NoBirth DEF IInv
<1>a. /\ admission'[key] = IF billed = "unknown" THEN "sent_unsettled" ELSE "settled"
      /\ \A k \in Keys : k # key => admission'[k] = admission[k]
  BY <1>t, <1>s, <1>u DEF AdmissionAfter
<1>1. FetchTypeOK'
  <2>1. slot' \in [Slots -> Slot] /\ usage' \in [Tickets -> Usage] /\ phase' \in [Tickets -> Phase]
    BY <1>t, <1>u, <1>v, <1>w DEF Phase
  <2>2. admission' \in [Keys -> Admission]
    BY <1>t, <1>s, <1>u DEF AdmissionAfter, Admission
  <2>3. usage[t].billed - usage'[t].billed \in Nat
    BY <1>s, <1>v
  <2>4. consumed' \in Nat
    BY <1>t, <1>u, <2>3, RefundedType
  <2> QED BY <1>u, <2>1, <2>2, <2>4 DEF IInv, FetchTypeOK
<1>2. Purchases'
  <2>1. \A u \in Tickets : Crossed(u)' <=> Crossed(u)
    BY <1>v, <1>s DEF Crossed
  <2>2. \A u \in Tickets : usage'[u].key = usage[u].key
    BY <1>v
  <2>3. ASSUME NEW u \in Tickets, phase'[u] \in {"sent", "called"}
        PROVE  usage'[u].state \in {"sent", "billing_unknown"}
    BY <2>3, <1>q, <1>v DEF IInv, Purchases
  <2> QED BY <1>u, <2>1, <2>2, <2>3, PurchasesKept DEF IInv
<1>3. Sequences'
  <2>1. \A u \in Tickets : usage'[u].key = usage[u].key
    BY <1>v
  <2> QED BY <1>u, <2>1 DEF IInv, Sequences
<1>4. Overtaken'
  BY <1>u, <1>q, <1>l DEF IInv, Overtaken
<1>5. UnusedIsFree'
  BY <1>v DEF IInv, UnusedIsFree
<1>6. OpenUsageHoldsSlot'
  <2> SUFFICES ASSUME NEW u \in Tickets
               PROVE  /\ usage'[u].state \in Open <=> usage'[u].event \in OpenEvent
                      /\ usage'[u].state \in Open =>
                            slot'[u[1]].status = "running" /\ IsLatest(u)'
    BY DEF OpenUsageHoldsSlot
  <2>1. CASE u = t
    BY <2>1, <1>v DEF Open
  <2>2. CASE u # t
    <3>1. /\ usage'[u] = usage[u] /\ u[1] \in Slots /\ (IsLatest(u)' <=> IsLatest(u))
          /\ usage[u].state \in Open <=> usage[u].event \in OpenEvent
          /\ usage[u].state \in Open => slot[u[1]].status = "running" /\ IsLatest(u)
      BY <2>2, <1>v, <1>l, TicketFacts DEF IInv, OpenUsageHoldsSlot
    <3>2. ASSUME usage[u].state \in Open, u[1] = s
          PROVE  ~OwnsSlot(t)
      <4>1. ~IsLatest(t)
        BY <2>2, <3>1, <3>2, OneLatest
      <4> QED BY <4>1, <1>s DEF IInv, Overtaken, OwnsSlot
    <3> QED BY <3>1, <3>2, <1>w
  <2> QED BY <2>1, <2>2
<1>7. BudgetBalanced'
  <2> DEFINE B == {u \in Tickets : usage[u].billed = 1}
  <2>1. t \in B /\ IsFiniteSet(B) /\ consumed = Cardinality(B)
    BY <1>s, TicketsAreFinite, FS_Subset DEF IInv, BudgetBalanced
  <2>2. /\ Cardinality(B \ {t}) = Cardinality(B) - 1 /\ Cardinality(B \ {t}) \in Nat
    BY <2>1, FS_RemoveElement, FS_CardinalityType
  <2>3. ASSUME billed = "no"
        PROVE  consumed' = Cardinality({u \in Tickets : usage'[u].billed = 1}) /\ consumed' <= consumed
    <3>1. {u \in Tickets : usage'[u].billed = 1} = B \ {t}
      BY <2>3, <1>v
    <3>2. consumed' = consumed - 1
      <4>1. consumed' = Refunded(1) /\ 1 <= consumed
        BY <2>1, <2>2, <2>3, <1>s, <1>t, <1>u, <1>v
      <4> QED BY <4>1, <1>t, RefundedType
    <3>3. consumed' = Cardinality(B \ {t})
      BY <2>1, <2>2, <3>2
    <3>4. consumed' <= consumed
      BY <1>t, <3>2
    <3> QED BY <3>1, <3>3, <3>4
  <2>4. ASSUME billed # "no"
        PROVE  consumed' = Cardinality({u \in Tickets : usage'[u].billed = 1}) /\ consumed' <= consumed
    <3>1. {u \in Tickets : usage'[u].billed = 1} = B
      BY <2>1, <2>4, <1>v
    <3>2. consumed' = consumed
      <4>1. consumed' = Refunded(0)
        BY <2>4, <1>s, <1>u, <1>v
      <4> QED BY <4>1, <1>t, RefundedType
    <3>3. consumed' = Cardinality(B) /\ consumed' <= consumed
      BY <1>t, <2>1, <3>2
    <3> QED BY <3>1, <3>3
  <2>5. consumed' = Cardinality({u \in Tickets : usage'[u].billed = 1}) /\ consumed' <= consumed
    BY <2>3, <2>4
  <2>6. \A u \in Tickets : usage'[u].state \in Open \cup {"billing_unknown"} => usage'[u].billed = 1
    BY <1>v DEF IInv, BudgetBalanced, Open
  <2> QED BY <2>5, <2>6, <1>t DEF IInv, BudgetBalanced, FetchConstants
<1>8. AdmissionFollowsPurchase'
  <2>1. \A u \in Tickets : Crossed(u) /\ u # t => usage[u].key # key
    BY <1>s DEF IInv, Purchases
  <2>2. \A u \in Tickets : usage[u].key \in Keys
    BY <1>t DEF Usage
  <2> SUFFICES ASSUME NEW u \in Tickets
               PROVE  /\ usage'[u].state \in {"sent", "billing_unknown"} =>
                            admission'[usage'[u].key] = "sent_unsettled"
                      /\ usage'[u].state \in {"completed", "failed"} =>
                            admission'[usage'[u].key] = "settled"
    BY DEF AdmissionFollowsPurchase
  <2>3. CASE u = t
    BY <2>3, <1>v, <1>a
  <2>4. CASE u # t
    BY <2>1, <2>2, <2>4, <1>v, <1>a DEF IInv, AdmissionFollowsPurchase, Crossed
  <2> QED BY <2>3, <2>4
<1> QED BY <1>1, <1>2, <1>3, <1>l, <1>4, <1>5, <1>6, <1>7, <1>8 DEF IInv

-----------------------------------------------------------------------------
(* The two claims. *)
LEMMA FirstClaimStep ==
    ASSUME FetchConstants, IInv, NEW t \in Tickets, Claim(t),
           owner' = [owner EXCEPT ![t] = "live"]
    PROVE  IInv'
<1>1. slot[t[1]].status # "running" /\ Reserve(t, 0) /\ t[1] \in Slots /\ 0 \in 0..MaxSequence
  BY TicketFacts DEF Claim, FetchConstants
<1>2. <<IdentityOf[t[1]], 0>> \notin scopeClaims
  BY <1>1 DEF Reserve, PaidKey
<1>3. ASSUME NEW u \in TicketsOf(t[1]), phase[u] \in {"sent", "called"} PROVE FALSE
  <2>1. u \in Tickets /\ u[1] = t[1]
    BY <1>1, TicketsOfSlot
  <2>2. usage[u].key \in scopeClaims
    BY <1>3, <2>1 DEF IInv, Purchases, Crossed
  <2>3. usage[u].key[1] = IdentityOf[t[1]] /\ <<usage[u].key[1], 0>> \in scopeClaims
    BY <2>1, <2>2 DEF IInv, Sequences
  <2> QED BY <1>2, <2>3
<1>4. \A u \in TicketsOf(t[1]) : phase[u] \in {"sent", "called"} => owner[u] = "lost"
  BY <1>3
<1>5. ~(0 > 0)
  OBVIOUS
<1> QED BY <1>1, <1>4, <1>5, ReserveStep, FetchConstants

(* A compensation follows a used identity, whose attempts are over. *)
LEMMA CompensateStep ==
    ASSUME FetchConstants, IInv, NEW t \in Tickets, NEW k \in 1..MaxSequence, Compensate(t, k),
           owner' = [owner EXCEPT ![t] = "live"]
    PROVE  IInv'
<1> DEFINE before == <<IdentityOf[t[1]], k - 1>>
<1>1. /\ slot[t[1]].status # "running" /\ Reserve(t, k) /\ k \in 0..MaxSequence
      /\ before \in scopeClaims /\ before \in settled
      /\ \A u \in TicketsOf(t[1]) : phase[u] # "gone" => owner[u] = "lost"
  BY DEF Compensate, Compensation, Authorized, PaidKey, FetchConstants
<1>2. <<before[1], 0>> \in scopeClaims
  BY <1>1 DEF IInv, Sequences
<1>3. \A u \in TicketsOf(t[1]) : phase[u] \in {"sent", "called"} => owner[u] = "lost"
  BY <1>1
<1> QED BY <1>1, <1>2, <1>3, ReserveStep

-----------------------------------------------------------------------------
(* The inductive invariant holds initially. *)
LEMMA InitStep ==
    ASSUME FetchConstants, InitFetch
    PROVE  IInv
<1>1. ASSUME NEW t \in Tickets
      PROVE  /\ usage[t] = NoUsage(t[1]) /\ usage[t] \in Usage
             /\ usage[t].state = "none" /\ usage[t].event = "none" /\ usage[t].billed = 0
             /\ usage[t].key[1] = IdentityOf[t[1]] /\ usage[t].key[2] = 0
             /\ phase[t] = "gone"
  <2>1. <<IdentityOf[t[1]], 0>> \in Keys
    BY TicketFacts DEF FetchConstants, Keys
  <2> QED BY <2>1 DEF InitFetch, NoUsage, Usage, UsageState, Event, Open, OpenEvent
<1>2. FetchTypeOK
  <2>1. usage \in [Tickets -> Usage]
    BY <1>1 DEF InitFetch
  <2>2. slot \in [Slots -> Slot]
    BY DEF InitFetch, Slot
  <2>3. owner \in [Tickets -> Owner] /\ phase \in [Tickets -> Phase]
        /\ admission \in [Keys -> Admission]
    BY DEF InitFetch, Owner, Phase, Admission
  <2>4. consumed \in Nat /\ scopeClaims = {} /\ sendFiles = {} /\ settled = {} /\ calls = {}
    BY DEF InitFetch
  <2> QED BY <2>1, <2>2, <2>3, <2>4 DEF FetchTypeOK
<1>3. BudgetBalanced
  <2>1. {t \in Tickets : usage[t].billed = 1} = {}
    BY <1>1
  <2>2. consumed = 0 /\ Cardinality({}) = 0
    BY FS_EmptySet DEF InitFetch
  <2>3. \A t \in Tickets : usage[t].state \notin Open \cup {"billing_unknown"}
    BY <1>1 DEF Open
  <2> QED BY <2>1, <2>2, <2>3 DEF BudgetBalanced, FetchConstants
<1>4. Purchases
  BY <1>1 DEF InitFetch, Purchases, Crossed
<1>5. Sequences
  BY <1>1 DEF InitFetch, Sequences
<1>6. InOrder /\ Overtaken /\ UnusedIsFree
  BY <1>1 DEF InOrder, Overtaken, UnusedIsFree
<1>7. OpenUsageHoldsSlot /\ AdmissionFollowsPurchase
  BY <1>1 DEF OpenUsageHoldsSlot, AdmissionFollowsPurchase, Open, OpenEvent
<1> QED BY <1>2, <1>3, <1>4, <1>5, <1>6, <1>7 DEF IInv

(* Every step preserves the invariant. *)
LEMMA NextStep ==
    ASSUME FetchConstants, IInv, [NextFetch]_fetchVars
    PROVE  IInv'
<1>1. ASSUME NEW t \in Tickets, Fetch(t), UNCHANGED owner PROVE IInv'
  <2>1. CASE Send(t)
    BY <1>1, <2>1, SendStep
  <2>2. ASSUME NEW next \in Refusals, SendFailsLate(t, next) \/ SendRefused(t, next) PROVE IInv'
    BY <1>1, <2>2, QuietSteps
  <2>3. CASE CleanUp(t)
    BY <1>1, <2>3, CleanUpStep
  <2>4. CASE Call(t)
    BY <1>1, <2>4, QuietSteps
  <2>5. CASE AnswerOk(t)
    <3>1. PICK billed \in {"yes", "no"} : Answer(t, TRUE, billed, "succeeded")
      BY <2>5 DEF AnswerOk
    <3> QED BY <1>1, <3>1, AnswerStep
  <2>6. CASE AnswerFailed(t)
    <3>1. PICK billed \in {"yes", "no", "unknown"},
               status \in {"retryable_failed", "terminal_failed"} :
             Answer(t, FALSE, billed, status)
      BY <2>6 DEF AnswerFailed
    <3> QED BY <1>1, <3>1, AnswerStep
  <2> QED BY <1>1, <2>1, <2>2, <2>3, <2>4, <2>5, <2>6 DEF Fetch
<1>2. ASSUME NEW t \in Tickets, ClaimFetch(t) PROVE IInv'
  BY <1>2, FirstClaimStep, CompensateStep DEF ClaimFetch
<1>3. CASE TableStep /\ UNCHANGED owner
  BY <1>1, <1>3, QuietSteps, RecoverStep, MarkTerminalStep DEF TableStep
<1>4. ASSUME NEW S \in SUBSET Tickets, Lapse(S) \/ Lose(S) PROVE IInv'
  BY <1>4, OwnersStep
<1>7. CASE Restart
  BY <1>7, RestartStep
<1>8. CASE UNCHANGED fetchVars
  <2>1. FetchTypeOK'
    BY <1>8 DEF IInv, FetchTypeOK, fetchVars
  <2> QED BY <1>8, <2>1, LedgerStutters DEF fetchVars
<1> QED BY <1>2, <1>3, <1>4, <1>7, <1>8 DEF NextFetch

(* The inductive invariant holds in every reachable state of the paid path. *)
THEOREM Inductive == FetchSpec => []IInv
<1>1. InitFetch => IInv
  BY InitStep, FetchConstants
<1>2. IInv /\ [NextFetch]_fetchVars => IInv'
  BY NextStep, FetchConstants
<1> QED BY <1>1, <1>2, PTL DEF FetchSpec

(* The rows, counters and fetchers keep their types (FetchTypeOK). *)
THEOREM TypeCorrect == FetchSpec => []FetchTypeOK
<1>1. IInv => FetchTypeOK
  BY DEF IInv
<1> QED BY <1>1, Inductive, PTL

(* No request is bought twice, however often it is claimed, retried, recovered or
   compensated, from however many slots (BoughtOnce). *)
THEOREM PurchasesAreUnique == FetchSpec => []BoughtOnce
<1>1. IInv => BoughtOnce
  <2> SUFFICES ASSUME IInv PROVE BoughtOnce
    OBVIOUS
  <2>1. calls \subseteq Tickets /\ \A c \in calls : Crossed(c)
    BY DEF IInv, FetchTypeOK, Purchases
  <2>2. \A c, d \in calls : usage[c].key = usage[d].key => c = d
    BY <2>1 DEF IInv, Purchases
  <2>3. \A c \in calls : usage[c].key[2] > 0 =>
            <<usage[c].key[1], usage[c].key[2] - 1>> \in settled
    BY <2>1 DEF IInv, Sequences
  <2> QED BY <2>2, <2>3 DEF BoughtOnce
<1> QED BY <1>1, Inductive, PTL

(* Money that was given back belongs to a request nobody sent or will send
   (ReleasedNeverCalls). *)
THEOREM ReleasedIsFinal == FetchSpec => []ReleasedNeverCalls
<1>1. IInv => ReleasedNeverCalls
  BY DEF IInv, Purchases, Crossed, ReleasedNeverCalls
<1> QED BY <1>1, Inductive, PTL

(* The budget's counter is the number of billed usages (BudgetBalanced). *)
THEOREM BudgetIsBalanced == FetchSpec => []BudgetBalanced
<1>1. IInv => BudgetBalanced
  BY DEF IInv
<1> QED BY <1>1, Inductive, PTL

(* Open usages hold their slots (OpenUsageHoldsSlot). *)
THEOREM OpenHoldsSlot == FetchSpec => []OpenUsageHoldsSlot
<1>1. IInv => OpenUsageHoldsSlot
  BY DEF IInv
<1> QED BY <1>1, Inductive, PTL

(* The admission row follows the purchase of its key (AdmissionFollowsPurchase). *)
THEOREM AdmissionFollows == FetchSpec => []AdmissionFollowsPurchase
<1>1. IInv => AdmissionFollowsPurchase
  BY DEF IInv
<1> QED BY <1>1, Inductive, PTL

(* The fetchers whose answer is late. *)
LateAnswer(t) == /\ phase[t] = "called" /\ phase'[t] = "gone"
                 /\ owner[t] = "lost" \/ ~IsLatest(t)
Keeps(t) == /\ slot'[t[1]].status = slot[t[1]].status
            /\ slot'[t[1]].count = slot[t[1]].count

(* A step in which a late answer arrives keeps the slot. *)
LEMMA LateStep ==
    ASSUME IInv, [NextFetch]_fetchVars, NEW t \in Tickets, LateAnswer(t)
    PROVE  Keeps(t)
<1>t. /\ phase[t] = "called" /\ phase'[t] = "gone" /\ owner[t] = "lost"
      /\ phase \in [Tickets -> Phase] /\ slot \in [Slots -> Slot] /\ t[1] \in Slots
  BY TicketFacts DEF LateAnswer, IInv, Overtaken, FetchTypeOK
<1>1. ASSUME NEW u \in Tickets, NEW k, Reserve(u, k) PROVE FALSE
  BY <1>1, <1>t DEF Reserve
<1>2. ASSUME NEW u \in Tickets, Send(u) \/ CleanUp(u) \/ Call(u) PROVE FALSE
  BY <1>2, <1>t DEF Send, MaySend, CleanUp, Call
<1>3. ASSUME NEW u \in Tickets, NEW next \in Refusals, SendFailsLate(u, next) \/ SendRefused(u, next)
      PROVE  FALSE
  BY <1>3, <1>t DEF SendFailsLate, SendRefused, MaySend
<1>4. ASSUME NEW u \in Tickets, NEW ok, NEW billed \in {"yes", "no", "unknown"},
             NEW status \in {"succeeded", "retryable_failed", "terminal_failed"},
             Answer(u, ok, billed, status)
      PROVE  Keeps(t)
  <2>1. u = t
    BY <1>4, <1>t DEF Answer
  <2>2. slot'[t[1]] = SlotAfter(t, usage', status, billed)
    BY <1>4, <1>t, <2>1 DEF Answer
  <2>3. ~OwnsSlot(t) /\ slot[t[1]] \in Slot
    BY <1>t DEF OwnsSlot
  <2> QED BY <2>2, <2>3, AnsweredSlot DEF Keeps
<1>5. ASSUME UNCHANGED slot PROVE Keeps(t)
  BY <1>5 DEF Keeps
<1>6. ASSUME UNCHANGED phase PROVE FALSE
  BY <1>6, <1>t
<1>7. ASSUME NEW u \in Tickets, Fetch(u) PROVE Keeps(t)
  <2>1. CASE AnswerOk(u)
    BY <2>1, <1>4 DEF AnswerOk
  <2>2. CASE AnswerFailed(u)
    BY <2>2, <1>4 DEF AnswerFailed
  <2> QED BY <1>7, <1>2, <1>3, <2>1, <2>2 DEF Fetch
<1>8. ASSUME NEW u \in Tickets, AbandonFetch(u) \/ Settle(u) PROVE Keeps(t)
  BY <1>8, <1>5 DEF AbandonFetch, Settle
<1>9. CASE \E u \in Tickets : ClaimFetch(u)
  BY <1>9, <1>1 DEF ClaimFetch, Claim, Compensate, Compensation
<1>13. CASE \E S \in SUBSET Tickets : Lapse(S) \/ Lose(S)
  BY <1>13, <1>5 DEF Lapse, Lose, OwnersBecome
<1>10. CASE Restart
  BY <1>10, <1>5 DEF Restart
<1>11. CASE (\E S \in SUBSET Recoverable : Recover(S)) \/ \E s \in Slots : MarkTerminal(s)
  BY <1>11, <1>6 DEF Recover, MarkTerminal
<1>12. CASE UNCHANGED fetchVars
  BY <1>12, <1>6 DEF fetchVars
<1> QED BY <1>7, <1>8, <1>9, <1>10, <1>11, <1>12, <1>13 DEF NextFetch, TableStep

(* A late answer settles its own usage and leaves the slot alone
   (LateAnswersAreAudit). *)
THEOREM LateIsAudit == FetchSpec => LateAnswersAreAudit
<1>1. IInv /\ [NextFetch]_fetchVars => [\A t \in Tickets : LateAnswer(t) => Keeps(t)]_fetchVars
  BY LateStep
<1>2. (\A t \in Tickets : LateAnswer(t) => Keeps(t)) <=>
      (\A t \in Tickets :
          phase[t] = "called" /\ phase'[t] = "gone" /\ (owner[t] = "lost" \/ ~IsLatest(t)) =>
              /\ slot'[t[1]].status = slot[t[1]].status
              /\ slot'[t[1]].count = slot[t[1]].count)
  BY DEF LateAnswer, Keeps
<1> QED BY <1>1, <1>2, Inductive, PTL DEF FetchSpec, LateAnswersAreAudit

=============================================================================
