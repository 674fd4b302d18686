-------------------------- MODULE PaidDrainProofs --------------------------
(***************************************************************************)
(* Proofs about PaidDrain, for any number of profiles, activations, drains *)
(* and requests, whatever is pending for however many instants.  What keeps *)
(* a released switch drained is that the gate looks at the newest switch   *)
(* not aborted and opens only for its target's profile, that RELEASE finds *)
(* no request open, and that only a switch not released can be left behind *)
(* aborted.  What keeps the ledger true is that an activation turns        *)
(* eligible late only if nothing was sent since it should have taken       *)
(* effect, and that one that was ever in force is never cancelled.         *)
(***************************************************************************)
EXTENDS PaidDrain, SequenceTheorems, FiniteSetTheorems, WellFoundedInduction, TLAPS

Sent(u) == usages[u].state \notin Unsent

\* What activation_at chooses from.
Ripe(t) == {a \in InForce(t) : Eligible(a)}

\* The first activation is in force for good; each names a drain there is.
ActsSound ==
    /\ 1 \in DOMAIN acts
    /\ ~acts[1].gated /\ ~acts[1].cancelled /\ acts[1].effective = 0
    /\ \A a \in DOMAIN acts : acts[a].drain \in DOMAIN drains

\* The chain ends with the newest drain; only a fenced drain is aborted, and only a
\* switch is fenced.
ChainInOrder ==
    /\ Len(chain) > 0 /\ Last.drain = Len(drains)
    /\ \A e \in DOMAIN chain :
           /\ chain[e].drain \in DOMAIN drains
           /\ chain[e].type \in {"restored", "closed"} => drains[chain[e].drain].fence # NoFence
    /\ \A d \in DOMAIN drains :
           /\ drains[d].target \in DOMAIN acts
           /\ drains[d].fence # NoFence => drains[d].cross

\* A request was made for an activation that was eligible and in force.
RequestsInForce ==
    \A u \in DOMAIN usages :
        /\ usages[u].activation \in DOMAIN acts /\ usages[u].sentAt <= clock
        /\ acts[usages[u].activation].effective <= clock
        /\ Eligible(usages[u].activation)

\* Between START and what follows it, the drain decides of its target alone, and
\* nothing was sent since the target should have taken effect.
Draining ==
    Last.type = "start" =>
        /\ \A a \in DOMAIN acts : acts[a].drain = Last.drain => a = LastDrain.target
        /\ \A u \in DOMAIN usages :
               Sent(u) => usages[u].sentAt < acts[LastDrain.target].effective

IInv == /\ DrainTypeOK /\ ActsSound /\ ChainInOrder /\ RequestsInForce /\ Draining
        /\ ReleasedSwitchIsDrained /\ LedgerExplainsSends

-----------------------------------------------------------------------------
(* The latest activation. *)

LEMMA Largest ==
    ASSUME NEW n \in Nat, NEW S \in SUBSET (1..n), S # {}
    PROVE  \E m \in S : \A b \in S : b <= m
<1> DEFINE T == {n - a : a \in S}
<1>1. T \subseteq Nat /\ T # {}
  <2>1. PICK s \in S : TRUE
    OBVIOUS
  <2>2. n - s \in T
    BY <2>1
  <2>3. \A a \in S : n - a \in Nat
    OBVIOUS
  <2> QED BY <2>2, <2>3
<1> HIDE DEF T
<1>2. PICK x \in T : \A y \in T : ~ (<<y, x>> \in OpToRel(<, Nat))
  BY <1>1, WFMin, NatLessThanWellFounded, Zenon
<1>3. \A y \in T : ~ (y < x)
  BY <1>1, <1>2 DEF OpToRel
<1> USE DEF T
<1>4. PICK m \in S : x = n - m
  OBVIOUS
<1>5. \A b \in S : b <= m
  <2> TAKE b \in S
  <2>1. n - b \in T /\ n - b \in Nat /\ x \in Nat /\ b \in Nat /\ m \in Nat
    BY <1>1, <1>4
  <2>2. ~ (n - b < n - m)
    BY <1>3, <1>4, <2>1
  <2> QED BY <2>1, <2>2
<1> QED BY <1>5

IsLatest(A, S, a) ==
    \A b \in S : \/ A[b].effective < A[a].effective
                 \/ A[b].effective = A[a].effective /\ b <= a

LatestOf(A, S) == CHOOSE a \in S :
    \A b \in S : \/ A[b].effective < A[a].effective
                 \/ A[b].effective = A[a].effective /\ b <= a

\* Of the activations effective by some instant exactly one is the latest.
LEMMA LatestIsUnique ==
    ASSUME NEW A \in Seq(Activation), NEW t \in Nat,
           NEW S, S \subseteq DOMAIN A, S # {}, \A a \in S : A[a].effective <= t
    PROVE  /\ LatestOf(A, S) \in S /\ IsLatest(A, S, LatestOf(A, S))
           /\ \A m \in S : IsLatest(A, S, m) => m = LatestOf(A, S)
<1>1. DOMAIN A = 1..Len(A) /\ Len(A) \in Nat
  OBVIOUS
<1>2. \A a \in DOMAIN A : a \in Nat /\ A[a].effective \in Nat
  <2>1. \A a \in DOMAIN A : a \in Nat /\ A[a] \in Activation
    BY <1>1
  <2> QED BY <2>1 DEF Activation
<1> DEFINE Instants == {A[a].effective + 1 : a \in S}
<1>3. PICK x \in Instants : \A y \in Instants : y <= x
  <2>1. Instants \in SUBSET (1..(t + 1)) /\ Instants # {} /\ t + 1 \in Nat
    BY <1>2
  <2> HIDE DEF Instants
  <2> QED BY <2>1, Largest
<1> DEFINE Late == {a \in S : A[a].effective + 1 = x}
<1>4. PICK m \in Late : \A b \in Late : b <= m
  <2>1. Late \in SUBSET (1..Len(A)) /\ Late # {}
    BY <1>1, <1>3
  <2> HIDE DEF Late
  <2> QED BY <1>1, <2>1, Largest
<1>5. m \in S /\ IsLatest(A, S, m)
  <2> SUFFICES ASSUME NEW b \in S
               PROVE  \/ A[b].effective < A[m].effective
                      \/ A[b].effective = A[m].effective /\ b <= m
    BY <1>4 DEF IsLatest
  <2>1. A[b].effective + 1 <= A[m].effective + 1
    BY <1>3, <1>4
  <2>2. A[b].effective = A[m].effective => b <= m
    BY <1>4
  <2> QED BY <1>2, <1>4, <2>1, <2>2
<1>6. LatestOf(A, S) \in S /\ IsLatest(A, S, LatestOf(A, S))
  BY <1>5 DEF LatestOf, IsLatest
<1>7. ASSUME NEW a \in S, NEW b \in S, IsLatest(A, S, a), IsLatest(A, S, b)
      PROVE  a = b
  <2>1. /\ a \in Nat /\ b \in Nat
        /\ A[a].effective \in Nat /\ A[b].effective \in Nat
    BY <1>2
  <2>2. A[b].effective < A[a].effective \/ (A[b].effective = A[a].effective /\ b <= a)
    BY <1>7 DEF IsLatest
  <2>3. A[a].effective < A[b].effective \/ (A[a].effective = A[b].effective /\ a <= b)
    BY <1>7 DEF IsLatest
  <2> QED BY <2>1, <2>2, <2>3
<1> QED BY <1>6, <1>7

\* What the types say of single rows.
LEMMA TypedRows ==
    ASSUME DrainTypeOK
    PROVE  /\ DOMAIN acts = 1..Len(acts) /\ Len(acts) \in Nat
           /\ DOMAIN drains = 1..Len(drains) /\ Len(drains) \in Nat
           /\ DOMAIN chain = 1..Len(chain) /\ Len(chain) \in Nat
           /\ DOMAIN usages = 1..Len(usages) /\ Len(usages) \in Nat
           /\ clock \in Nat
           /\ \A a \in DOMAIN acts : acts[a] \in Activation /\ acts[a].effective \in Nat
           /\ \A d \in DOMAIN drains : drains[d] \in Drain
           /\ \A e \in DOMAIN chain : chain[e] \in Event
           /\ \A u \in DOMAIN usages : usages[u] \in Usage /\ usages[u].sentAt \in Nat
<1>1. /\ acts \in Seq(Activation) /\ drains \in Seq(Drain)
      /\ chain \in Seq(Event) /\ usages \in Seq(Usage)
  BY DEF DrainTypeOK
<1>2. \A a \in DOMAIN acts : acts[a] \in Activation
  BY <1>1
<1>3. \A u \in DOMAIN usages : usages[u] \in Usage
  BY <1>1
<1>4. clock \in Nat
  BY DrainConstants DEF DrainTypeOK
<1>5. \A d \in DOMAIN drains : drains[d] \in Drain
  BY <1>1
<1>6. \A e \in DOMAIN chain : chain[e] \in Event
  BY <1>1
<1>7. \A a \in DOMAIN acts : acts[a].effective \in Nat
  BY <1>2 DEF Activation
<1>8. \A u \in DOMAIN usages : usages[u].sentAt \in Nat
  BY <1>3 DEF Usage
<1> QED BY <1>1, <1>2, <1>3, <1>4, <1>5, <1>6, <1>7, <1>8

LEMMA LastDrainExists ==
    ASSUME DrainTypeOK, ChainInOrder
    PROVE  Last.drain \in DOMAIN drains
<1>1. Len(chain) \in Nat /\ DOMAIN chain = 1..Len(chain) /\ Len(chain) > 0
  BY TypedRows DEF ChainInOrder
<1>2. Len(chain) \in DOMAIN chain
  BY <1>1
<1> QED BY <1>2 DEF ChainInOrder, Last

\* There is an activation in force, the latest of the ripe ones.
LEMMA ActiveNow ==
    ASSUME DrainTypeOK, ActsSound, NEW t \in Nat
    PROVE  /\ Ripe(t) \subseteq DOMAIN acts /\ ActiveAt(t) \in Ripe(t)
           /\ \A m \in Ripe(t) : IsLatest(acts, Ripe(t), m) => m = ActiveAt(t)
<1>1. /\ Ripe(t) \subseteq DOMAIN acts /\ 1 \in Ripe(t)
      /\ \A a \in Ripe(t) : acts[a].effective <= t
  BY DEF Ripe, InForce, Eligible, ActsSound
<1>2. ActiveAt(t) = LatestOf(acts, Ripe(t))
  BY DEF ActiveAt, Ripe, Latest, LatestOf
<1>3. acts \in Seq(Activation)
  BY DEF DrainTypeOK
<1> HIDE DEF Ripe
<1> QED BY <1>1, <1>2, <1>3, LatestIsUnique

\* A step that keeps what was ripe, and since when, keeps what was in force.
LEMMA ActiveKept ==
    ASSUME DrainTypeOK, ActsSound, DrainTypeOK', ActsSound', NEW t \in Nat,
           Ripe(t)' = Ripe(t), \A a \in DOMAIN acts : acts'[a].effective = acts[a].effective
    PROVE  ActiveAt(t)' = ActiveAt(t)
<1>1. /\ Ripe(t) \subseteq DOMAIN acts /\ 1 \in Ripe(t)
      /\ \A a \in Ripe(t) : acts[a].effective <= t
  BY DEF Ripe, InForce, Eligible, ActsSound
<1>2. Ripe(t) \subseteq DOMAIN acts' /\ \A a \in Ripe(t) : acts'[a].effective <= t
  <2>1. Ripe(t)' \subseteq DOMAIN acts'
    BY DEF Ripe, InForce
  <2> QED BY <1>1, <2>1
<1>3. ActiveAt(t) = LatestOf(acts, Ripe(t)) /\ ActiveAt(t)' = LatestOf(acts', Ripe(t)')
  BY DEF ActiveAt, Ripe, Latest, LatestOf
<1>4. acts \in Seq(Activation) /\ acts' \in Seq(Activation)
  BY DEF DrainTypeOK
<1> DEFINE S == Ripe(t)
<1> HIDE DEF S
<1>5. LatestOf(acts, S) \in S /\ IsLatest(acts, S, LatestOf(acts, S))
  BY <1>1, <1>4, LatestIsUnique DEF S
<1>6. \A m \in S : IsLatest(acts', S, m) => m = LatestOf(acts', S)
  BY <1>1, <1>2, <1>4, LatestIsUnique DEF S
<1>7. IsLatest(acts', S, LatestOf(acts, S))
  BY <1>1, <1>5 DEF IsLatest, S
<1> QED BY <1>3, <1>5, <1>6, <1>7 DEF S

\* The last activation that may be in force, eligible or not.
LEMMA LatestInForce ==
    ASSUME DrainTypeOK, ActsSound
    PROVE  /\ Latest(InForce(clock)) \in InForce(clock)
           /\ IsLatest(acts, InForce(clock), Latest(InForce(clock)))
<1>1. /\ InForce(clock) \subseteq DOMAIN acts /\ 1 \in InForce(clock)
      /\ \A a \in InForce(clock) : acts[a].effective <= clock
      /\ clock \in Nat
  BY TypedRows DEF InForce, ActsSound
<1>2. Latest(InForce(clock)) = LatestOf(acts, InForce(clock))
  BY DEF Latest, LatestOf
<1>3. acts \in Seq(Activation)
  BY DEF DrainTypeOK
<1> QED BY <1>1, <1>2, <1>3, LatestIsUnique

-----------------------------------------------------------------------------
(* Initially. *)

LEMMA InitInductive == Init => IInv
<1> SUFFICES ASSUME Init PROVE IInv
  OBVIOUS
<1> DEFINE Types == <<"start", "sealed", "release">>
<1>1. /\ acts \in Seq(Activation) /\ Len(acts) = 1
      /\ acts[1] = [profile |-> First, effective |-> 0, gated |-> FALSE,
                    drain |-> 1, cancelled |-> FALSE]
  BY DrainConstants DEF Init, Activation
<1>2. /\ drains \in Seq(Drain) /\ Len(drains) = 1
      /\ drains[1] = [source |-> 1, target |-> 1, cross |-> FALSE, frozen |-> {}, mark |-> 0,
                      fence |-> NoFence]
  BY DEF Init, Drain
<1>3. /\ chain \in Seq(Event) /\ Len(chain) = 3
      /\ \A i \in 1..3 : chain[i] = [type |-> Types[i], drain |-> 1, at |-> 0]
  <2>1. chain = [i \in 1..3 |-> [type |-> Types[i], drain |-> 1, at |-> 0]]
    BY DEF Init
  <2>2. \A i \in 1..3 : [type |-> Types[i], drain |-> 1, at |-> 0] \in Event
    BY DEF Event, EventType
  <2>3. chain \in [1..3 -> Event]
    BY <2>1, <2>2
  <2> QED BY <2>1, <2>3
<1>4. usages = <<>> /\ usages \in Seq(Usage) /\ clock = 0 /\ completing = Idle
  BY DEF Init
<1>5. DrainTypeOK
  BY <1>1, <1>2, <1>3, <1>4, DrainConstants DEF DrainTypeOK, Idle, NoDrain
<1>6. ActsSound
  BY <1>1, <1>2 DEF ActsSound
<1>7. chain[3].type = "release" /\ \A i \in 1..3 : chain[i].type \notin {"restored", "closed"}
  BY <1>3
<1>8. ChainInOrder
  BY <1>1, <1>2, <1>3, <1>7 DEF ChainInOrder, Last
<1>9. DOMAIN usages = {}
  BY <1>4
<1>10. RequestsInForce /\ ReleasedSwitchIsDrained /\ LedgerExplainsSends
  BY <1>9 DEF RequestsInForce, ReleasedSwitchIsDrained, LedgerExplainsSends, OpenUsages
<1>11. Draining
  BY <1>3, <1>7 DEF Draining, Last
<1> QED BY <1>5, <1>6, <1>8, <1>10, <1>11 DEF IInv

-----------------------------------------------------------------------------
(* Requests. *)

\* After START the gate is closed; open, it lets through what is for the target of
\* the newest switch, unless that one is being aborted.
LEMMA OpenGate ==
    ASSUME IInv, GateOpen
    PROVE  /\ Last.type # "start"
           /\ \A d \in DOMAIN drains : NewestSwitch(d) /\ drains[d].fence = NoFence =>
                  acts[Active].profile = acts[drains[d].target].profile
<1>1. Last.type # "start"
  BY DEF GateOpen
<1>2. ASSUME NEW d \in DOMAIN drains, NewestSwitch(d), drains[d].fence = NoFence
      PROVE  acts[Active].profile = acts[drains[d].target].profile
  <2>1. /\ Last.drain = Len(drains) /\ Last.drain \in DOMAIN drains
        /\ DOMAIN drains = 1..Len(drains) /\ Len(drains) \in Nat
    BY TypedRows, LastDrainExists DEF IInv, ChainInOrder
  <2>2. LastDrain.fence = NoFence
    <3> SUFFICES ASSUME LastDrain.fence # NoFence PROVE FALSE
      OBVIOUS
    <3>1. drains[Last.drain].cross
      BY <2>1 DEF IInv, ChainInOrder, LastDrain
    <3>2. Last.drain <= d /\ d <= Last.drain
      BY <1>2, <2>1, <3>1 DEF NewestSwitch
    <3>3. d = Last.drain
      BY <2>1, <3>2
    <3> QED BY <1>2, <3>3 DEF LastDrain
  <2>3. SwitchDone
    BY <2>2 DEF GateOpen
  <2>4. ~Aborted(d)
    BY <1>2 DEF IInv, ChainInOrder, Aborted
  <2>5. d \in Switches /\ \A x \in Switches : x <= d
    BY <1>2, <2>4 DEF Switches, NewestSwitch
  <2> QED BY <2>3, <2>5 DEF SwitchDone
<1> QED BY <1>1, <1>2

\* A step of a request leaves everything else as it is.
LEMMA RequestFrame ==
    ASSUME IInv, usages' \in Seq(Usage), UNCHANGED <<clock, acts, drains, chain, completing>>
    PROVE  /\ DrainTypeOK' /\ ActsSound' /\ ChainInOrder'
           /\ \A t : ActiveAt(t)' = ActiveAt(t)
           /\ Active' = Active
           /\ \A a : Eligible(a)' = Eligible(a)
           /\ \A d : NewestSwitch(d)' = NewestSwitch(d) /\ Released(d)' = Released(d)
           /\ Last' = Last /\ LastDrain' = LastDrain
<1>1. DrainTypeOK'
  BY DEF IInv, DrainTypeOK
<1>2. ActsSound'
  BY DEF IInv, ActsSound
<1>3. Last' = Last /\ LastDrain' = LastDrain
  BY DEF Last, LastDrain
<1>4. ChainInOrder'
  BY <1>3 DEF IInv, ChainInOrder
<1>5. \A a : Eligible(a)' = Eligible(a)
  BY DEF Eligible
<1>6. \A d : NewestSwitch(d)' = NewestSwitch(d) /\ Released(d)' = Released(d)
  BY DEF NewestSwitch, Released
<1>7. \A t : ActiveAt(t)' = ActiveAt(t)
  BY DEF ActiveAt, Latest, InForce, Eligible
<1>8. Active' = Active
  BY <1>7 DEF Active
<1> QED BY <1>1, <1>2, <1>3, <1>4, <1>5, <1>6, <1>7, <1>8

LEMMA ReserveInductive == IInv /\ Reserve => IInv'
<1> SUFFICES ASSUME IInv, Reserve PROVE IInv'
  OBVIOUS
<1> DEFINE new == [state |-> "reserved", activation |-> Active, sentAt |-> 0]
           n == Len(usages) + 1
<1>1. DrainTypeOK /\ ActsSound /\ clock \in Nat
  BY TypedRows DEF IInv
<1>2. Active \in DOMAIN acts /\ acts[Active].effective <= clock /\ Eligible(Active)
  BY <1>1, ActiveNow DEF Active, Ripe, InForce
<1>3. Active \in Nat
  BY <1>1, <1>2, TypedRows
<1>4. new \in Usage
  BY <1>3 DEF Usage, UsageState, OpenState
<1>5. usages \in Seq(Usage) /\ usages' = Append(usages, new)
  BY <1>1 DEF Reserve, DrainTypeOK
<1>6. /\ usages' \in Seq(Usage) /\ DOMAIN usages' = 1..n /\ DOMAIN usages = 1..Len(usages)
      /\ Len(usages) \in Nat /\ usages'[n] = new
      /\ \A u \in DOMAIN usages : usages'[u] = usages[u]
  BY <1>4, <1>5, AppendProperties
<1>7. UNCHANGED <<clock, acts, drains, chain, completing>>
  BY DEF Reserve
<1>8. \A u \in DOMAIN usages' : u = n \/ (u \in DOMAIN usages /\ usages'[u] = usages[u])
  BY <1>6
<1>9. /\ DrainTypeOK' /\ ActsSound' /\ ChainInOrder'
      /\ \A t : ActiveAt(t)' = ActiveAt(t)
      /\ Active' = Active
      /\ \A a : Eligible(a)' = Eligible(a)
      /\ \A d : NewestSwitch(d)' = NewestSwitch(d) /\ Released(d)' = Released(d)
      /\ Last' = Last /\ LastDrain' = LastDrain
  BY <1>6, <1>7, RequestFrame
<1>10. RequestsInForce'
  <2> SUFFICES ASSUME NEW u \in DOMAIN usages'
               PROVE  /\ usages'[u].activation \in DOMAIN acts /\ usages'[u].sentAt <= clock
                      /\ acts[usages'[u].activation].effective <= clock
                      /\ Eligible(usages'[u].activation)
    BY <1>7, <1>9 DEF RequestsInForce
  <2>1. CASE u = n
    BY <1>1, <1>2, <1>6, <2>1
  <2>2. CASE u \in DOMAIN usages /\ usages'[u] = usages[u]
    BY <2>2 DEF IInv, RequestsInForce
  <2> QED BY <1>8, <2>1, <2>2
<1>11. /\ Last.type # "start"
       /\ \A d \in DOMAIN drains : NewestSwitch(d) /\ drains[d].fence = NoFence =>
              acts[Active].profile = acts[drains[d].target].profile
  BY OpenGate DEF Reserve
<1>12. Draining'
  BY <1>9, <1>11 DEF Draining
<1>13. ReleasedSwitchIsDrained'
  <2> SUFFICES ASSUME NEW d \in DOMAIN drains, NewestSwitch(d), Released(d),
                      drains[d].fence = NoFence,
                      NEW u \in DOMAIN usages', usages'[u].state \in OpenState
               PROVE  acts[usages'[u].activation].profile = acts[drains[d].target].profile
    BY <1>7, <1>9 DEF ReleasedSwitchIsDrained, OpenUsages
  <2>1. CASE u = n
    BY <1>6, <1>11, <2>1
  <2>2. CASE u \in DOMAIN usages /\ usages'[u] = usages[u]
    BY <2>2 DEF IInv, ReleasedSwitchIsDrained, OpenUsages
  <2> QED BY <1>8, <2>1, <2>2
<1>14. LedgerExplainsSends'
  <2> SUFFICES ASSUME NEW u \in DOMAIN usages', usages'[u].state \notin Unsent
               PROVE  ActiveAt(usages'[u].sentAt) = usages'[u].activation
    BY <1>9 DEF LedgerExplainsSends
  <2>1. u # n
    BY <1>6 DEF Unsent
  <2>2. u \in DOMAIN usages /\ usages'[u] = usages[u]
    BY <1>8, <2>1
  <2> QED BY <2>2 DEF IInv, LedgerExplainsSends
<1> QED BY <1>9, <1>10, <1>12, <1>13, <1>14 DEF IInv

\* A request changes its state; only a send enters a sent state.
LEMMA RequestInductive ==
    ASSUME IInv, NEW u \in DOMAIN usages, NEW new \in Usage,
           usages' = [usages EXCEPT ![u] = new],
           UNCHANGED <<clock, acts, drains, chain, completing>>,
           usages[u].state \in OpenState \/ new.state \notin OpenState,
           new.activation = usages[u].activation,
           \/ new.sentAt = usages[u].sentAt /\ (new.state \notin Unsent => Sent(u))
           \/ /\ Last.type # "start" /\ new.sentAt = clock
              /\ ActiveAt(clock) = usages[u].activation
    PROVE  IInv'
<1>1. /\ usages \in Seq(Usage) /\ clock \in Nat
      /\ DOMAIN usages = 1..Len(usages) /\ Len(usages) \in Nat
  BY TypedRows DEF IInv, DrainTypeOK
<1>2. /\ usages' \in Seq(Usage) /\ DOMAIN usages' = DOMAIN usages /\ usages'[u] = new
      /\ \A v \in DOMAIN usages : v # u => usages'[v] = usages[v]
  BY <1>1, ExceptSeq
<1>3. /\ DrainTypeOK' /\ ActsSound' /\ ChainInOrder'
      /\ \A t : ActiveAt(t)' = ActiveAt(t)
      /\ Active' = Active
      /\ \A a : Eligible(a)' = Eligible(a)
      /\ \A d : NewestSwitch(d)' = NewestSwitch(d) /\ Released(d)' = Released(d)
      /\ Last' = Last /\ LastDrain' = LastDrain
  BY <1>2, RequestFrame
<1>4. \A v \in DOMAIN usages : usages'[v].activation = usages[v].activation
  BY <1>2
<1>5. usages[u].sentAt <= clock
  BY DEF IInv, RequestsInForce
<1>6. \A v \in DOMAIN usages : usages'[v].sentAt <= clock
  <2> TAKE v \in DOMAIN usages
  <2>1. CASE v = u
    <3>1. usages'[v].sentAt \in {usages[u].sentAt, clock}
      BY <1>2, <2>1
    <3> QED BY <1>1, <1>5, <3>1
  <2>2. CASE v # u
    BY <1>2, <2>2 DEF IInv, RequestsInForce
  <2> QED BY <2>1, <2>2
<1>7. RequestsInForce'
  BY <1>2, <1>3, <1>4, <1>6 DEF IInv, RequestsInForce
<1>8. OpenUsages' \subseteq OpenUsages
  BY <1>2 DEF OpenUsages
<1>9. ReleasedSwitchIsDrained'
  <2> SUFFICES ASSUME NEW d \in DOMAIN drains, NewestSwitch(d), Released(d),
                      drains[d].fence = NoFence, NEW v \in OpenUsages'
               PROVE  acts[usages'[v].activation].profile = acts[drains[d].target].profile
    BY <1>3 DEF ReleasedSwitchIsDrained
  <2>1. v \in OpenUsages /\ v \in DOMAIN usages
    BY <1>8 DEF OpenUsages
  <2> QED BY <1>4, <2>1 DEF IInv, ReleasedSwitchIsDrained
<1>10. ASSUME NEW v \in DOMAIN usages, usages'[v].state \notin Unsent
       PROVE  \/ Sent(v) /\ usages'[v].sentAt = usages[v].sentAt
              \/ /\ Last.type # "start" /\ usages'[v].sentAt = clock
                 /\ ActiveAt(clock) = usages[v].activation
  <2>1. CASE v = u
    BY <1>2, <1>10, <2>1
  <2>2. CASE v # u
    BY <1>2, <1>10, <2>2 DEF Sent
  <2> QED BY <2>1, <2>2
<1>11. LedgerExplainsSends'
  <2> SUFFICES ASSUME NEW v \in DOMAIN usages, usages'[v].state \notin Unsent
               PROVE  ActiveAt(usages'[v].sentAt) = usages[v].activation
    BY <1>2, <1>3, <1>4 DEF LedgerExplainsSends
  <2>1. CASE Sent(v) /\ usages'[v].sentAt = usages[v].sentAt
    BY <2>1 DEF IInv, LedgerExplainsSends, Sent
  <2>2. CASE usages'[v].sentAt = clock /\ ActiveAt(clock) = usages[v].activation
    BY <2>2
  <2> QED BY <1>10, <2>1, <2>2
<1>12. Draining'
  <2> SUFFICES ASSUME Last.type = "start"
               PROVE  /\ \A a \in DOMAIN acts : acts[a].drain = Last.drain => a = LastDrain.target
                      /\ \A v \in DOMAIN usages : usages'[v].state \notin Unsent =>
                             usages'[v].sentAt < acts[LastDrain.target].effective
    BY <1>2, <1>3 DEF Draining, Sent
  <2> QED BY <1>10 DEF IInv, Draining
<1> QED BY <1>3, <1>7, <1>9, <1>11, <1>12 DEF IInv

LEMMA SendInductive ==
    ASSUME IInv, NEW u \in DOMAIN usages, Send(u)
    PROVE  IInv'
<1> DEFINE new == [usages[u] EXCEPT !.state = "sent", !.sentAt = clock]
<1>1. usages[u] \in Usage /\ clock \in Nat /\ DrainTypeOK /\ ActsSound
  BY TypedRows DEF IInv
<1>2. new \in Usage /\ new.activation = usages[u].activation /\ new.sentAt = clock
  BY <1>1 DEF Usage, UsageState, OpenState
<1>3. usages' = [usages EXCEPT ![u] = new]
  BY DEF Send
<1>4. /\ usages[u].state \in OpenState /\ GateOpen
      /\ usages[u].activation = Latest(InForce(clock))
  BY DEF Send, Sendable, BoundToLatest, OpenState
<1>5. ActiveAt(clock) = usages[u].activation
  <2>1. usages[u].activation \in Ripe(clock)
    BY <1>1, <1>4, LatestInForce DEF IInv, RequestsInForce, Ripe
  <2>2. IsLatest(acts, Ripe(clock), usages[u].activation)
    BY <1>1, <1>4, LatestInForce DEF Ripe, IsLatest
  <2> QED BY <1>1, <2>1, <2>2, ActiveNow
<1>6. Last.type # "start"
  BY <1>4, OpenGate
<1>7. UNCHANGED <<clock, acts, drains, chain, completing>>
  BY DEF Send
<1> HIDE DEF new
<1> QED BY <1>2, <1>3, <1>4, <1>5, <1>6, <1>7, RequestInductive

LEMMA EndInductive ==
    ASSUME IInv, NEW u \in DOMAIN usages, NotSent(u) \/ Answer(u) \/ Settle(u)
    PROVE  IInv'
<1>1. PICK before, after : /\ End(u, before, after)
                           /\ <<before, after>> \in {<<"reserved", "not_sent">>,
                                  <<"sent", "terminal">>, <<"terminal", "settled">>}
  BY DEF NotSent, Answer, Settle
<1> DEFINE new == [usages[u] EXCEPT !.state = after]
<1>2. usages[u] \in Usage
  BY TypedRows DEF IInv
<1>3. after \in UsageState \ OpenState /\ usages[u].state = before
  BY <1>1 DEF End, UsageState, OpenState, Unsent
<1>4. /\ new \in Usage /\ new.state = after
      /\ new.activation = usages[u].activation /\ new.sentAt = usages[u].sentAt
  BY <1>2, <1>3 DEF Usage
<1>5. usages' = [usages EXCEPT ![u] = new]
  BY <1>1 DEF End
<1>6. new.state \notin Unsent => Sent(u)
  BY <1>1, <1>3, <1>4 DEF Unsent, Sent
<1>7. UNCHANGED <<clock, acts, drains, chain, completing>>
  BY <1>1 DEF End
<1> HIDE DEF new
<1> QED BY <1>3, <1>4, <1>5, <1>6, <1>7, RequestInductive

-----------------------------------------------------------------------------
(* New drains. *)

\* What Log appends.
LEMMA Logged ==
    ASSUME NEW n \in Nat \ {0}, NEW types, DOMAIN types = 1..n, Len(types) = n,
           \A i \in 1..n : types[i] \in EventType,
           NEW d \in Nat, NEW at \in Nat, chain \in Seq(Event), Log(types, d, at)
    PROVE  /\ chain' \in Seq(Event) /\ Len(chain') = Len(chain) + n
           /\ DOMAIN chain' = 1..(Len(chain) + n) /\ Len(chain) \in Nat
           /\ \A e \in DOMAIN chain : e \in DOMAIN chain' /\ chain'[e] = chain[e]
           /\ \A i \in 1..n : chain'[Len(chain) + i] = [type |-> types[i], drain |-> d, at |-> at]
           /\ \A e \in DOMAIN chain' : e \in DOMAIN chain \/ e - Len(chain) \in 1..n
           /\ Last' = [type |-> types[n], drain |-> d, at |-> at]
<1> DEFINE new == [i \in DOMAIN types |-> [type |-> types[i], drain |-> d, at |-> at]]
<1>1. \A i \in 1..n : [type |-> types[i], drain |-> d, at |-> at] \in Event
  BY DEF Event
<1>2. new \in [1..n -> Event]
  BY <1>1
<1>3. new \in Seq(Event) /\ Len(new) = n
  BY <1>2
<1>4. \A i \in 1..n : new[i] = [type |-> types[i], drain |-> d, at |-> at]
  OBVIOUS
<1>5. chain' = chain \o new
  BY DEF Log
<1> HIDE DEF new
<1>6. /\ chain' \in Seq(Event) /\ Len(chain') = Len(chain) + n /\ Len(chain) \in Nat
      /\ \A i \in 1..(Len(chain) + n) :
             chain'[i] = IF i <= Len(chain) THEN chain[i] ELSE new[i - Len(chain)]
  <2>1. /\ chain \o new \in Seq(Event) /\ Len(chain \o new) = Len(chain) + Len(new)
        /\ \A i \in 1..(Len(chain) + Len(new)) :
               (chain \o new)[i] = IF i <= Len(chain) THEN chain[i] ELSE new[i - Len(chain)]
    BY <1>3, ConcatProperties
  <2> QED BY <1>3, <1>5, <2>1
<1>7. DOMAIN chain' = 1..(Len(chain) + n) /\ DOMAIN chain = 1..Len(chain)
  BY <1>6
<1>8. \A i \in 1..n : chain'[Len(chain) + i] = [type |-> types[i], drain |-> d, at |-> at]
  <2> TAKE i \in 1..n
  <2>1. Len(chain) + i \in 1..(Len(chain) + n) /\ ~(Len(chain) + i <= Len(chain))
        /\ (Len(chain) + i) - Len(chain) = i
    BY <1>6
  <2> QED BY <1>4, <1>6, <2>1
<1>9. \A e \in DOMAIN chain : e \in DOMAIN chain' /\ chain'[e] = chain[e]
  BY <1>6, <1>7
<1>10. \A e \in DOMAIN chain' : e \in DOMAIN chain \/ e - Len(chain) \in 1..n
  BY <1>6, <1>7
<1>11. Last' = [type |-> types[n], drain |-> d, at |-> at]
  BY <1>6, <1>8 DEF Last
<1> QED BY <1>6, <1>7, <1>8, <1>9, <1>10, <1>11

\* The old events stay, and each new one is one of those types.
LEMMA EntriesLogged ==
    ASSUME NEW types \in Seq(EventType), types # <<>>,
           NEW d \in Nat, NEW at \in Nat, chain \in Seq(Event), Log(types, d, at)
    PROVE  /\ chain' \in Seq(Event) /\ Len(chain') > 0
           /\ Last'.drain = d /\ Last'.type = types[Len(types)]
           /\ \A e \in DOMAIN chain : e \in DOMAIN chain' /\ chain'[e] = chain[e]
           /\ \A e \in DOMAIN chain' :
                  e \in DOMAIN chain
                  \/ \E i \in DOMAIN types : /\ chain'[e].type = types[i]
                                            /\ chain'[e].drain = d /\ chain'[e].at = at
<1> DEFINE n == Len(types)
<1>1. /\ n \in Nat \ {0} /\ DOMAIN types = 1..n
      /\ \A i \in 1..n : types[i] \in EventType
  OBVIOUS
<1> HIDE DEF n
<1>2. /\ chain' \in Seq(Event) /\ Len(chain') = Len(chain) + n
      /\ DOMAIN chain' = 1..(Len(chain) + n) /\ Len(chain) \in Nat
      /\ \A e \in DOMAIN chain : e \in DOMAIN chain' /\ chain'[e] = chain[e]
      /\ \A i \in 1..n : chain'[Len(chain) + i] = [type |-> types[i], drain |-> d, at |-> at]
      /\ \A e \in DOMAIN chain' : e \in DOMAIN chain \/ e - Len(chain) \in 1..n
      /\ Last' = [type |-> types[n], drain |-> d, at |-> at]
  <2>1. Len(types) = n
    BY DEF n
  <2> QED BY <1>1, <2>1, Logged
<1>3. ASSUME NEW e \in DOMAIN chain', e \notin DOMAIN chain
      PROVE  \E i \in DOMAIN types : /\ chain'[e].type = types[i]
                                    /\ chain'[e].drain = d /\ chain'[e].at = at
  <2>1. e - Len(chain) \in 1..n /\ e = Len(chain) + (e - Len(chain))
    BY <1>2, <1>3
  <2>2. chain'[e] = [type |-> types[e - Len(chain)], drain |-> d, at |-> at]
    BY <1>2, <2>1
  <2> QED BY <1>1, <2>1, <2>2
<1>4. Len(chain') > 0
  BY <1>1, <1>2
<1> QED BY <1>2, <1>3, <1>4 DEF n

\* The chain has grown by events of drain d that are no abort.
LoggedBy(d) ==
    /\ chain' \in Seq(Event) /\ Len(chain') > 0 /\ Last'.drain = d
    /\ \A e \in DOMAIN chain : e \in DOMAIN chain' /\ chain'[e] = chain[e]
    /\ \A e \in DOMAIN chain' :
           e \in DOMAIN chain \/ (/\ chain'[e].drain = d
                                  /\ chain'[e].type \in {"start", "sealed", "release"})

LEMMA EventsLogged ==
    ASSUME NEW types \in Seq({"start", "sealed", "release"}), types # <<>>,
           NEW d \in Nat, NEW at \in Nat, chain \in Seq(Event), Log(types, d, at)
    PROVE  /\ LoggedBy(d) /\ Last'.type = types[Len(types)]
           /\ \A e \in DOMAIN chain' :
                  e \in DOMAIN chain \/ \E i \in DOMAIN types : chain'[e].type = types[i]
<1>1. /\ types \in Seq(EventType)
      /\ \A i \in DOMAIN types : types[i] \in {"start", "sealed", "release"}
  BY DEF EventType
<1>2. /\ chain' \in Seq(Event) /\ Len(chain') > 0
      /\ Last'.drain = d /\ Last'.type = types[Len(types)]
      /\ \A e \in DOMAIN chain : e \in DOMAIN chain' /\ chain'[e] = chain[e]
      /\ \A e \in DOMAIN chain' :
             e \in DOMAIN chain
             \/ \E i \in DOMAIN types : /\ chain'[e].type = types[i]
                                       /\ chain'[e].drain = d /\ chain'[e].at = at
  BY <1>1, EntriesLogged
<1> QED BY <1>1, <1>2 DEF LoggedBy

LEMMA StartLogged ==
    ASSUME NEW d \in Nat, NEW at \in Nat, chain \in Seq(Event), Log(<<"start">>, d, at)
    PROVE  /\ LoggedBy(d) /\ Last'.type = "start"
           /\ \A e \in DOMAIN chain' : e \in DOMAIN chain \/ chain'[e].type = "start"
<1> DEFINE types == <<"start">>
<1>1. /\ types \in Seq({"start", "sealed", "release"}) /\ types # <<>>
      /\ Len(types) = 1 /\ DOMAIN types = 1..1 /\ types[1] = "start"
  OBVIOUS
<1>2. Log(types, d, at)
  OBVIOUS
<1> HIDE DEF types
<1>3. /\ LoggedBy(d) /\ Last'.type = types[Len(types)]
      /\ \A e \in DOMAIN chain' :
             e \in DOMAIN chain \/ \E i \in DOMAIN types : chain'[e].type = types[i]
  BY <1>1, <1>2, EventsLogged
<1> QED BY <1>1, <1>3

LEMMA SealLogged ==
    ASSUME NEW d \in Nat, NEW at \in Nat, chain \in Seq(Event), Log(<<"sealed", "release">>, d, at)
    PROVE  LoggedBy(d) /\ Last'.type = "release"
<1> DEFINE types == <<"sealed", "release">>
<1>1. /\ types \in Seq({"start", "sealed", "release"}) /\ types # <<>>
      /\ Len(types) = 2 /\ types[2] = "release"
  OBVIOUS
<1>2. Log(types, d, at)
  OBVIOUS
<1> HIDE DEF types
<1>3. LoggedBy(d) /\ Last'.type = types[Len(types)]
  BY <1>1, <1>2, EventsLogged
<1> QED BY <1>1, <1>3

LEMMA PermitLogged ==
    ASSUME NEW d \in Nat, NEW at \in Nat, chain \in Seq(Event),
           Log(<<"start", "sealed", "release">>, d, at)
    PROVE  LoggedBy(d) /\ Last'.type = "release"
<1> DEFINE types == <<"start", "sealed", "release">>
<1>1. /\ types \in Seq({"start", "sealed", "release"}) /\ types # <<>>
      /\ Len(types) = 3 /\ types[3] = "release"
  OBVIOUS
<1>2. Log(types, d, at)
  OBVIOUS
<1> HIDE DEF types
<1>3. LoggedBy(d) /\ Last'.type = types[Len(types)]
  BY <1>1, <1>2, EventsLogged
<1> QED BY <1>1, <1>3

\* Events of another drain, or of an abort, do not change whether an activation
\* is eligible.
LEMMA EligibleSame ==
    ASSUME NEW a,
           acts'[a].gated = acts[a].gated, acts'[a].drain = acts[a].drain,
           acts'[a].effective = acts[a].effective,
           \A e \in DOMAIN chain : e \in DOMAIN chain' /\ chain'[e] = chain[e],
           \A e \in DOMAIN chain' :
               \/ e \in DOMAIN chain
               \/ chain'[e].drain # acts[a].drain
               \/ chain'[e].type \notin {"start", "sealed", "release"}
    PROVE  Eligible(a)' = Eligible(a)
<1>1. Eligible(a) => Eligible(a)'
  BY DEF Eligible
<1>2. Eligible(a)' => Eligible(a)
  <2> SUFFICES ASSUME Eligible(a)', acts[a].gated, NEW t \in {"start", "sealed", "release"}
               PROVE  \E e \in DOMAIN chain : /\ chain[e].drain = acts[a].drain /\ chain[e].type = t
                                              /\ chain[e].at < acts[a].effective
    BY DEF Eligible
  <2>1. PICK e \in DOMAIN chain' : /\ chain'[e].drain = acts'[a].drain /\ chain'[e].type = t
                                   /\ chain'[e].at < acts'[a].effective
    BY DEF Eligible
  <2>2. e \in DOMAIN chain
    BY <2>1
  <2> QED BY <2>1, <2>2
<1>3. Eligible(a) \in BOOLEAN /\ Eligible(a)' \in BOOLEAN
  BY DEF Eligible
<1> QED BY <1>1, <1>2, <1>3

\* A new drain, with what it schedules for a time to come, leaves the past as it
\* was.  If it switches it is not released yet; if not, the newest switch remains.
LEMMA NewDrainFrame ==
    ASSUME IInv, NEW start \in Drain, start.target \in DOMAIN acts',
           start.fence = NoFence, drains' = Append(drains, start),
           acts' \in Seq(Activation), Len(acts) <= Len(acts'),
           \A a \in DOMAIN acts :
               /\ acts'[a].profile = acts[a].profile /\ acts'[a].effective = acts[a].effective
               /\ acts'[a].gated = acts[a].gated /\ acts'[a].drain = acts[a].drain
               /\ acts[a].effective <= clock => acts'[a].cancelled = acts[a].cancelled,
           \A a \in DOMAIN acts' : \/ a \in DOMAIN acts
                                   \/ clock < acts'[a].effective /\ acts'[a].drain = NewDrain,
           LoggedBy(NewDrain), UNCHANGED <<clock, usages, completing>>,
           start.cross => \A e \in DOMAIN chain' :
                              e \in DOMAIN chain \/ chain'[e].type # "release"
    PROVE  /\ DrainTypeOK' /\ ActsSound' /\ ChainInOrder' /\ RequestsInForce'
           /\ ReleasedSwitchIsDrained' /\ LedgerExplainsSends'
           /\ LastDrain' = start
<1>1. /\ DrainTypeOK /\ ActsSound /\ ChainInOrder /\ RequestsInForce
      /\ ReleasedSwitchIsDrained /\ LedgerExplainsSends
  BY DEF IInv
<1>2. /\ clock \in Nat
      /\ DOMAIN acts = 1..Len(acts) /\ Len(acts) \in Nat
      /\ DOMAIN drains = 1..Len(drains) /\ Len(drains) \in Nat
      /\ DOMAIN usages = 1..Len(usages) /\ Len(usages) \in Nat
      /\ chain \in Seq(Event) /\ drains \in Seq(Drain)
      /\ \A a \in DOMAIN acts : acts[a].effective \in Nat
      /\ \A u \in DOMAIN usages : usages[u].sentAt \in Nat
  BY <1>1, TypedRows DEF DrainTypeOK
<1>3. /\ DOMAIN acts' = 1..Len(acts') /\ Len(acts') \in Nat
      /\ \A a \in DOMAIN acts : a \in DOMAIN acts'
      /\ \A a \in DOMAIN acts' : acts'[a] \in Activation
  BY <1>2
<1>4. /\ drains' \in Seq(Drain) /\ DOMAIN drains' = 1..NewDrain /\ Len(drains') = NewDrain
      /\ drains'[NewDrain] = start
      /\ \A d \in DOMAIN drains : d \in DOMAIN drains' /\ drains'[d] = drains[d]
      /\ NewDrain \in Nat /\ NewDrain \notin DOMAIN drains
      /\ \A d \in DOMAIN drains : d < NewDrain
      /\ \A d \in DOMAIN drains' : d \in DOMAIN drains \/ d = NewDrain
  BY <1>2, AppendProperties DEF NewDrain
<1>5. /\ chain' \in Seq(Event) /\ Len(chain') > 0 /\ Last'.drain = NewDrain
      /\ \A e \in DOMAIN chain : e \in DOMAIN chain' /\ chain'[e] = chain[e]
  BY DEF LoggedBy
<1>6. \A e \in DOMAIN chain' :
          e \in DOMAIN chain \/ (/\ chain'[e].drain = NewDrain
                                 /\ chain'[e].type \in {"start", "sealed", "release"})
  BY DEF LoggedBy
<1>7. LastDrain' = start
  BY <1>4, <1>5 DEF LastDrain
<1>8. DrainTypeOK'
  BY <1>1, <1>4, <1>5 DEF DrainTypeOK
<1>9. ActsSound'
  <2>1. /\ 1 \in DOMAIN acts' /\ ~acts'[1].gated /\ ~acts'[1].cancelled /\ acts'[1].effective = 0
    BY <1>1, <1>2, <1>3 DEF ActsSound
  <2>2. ASSUME NEW a \in DOMAIN acts'
        PROVE  acts'[a].drain \in DOMAIN drains'
    <3>1. CASE a \in DOMAIN acts
      BY <1>1, <1>4, <3>1 DEF ActsSound
    <3>2. CASE acts'[a].drain = NewDrain
      BY <1>4, <3>2
    <3> QED BY <3>1, <3>2
  <2> QED BY <2>1, <2>2 DEF ActsSound
<1>10. ChainInOrder'
  <2>1. Len(chain') > 0 /\ Last'.drain = Len(drains')
    BY <1>4, <1>5
  <2>2. ASSUME NEW e \in DOMAIN chain'
        PROVE  /\ chain'[e].drain \in DOMAIN drains'
               /\ chain'[e].type \in {"restored", "closed"} => drains'[chain'[e].drain].fence # NoFence
    <3>1. CASE e \in DOMAIN chain
      <4>1. chain'[e] = chain[e]
        BY <1>5, <3>1
      <4>2. /\ chain[e].drain \in DOMAIN drains
            /\ chain[e].type \in {"restored", "closed"} => drains[chain[e].drain].fence # NoFence
        BY <1>1, <3>1 DEF ChainInOrder
      <4> QED BY <1>4, <4>1, <4>2
    <3>2. CASE e \notin DOMAIN chain
      BY <1>4, <1>6, <3>2
    <3> QED BY <3>1, <3>2
  <2>3. ASSUME NEW d \in DOMAIN drains'
        PROVE  /\ drains'[d].target \in DOMAIN acts'
               /\ drains'[d].fence # NoFence => drains'[d].cross
    <3>1. CASE d \in DOMAIN drains
      BY <1>1, <1>3, <1>4, <3>1 DEF ChainInOrder
    <3>2. CASE d = NewDrain
      BY <1>4, <3>2
    <3> QED BY <1>4, <3>1, <3>2
  <2> QED BY <2>1, <2>2, <2>3 DEF ChainInOrder
<1>11. \A a \in DOMAIN acts : Eligible(a)' = Eligible(a)
  <2> TAKE a \in DOMAIN acts
  <2>1. acts[a].drain # NewDrain
    BY <1>1, <1>4 DEF ActsSound
  <2>2. \A e \in DOMAIN chain' : e \in DOMAIN chain \/ chain'[e].drain # acts[a].drain
    BY <1>6, <2>1
  <2> QED BY <1>5, <2>1, <2>2, EligibleSame
<1>12. ASSUME NEW t \in Nat, t <= clock PROVE Ripe(t)' = Ripe(t)
  <2>1. InForce(t) = {a \in DOMAIN acts : acts[a].effective <= t /\ ~acts[a].cancelled}
    BY DEF InForce
  <2>2. InForce(t)' = {a \in DOMAIN acts' : acts'[a].effective <= t /\ ~acts'[a].cancelled}
    BY DEF InForce
  <2>3. ASSUME NEW a \in DOMAIN acts, acts[a].effective <= t
        PROVE  acts'[a].effective = acts[a].effective /\ acts'[a].cancelled = acts[a].cancelled
    <3>1. acts[a].effective <= clock
      BY <1>2, <1>12, <2>3
    <3> QED BY <3>1
  <2>4. ASSUME NEW a \in DOMAIN acts', acts'[a].effective <= t PROVE a \in DOMAIN acts
    <3>1. acts'[a].effective \in Nat
      BY <1>3 DEF Activation
    <3> QED BY <1>2, <1>12, <2>4, <3>1
  <2>5. InForce(t)' = InForce(t)
    BY <1>3, <2>1, <2>2, <2>3, <2>4
  <2> QED BY <1>11, <2>1, <2>5 DEF Ripe
<1>13. ASSUME NEW t \in Nat, t <= clock PROVE ActiveAt(t)' = ActiveAt(t)
  BY <1>1, <1>8, <1>9, <1>12, <1>13, ActiveKept
<1>14. RequestsInForce'
  BY <1>1, <1>3, <1>11 DEF RequestsInForce
<1>15. LedgerExplainsSends'
  <2>1. \A u \in DOMAIN usages : usages[u].sentAt \in Nat /\ usages[u].sentAt <= clock
    BY <1>1, <1>2 DEF RequestsInForce
  <2> QED BY <1>1, <1>13, <2>1 DEF LedgerExplainsSends
<1>16. ReleasedSwitchIsDrained'
  <2> SUFFICES ASSUME NEW d \in DOMAIN drains', NewestSwitch(d)', Released(d)',
                      drains'[d].fence = NoFence, NEW u \in OpenUsages
               PROVE  acts'[usages[u].activation].profile = acts'[drains'[d].target].profile
    BY DEF ReleasedSwitchIsDrained, OpenUsages
  <2>1. PICK e \in DOMAIN chain' : chain'[e].drain = d /\ chain'[e].type = "release"
    BY DEF Released
  <2>2. d # NewDrain
    <3> SUFFICES ASSUME d = NewDrain PROVE FALSE
      OBVIOUS
    <3>1. start.cross
      BY <1>4 DEF NewestSwitch
    <3>2. e \in DOMAIN chain /\ chain[e].drain = NewDrain
      BY <1>5, <2>1, <3>1
    <3> QED BY <1>1, <1>4, <3>2 DEF ChainInOrder
  <2>3. d \in DOMAIN drains /\ drains'[d] = drains[d]
    BY <1>4, <2>2
  <2>4. Released(d)
    <3>1. e \in DOMAIN chain /\ chain'[e] = chain[e]
      BY <1>5, <1>6, <2>1, <2>2
    <3> QED BY <2>1, <3>1 DEF Released
  <2>5. NewestSwitch(d)
    BY <1>4, <2>3 DEF NewestSwitch
  <2>6. acts[usages[u].activation].profile = acts[drains[d].target].profile
    BY <1>1, <2>3, <2>4, <2>5 DEF ReleasedSwitchIsDrained
  <2>7. usages[u].activation \in DOMAIN acts /\ drains[d].target \in DOMAIN acts
    BY <1>1, <2>3 DEF RequestsInForce, ChainInOrder, OpenUsages
  <2> QED BY <2>3, <2>6, <2>7
<1> QED BY <1>7, <1>8, <1>9, <1>10, <1>14, <1>15, <1>16

\* What Schedule does to the table.
LEMMA Entered ==
    ASSUME DrainTypeOK, NEW replaced, NEW new \in Activation, Schedule(replaced, new)
    PROVE  /\ acts' \in Seq(Activation) /\ Len(acts') = Len(acts) + 1
           /\ Len(acts) \in Nat /\ DOMAIN acts = 1..Len(acts)
           /\ DOMAIN acts' = 1..(Len(acts) + 1)
           /\ \A a \in DOMAIN acts :
                  /\ acts'[a].profile = acts[a].profile /\ acts'[a].effective = acts[a].effective
                  /\ acts'[a].gated = acts[a].gated /\ acts'[a].drain = acts[a].drain
                  /\ acts'[a].cancelled = (a \in replaced \/ acts[a].cancelled)
           /\ acts'[Len(acts) + 1] = new
<1> DEFINE old == [a \in DOMAIN acts |-> IF a \in replaced THEN [acts[a] EXCEPT !.cancelled = TRUE]
                                        ELSE acts[a]]
<1>1. /\ DOMAIN acts = 1..Len(acts) /\ Len(acts) \in Nat
      /\ \A a \in DOMAIN acts : acts[a] \in Activation
  BY TypedRows
<1>2. ASSUME NEW a \in DOMAIN acts
      PROVE  /\ old[a] \in Activation
             /\ old[a].profile = acts[a].profile /\ old[a].effective = acts[a].effective
             /\ old[a].gated = acts[a].gated /\ old[a].drain = acts[a].drain
             /\ old[a].cancelled = (a \in replaced \/ acts[a].cancelled)
  <2>1. acts[a] \in Activation
    BY <1>1
  <2>2. CASE a \in replaced
    BY <2>1, <2>2 DEF Activation
  <2>3. CASE a \notin replaced
    <3>1. old[a] = acts[a]
      BY <2>3
    <3>2. acts[a].cancelled \in BOOLEAN
      BY <2>1 DEF Activation
    <3>3. acts[a].cancelled = (a \in replaced \/ acts[a].cancelled)
      BY <2>3, <3>2
    <3> QED BY <2>1, <3>1, <3>3
  <2> QED BY <2>2, <2>3
<1>3. old \in [1..Len(acts) -> Activation]
  BY <1>1, <1>2
<1>4. old \in Seq(Activation) /\ Len(old) = Len(acts)
  BY <1>1, <1>3
<1>5. acts' = Append(old, new)
  BY DEF Schedule
<1> HIDE DEF old
<1>6. /\ acts' \in Seq(Activation) /\ Len(acts') = Len(acts) + 1
      /\ \A a \in 1..Len(acts) : acts'[a] = old[a]
      /\ acts'[Len(acts) + 1] = new
  BY <1>4, <1>5, AppendProperties
<1>7. DOMAIN acts' = 1..(Len(acts) + 1)
  BY <1>1, <1>6
<1> QED BY <1>1, <1>2, <1>6, <1>7

\* Midnight and the approved time are still to come.
LEMMA Ahead ==
    ASSUME clock \in Nat
    PROVE  /\ NextMidnight \in Nat /\ clock < NextMidnight
           /\ \A p : \A e \in Boundary(p) : e \in Nat /\ clock < e
<1>1. clock % Day \in 0..(Day - 1) /\ clock % Day <= clock
  BY DrainConstants
<1>2. NextMidnight \in Nat /\ clock < NextMidnight
  BY <1>1, DrainConstants DEF NextMidnight
<1>3. clock + Lead \in Nat /\ clock < clock + Lead
  BY DrainConstants
<1> QED BY <1>2, <1>3 DEF Boundary

\* Nothing that was in force before the boundary stands in its way.
LEMMA OccupiedAhead ==
    ASSUME DrainTypeOK, NEW effective \in Nat, clock < effective,
           NEW a \in DOMAIN acts, acts[a].effective <= clock
    PROVE  a \notin Occupied(effective) /\ acts[a].cancelled \in BOOLEAN
<1>1. acts[a] \in Activation /\ clock \in Nat
  BY TypedRows
<1> QED BY <1>1 DEF Occupied, Activation

\* What START freezes has its types.
LEMMA Frozen == IInv => OpenUsages \subseteq Nat /\ Active \in Nat /\ Len(usages) \in Nat
<1> SUFFICES ASSUME IInv PROVE OpenUsages \subseteq Nat /\ Active \in Nat /\ Len(usages) \in Nat
  OBVIOUS
<1>1. /\ DOMAIN usages \subseteq Nat /\ Len(usages) \in Nat /\ DOMAIN acts \subseteq Nat
      /\ clock \in Nat
  BY TypedRows DEF IInv
<1>2. Active \in DOMAIN acts
  BY <1>1, ActiveNow DEF IInv, Active
<1>3. OpenUsages \subseteq DOMAIN usages
  BY DEF OpenUsages
<1> QED BY <1>1, <1>2, <1>3

LEMMA BeginInductive ==
    ASSUME IInv, NEW p \in Profiles, Begin(p)
    PROVE  IInv'
<1>1. PICK effective \in Boundary(p) :
         \/ /\ Schedule(Occupied(effective),
                        [profile |-> p, effective |-> effective, gated |-> TRUE,
                         drain |-> NewDrain, cancelled |-> FALSE])
            /\ drains' = Append(drains, StartOf(Len(acts) + 1, TRUE))
         \/ \E a \in Occupied(effective) :
            drains' = Append(drains, StartOf(a, TRUE)) /\ UNCHANGED acts
  BY DEF Begin
<1> DEFINE new == [profile |-> p, effective |-> effective, gated |-> TRUE,
                   drain |-> NewDrain, cancelled |-> FALSE]
<1>2. Log(<<"start">>, NewDrain, clock) /\ UNCHANGED <<clock, usages, completing>>
  BY DEF Begin
<1>3. /\ DrainTypeOK /\ ActsSound /\ ChainInOrder /\ RequestsInForce
      /\ clock \in Nat /\ effective \in Nat /\ clock < effective
  <2>1. DrainTypeOK /\ clock \in Nat
    BY TypedRows DEF IInv
  <2> QED BY <2>1, Ahead DEF IInv
<1>4. /\ DOMAIN acts = 1..Len(acts) /\ Len(acts) \in Nat /\ acts \in Seq(Activation)
      /\ DOMAIN drains = 1..Len(drains) /\ Len(drains) \in Nat
      /\ NewDrain \in Nat /\ NewDrain \notin DOMAIN drains
      /\ \A u \in DOMAIN usages : usages[u].sentAt \in Nat /\ usages[u].sentAt <= clock
  BY <1>3, TypedRows DEF NewDrain, DrainTypeOK, RequestsInForce
<1>5. /\ LoggedBy(NewDrain) /\ Last'.type = "start" /\ Last'.drain = NewDrain
      /\ \A e \in DOMAIN chain' : e \in DOMAIN chain \/ chain'[e].type # "release"
  <2>1. /\ LoggedBy(NewDrain) /\ Last'.type = "start"
        /\ \A e \in DOMAIN chain' : e \in DOMAIN chain \/ chain'[e].type = "start"
    BY <1>2, <1>3, <1>4, StartLogged DEF DrainTypeOK
  <2> QED BY <2>1 DEF LoggedBy
<1>6. \A a \in DOMAIN acts : acts[a].drain # NewDrain
  BY <1>3, <1>4 DEF ActsSound
<1>7. ASSUME NEW t \in DOMAIN acts', NEW start, start = StartOf(t, TRUE),
             drains' = Append(drains, start), acts' \in Seq(Activation), Len(acts) <= Len(acts'),
             \A a \in DOMAIN acts :
                 /\ acts'[a].profile = acts[a].profile /\ acts'[a].effective = acts[a].effective
                 /\ acts'[a].gated = acts[a].gated /\ acts'[a].drain = acts[a].drain
                 /\ acts[a].effective <= clock => acts'[a].cancelled = acts[a].cancelled,
             \A a \in DOMAIN acts' : \/ a \in DOMAIN acts
                                     \/ /\ a = t /\ clock < acts'[a].effective
                                        /\ acts'[a].drain = NewDrain,
             acts'[t].effective = effective
      PROVE  IInv'
  <2>1. t \in Nat
    BY <1>7
  <2>2. /\ start \in Drain /\ start.target = t /\ start.fence = NoFence
    BY <1>7, <2>1, Frozen DEF StartOf, Drain
  <2>3. /\ DrainTypeOK' /\ ActsSound' /\ ChainInOrder' /\ RequestsInForce'
        /\ ReleasedSwitchIsDrained' /\ LedgerExplainsSends'
        /\ LastDrain' = start
    BY <1>2, <1>5, <1>7, <2>2, NewDrainFrame
  <2>4. Draining'
    <3>1. \A a \in DOMAIN acts' : acts'[a].drain = NewDrain => a = t
      BY <1>6, <1>7
    <3>2. \A u \in DOMAIN usages : usages[u].sentAt < acts'[t].effective
      BY <1>3, <1>4, <1>7
    <3> QED BY <1>2, <1>5, <2>2, <2>3, <3>1, <3>2 DEF Draining
  <2> QED BY <2>3, <2>4 DEF IInv
<1>8. CASE Schedule(Occupied(effective), new) /\ drains' = Append(drains, StartOf(Len(acts) + 1, TRUE))
  <2>1. PICK n, start : n = Len(acts) + 1 /\ start = StartOf(n, TRUE)
    OBVIOUS
  <2>2. new \in Activation
    BY <1>3, <1>4 DEF Activation
  <2>3. /\ acts' \in Seq(Activation) /\ Len(acts') = n
        /\ DOMAIN acts' = 1..n
        /\ \A a \in DOMAIN acts :
               /\ acts'[a].profile = acts[a].profile /\ acts'[a].effective = acts[a].effective
               /\ acts'[a].gated = acts[a].gated /\ acts'[a].drain = acts[a].drain
               /\ acts'[a].cancelled = (a \in Occupied(effective) \/ acts[a].cancelled)
        /\ acts'[n] = new
    BY <1>3, <1>8, <2>1, <2>2, Entered
  <2>4. \A a \in DOMAIN acts : acts[a].effective <= clock => acts'[a].cancelled = acts[a].cancelled
    BY <1>3, <2>3, OccupiedAhead
  <2>5. /\ n \in DOMAIN acts' /\ Len(acts) <= Len(acts')
        /\ \A a \in DOMAIN acts' : a \in DOMAIN acts \/ a = n
    BY <1>4, <2>1, <2>3
  <2>6. acts'[n].effective = effective /\ acts'[n].drain = NewDrain
    BY <2>3
  <2> QED BY <1>3, <1>7, <1>8, <2>1, <2>3, <2>4, <2>5, <2>6
<1>9. ASSUME NEW a \in Occupied(effective), drains' = Append(drains, StartOf(a, TRUE)),
             UNCHANGED acts
      PROVE  IInv'
  <2>1. PICK start : start = StartOf(a, TRUE)
    OBVIOUS
  <2>2. a \in DOMAIN acts' /\ acts'[a].effective = effective
    BY <1>9 DEF Occupied
  <2>3. /\ acts' \in Seq(Activation) /\ Len(acts) <= Len(acts')
        /\ \A b \in DOMAIN acts :
               /\ acts'[b].profile = acts[b].profile /\ acts'[b].effective = acts[b].effective
               /\ acts'[b].gated = acts[b].gated /\ acts'[b].drain = acts[b].drain
               /\ acts'[b].cancelled = acts[b].cancelled
        /\ \A b \in DOMAIN acts' : b \in DOMAIN acts
    BY <1>4, <1>9
  <2>4. drains' = Append(drains, start)
    BY <1>9, <2>1
  <2> QED BY <1>7, <2>1, <2>2, <2>3, <2>4
<1> QED BY <1>1, <1>8, <1>9

LEMMA SameProfileInductive == IInv /\ ScheduleSameProfile => IInv'
<1> SUFFICES ASSUME IInv, ScheduleSameProfile PROVE IInv'
  OBVIOUS
<1> DEFINE new == [profile |-> acts[Active].profile, effective |-> NextMidnight, gated |-> FALSE,
                   drain |-> NewDrain, cancelled |-> FALSE]
<1>1. /\ DrainTypeOK /\ ActsSound /\ ChainInOrder
      /\ clock \in Nat /\ NextMidnight \in Nat /\ clock < NextMidnight
      /\ Active \in DOMAIN acts
  <2>1. DrainTypeOK /\ clock \in Nat
    BY TypedRows DEF IInv
  <2> QED BY <2>1, Ahead, ActiveNow DEF IInv, Active
<1>2. PICK n, start : n = Len(acts) + 1 /\ start = StartOf(n, FALSE)
  OBVIOUS
<1>3. /\ Schedule(Occupied(NextMidnight), new)
      /\ drains' = Append(drains, start)
      /\ Log(<<"start", "sealed", "release">>, NewDrain, clock)
      /\ UNCHANGED <<clock, usages, completing>>
  BY <1>2 DEF ScheduleSameProfile
<1>4. /\ DOMAIN acts = 1..Len(acts) /\ Len(acts) \in Nat
      /\ Len(drains) \in Nat /\ NewDrain \in Nat
      /\ acts[Active].profile \in Profiles
  BY <1>1, TypedRows DEF NewDrain, Activation
<1>5. new \in Activation
  BY <1>1, <1>4 DEF Activation
<1>6. /\ acts' \in Seq(Activation) /\ Len(acts') = n
      /\ DOMAIN acts' = 1..n
      /\ \A a \in DOMAIN acts :
             /\ acts'[a].profile = acts[a].profile /\ acts'[a].effective = acts[a].effective
             /\ acts'[a].gated = acts[a].gated /\ acts'[a].drain = acts[a].drain
             /\ acts'[a].cancelled = (a \in Occupied(NextMidnight) \/ acts[a].cancelled)
      /\ acts'[n] = new
  BY <1>1, <1>2, <1>3, <1>5, Entered
<1>7. \A a \in DOMAIN acts : acts[a].effective <= clock => acts'[a].cancelled = acts[a].cancelled
  BY <1>1, <1>6, OccupiedAhead
<1>8. n \in DOMAIN acts' /\ Len(acts) <= Len(acts') /\ n \in Nat
  BY <1>2, <1>4, <1>6
<1>9. \A a \in DOMAIN acts' : \/ a \in DOMAIN acts
                              \/ clock < acts'[a].effective /\ acts'[a].drain = NewDrain
  BY <1>1, <1>2, <1>4, <1>6
<1>10. LoggedBy(NewDrain) /\ Last'.type = "release"
  BY <1>1, <1>3, <1>4, PermitLogged DEF DrainTypeOK
<1>11. start \in Drain /\ start.target = n /\ start.fence = NoFence /\ ~start.cross
  BY <1>2, <1>8, Frozen DEF StartOf, Drain
<1>12. /\ DrainTypeOK' /\ ActsSound' /\ ChainInOrder' /\ RequestsInForce'
       /\ ReleasedSwitchIsDrained' /\ LedgerExplainsSends'
  <2> HIDE DEF new
  <2> QED BY <1>3, <1>6, <1>7, <1>8, <1>9, <1>10, <1>11, NewDrainFrame
<1>13. Draining'
  BY <1>10 DEF Draining
<1> QED BY <1>12, <1>13 DEF IInv

-----------------------------------------------------------------------------
(* Completing, aborting, time. *)

LEMMA CompletingInductive ==
    ASSUME IInv, completing' \in [drain : Nat, at : Nat],
           UNCHANGED <<clock, acts, drains, chain, usages>>
    PROVE  IInv'
<1>1. DrainTypeOK' /\ ActsSound'
  BY DEF IInv, DrainTypeOK, ActsSound
<1>2. ChainInOrder'
  BY DEF IInv, ChainInOrder, Last
<1>3. \A a : Eligible(a)' = Eligible(a)
  BY DEF Eligible
<1>4. \A t : ActiveAt(t)' = ActiveAt(t)
  BY DEF ActiveAt, Latest, InForce, Eligible
<1>5. OpenUsages' = OpenUsages /\ Last' = Last /\ LastDrain' = LastDrain
  BY DEF OpenUsages, Last, LastDrain
<1>6. RequestsInForce'
  BY <1>3 DEF IInv, RequestsInForce
<1>7. Draining'
  BY <1>5 DEF IInv, Draining, Sent
<1>8. ReleasedSwitchIsDrained'
  BY <1>5 DEF IInv, ReleasedSwitchIsDrained, NewestSwitch, Released
<1>9. LedgerExplainsSends'
  BY <1>4 DEF IInv, LedgerExplainsSends
<1> QED BY <1>1, <1>2, <1>6, <1>7, <1>8, <1>9 DEF IInv

LEMMA StartCompleteInductive == IInv /\ StartComplete => IInv'
<1> SUFFICES ASSUME IInv, StartComplete PROVE IInv'
  OBVIOUS
<1>1. Last.drain \in Nat /\ clock \in Nat
  BY TypedRows, LastDrainExists DEF IInv
<1>2. completing' \in [drain : Nat, at : Nat]
  BY <1>1 DEF StartComplete
<1> QED BY <1>2, CompletingInductive DEF StartComplete

LEMMA GiveUpInductive == IInv /\ GiveUpComplete => IInv'
<1> SUFFICES ASSUME IInv, GiveUpComplete PROVE IInv'
  OBVIOUS
<1>1. completing' \in [drain : Nat, at : Nat]
  BY DEF GiveUpComplete, Idle, NoDrain
<1> QED BY <1>1, CompletingInductive DEF GiveUpComplete

LEMMA FinishInductive == IInv /\ FinishComplete => IInv'
<1> SUFFICES ASSUME IInv, FinishComplete PROVE IInv'
  OBVIOUS
<1> DEFINE d == completing.drain
<1>1. /\ DrainTypeOK /\ ActsSound /\ ChainInOrder /\ RequestsInForce
      /\ Draining /\ LedgerExplainsSends
  BY DEF IInv
<1>2. /\ OpenUsages = {} /\ Last.type = "start" /\ Last.drain = d
      /\ Log(<<"sealed", "release">>, d, completing.at)
      /\ completing' = Idle /\ UNCHANGED <<clock, acts, drains, usages>>
  BY DEF FinishComplete
<1>3. /\ clock \in Nat /\ DOMAIN acts = 1..Len(acts) /\ d \in DOMAIN drains
      /\ \A a \in DOMAIN acts : acts[a].effective \in Nat
      /\ \A u \in DOMAIN usages : usages[u].sentAt \in Nat
      /\ DOMAIN drains = 1..Len(drains) /\ Len(drains) \in Nat
  <2>1. Last.drain \in DOMAIN drains
    BY <1>1, LastDrainExists
  <2> QED BY <1>1, <1>2, <2>1, TypedRows
<1>4. LoggedBy(d) /\ Last'.type = "release" /\ Last'.drain = d
  BY <1>1, <1>2, SealLogged DEF DrainTypeOK, LoggedBy
<1>5. OpenUsages' = {}
  BY <1>2 DEF OpenUsages
<1>6. PICK t : t = LastDrain.target
  OBVIOUS
<1>7. t \in DOMAIN acts
  BY <1>1, <1>2, <1>3, <1>6 DEF ChainInOrder, LastDrain
<1>8. \A a \in DOMAIN acts : a # t => Eligible(a)' = Eligible(a)
  <2> SUFFICES ASSUME NEW a \in DOMAIN acts, a # t PROVE Eligible(a)' = Eligible(a)
    OBVIOUS
  <2>1. acts[a].drain # d
    BY <1>1, <1>2, <1>6 DEF Draining
  <2>2. /\ \A e \in DOMAIN chain : e \in DOMAIN chain' /\ chain'[e] = chain[e]
        /\ \A e \in DOMAIN chain' : e \in DOMAIN chain \/ chain'[e].drain # acts[a].drain
    BY <1>4, <2>1 DEF LoggedBy
  <2> QED BY <1>2, <2>2, EligibleSame
<1>9. \A a \in DOMAIN acts : Eligible(a) => Eligible(a)'
  <2>1. \A e \in DOMAIN chain : e \in DOMAIN chain' /\ chain'[e] = chain[e]
    BY <1>4 DEF LoggedBy
  <2> QED BY <1>2, <2>1 DEF Eligible
<1>10. DrainTypeOK'
  BY <1>1, <1>2, <1>4 DEF DrainTypeOK, LoggedBy, Idle, NoDrain
<1>11. ActsSound'
  BY <1>1, <1>2 DEF ActsSound
<1>12. ChainInOrder'
  <2>1. Len(chain') > 0 /\ Last'.drain = Len(drains')
    BY <1>1, <1>2, <1>4 DEF ChainInOrder, LoggedBy
  <2>2. \A e \in DOMAIN chain' :
            /\ chain'[e].drain \in DOMAIN drains
            /\ chain'[e].type \in {"restored", "closed"} => drains[chain'[e].drain].fence # NoFence
    BY <1>1, <1>3, <1>4 DEF ChainInOrder, LoggedBy
  <2> QED BY <1>1, <1>2, <2>1, <2>2 DEF ChainInOrder
<1>13. RequestsInForce'
  BY <1>1, <1>2, <1>9 DEF RequestsInForce
<1>14. Draining'
  BY <1>4 DEF Draining
<1>15. ReleasedSwitchIsDrained'
  BY <1>5 DEF ReleasedSwitchIsDrained
<1>16. ASSUME NEW x \in Nat, x < acts[t].effective PROVE ActiveAt(x)' = ActiveAt(x)
  <2>1. InForce(x)' = InForce(x) /\ InForce(x) \subseteq DOMAIN acts
    BY <1>2 DEF InForce
  <2>2. t \notin InForce(x)
    BY <1>3, <1>7, <1>16 DEF InForce
  <2>3. Ripe(x)' = Ripe(x)
    BY <1>8, <2>1, <2>2 DEF Ripe
  <2> QED BY <1>1, <1>2, <1>10, <1>11, <2>3, ActiveKept
<1>17. LedgerExplainsSends'
  <2> SUFFICES ASSUME NEW u \in DOMAIN usages, usages[u].state \notin Unsent
               PROVE  ActiveAt(usages[u].sentAt)' = usages[u].activation
    BY <1>2 DEF LedgerExplainsSends
  <2>1. usages[u].sentAt < acts[t].effective /\ usages[u].sentAt \in Nat
    BY <1>1, <1>2, <1>3, <1>6 DEF Draining, Sent
  <2>2. ActiveAt(usages[u].sentAt) = usages[u].activation
    BY <1>1 DEF LedgerExplainsSends
  <2>3. PICK x \in Nat : x = usages[u].sentAt
    BY <2>1
  <2>4. ActiveAt(x)' = ActiveAt(x)
    BY <1>16, <2>1, <2>3
  <2>5. usages'[u].sentAt = x
    BY <1>2, <2>3
  <2> QED BY <1>2, <2>2, <2>3, <2>4, <2>5
<1> QED BY <1>10, <1>11, <1>12, <1>13, <1>14, <1>15, <1>17 DEF IInv

LEMMA AbortBeginInductive == IInv /\ AbortBegin => IInv'
<1> SUFFICES ASSUME IInv, AbortBegin PROVE IInv'
  OBVIOUS
<1>1. /\ DrainTypeOK /\ ActsSound /\ ChainInOrder /\ RequestsInForce
      /\ Draining /\ LedgerExplainsSends
  BY DEF IInv
<1>2. PICK d, t : d = Last.drain /\ t = drains[d].target
  OBVIOUS
<1>3. /\ acts' = [acts EXCEPT ![t].cancelled = TRUE]
      /\ drains' = [drains EXCEPT ![d].fence = Sends]
      /\ UNCHANGED <<clock, chain, usages, completing>>
      /\ clock < acts[t].effective \/ ~Eligible(t)
      /\ drains[d].cross
  BY <1>2 DEF AbortBegin, NeverCurrent
<1>4. /\ clock \in Nat /\ DOMAIN acts = 1..Len(acts) /\ d \in DOMAIN drains
      /\ \A a \in DOMAIN acts : acts[a].effective \in Nat /\ acts[a] \in Activation
      /\ \A u \in DOMAIN usages : usages[u].sentAt \in Nat
      /\ \A c \in DOMAIN drains : drains[c] \in Drain
      /\ acts \in Seq(Activation) /\ drains \in Seq(Drain)
      /\ DOMAIN drains = 1..Len(drains)
  <2>1. Last.drain \in DOMAIN drains
    BY <1>1, LastDrainExists
  <2> QED BY <1>1, <1>2, <2>1, TypedRows DEF DrainTypeOK
<1>5. t \in DOMAIN acts
  BY <1>1, <1>2, <1>4 DEF ChainInOrder
<1>6. Sends \in Nat
  <2>1. {u \in DOMAIN usages : usages[u].state \notin Unsent} \subseteq 1..Len(usages)
        /\ Len(usages) \in Nat
    BY <1>1, TypedRows
  <2>2. IsFiniteSet(1..Len(usages))
    BY <2>1, FS_Interval
  <2>3. IsFiniteSet({u \in DOMAIN usages : usages[u].state \notin Unsent})
    BY <2>1, <2>2, FS_Subset
  <2> QED BY <2>3, FS_CardinalityType DEF Sends
<1>7. /\ acts' \in Seq(Activation) /\ DOMAIN acts' = DOMAIN acts
      /\ \A a \in DOMAIN acts :
             /\ acts'[a].profile = acts[a].profile /\ acts'[a].effective = acts[a].effective
             /\ acts'[a].gated = acts[a].gated /\ acts'[a].drain = acts[a].drain
             /\ a # t => acts'[a].cancelled = acts[a].cancelled
      /\ acts'[t].cancelled
  <2> DEFINE row == [acts[t] EXCEPT !.cancelled = TRUE]
  <2>1. /\ row \in Activation /\ row.cancelled
        /\ row.profile = acts[t].profile /\ row.effective = acts[t].effective
        /\ row.gated = acts[t].gated /\ row.drain = acts[t].drain
    BY <1>4, <1>5 DEF Activation
  <2>2. acts' = [acts EXCEPT ![t] = row]
    BY <1>3
  <2> HIDE DEF row
  <2>3. /\ acts' \in Seq(Activation) /\ DOMAIN acts' = DOMAIN acts /\ acts'[t] = row
        /\ \A a \in DOMAIN acts : a # t => acts'[a] = acts[a]
    BY <1>4, <1>5, <2>1, <2>2, ExceptSeq
  <2> QED BY <1>5, <2>1, <2>3
<1>8. /\ drains' \in Seq(Drain) /\ DOMAIN drains' = DOMAIN drains /\ Len(drains') = Len(drains)
      /\ \A c \in DOMAIN drains :
             /\ drains'[c].cross = drains[c].cross /\ drains'[c].target = drains[c].target
             /\ c # d => drains'[c].fence = drains[c].fence
             /\ drains[c].fence # NoFence => drains'[c].fence # NoFence
      /\ drains'[d].fence # NoFence
  <2> DEFINE row == [drains[d] EXCEPT !.fence = Sends]
  <2>1. /\ row \in Drain /\ row.fence = Sends
        /\ row.cross = drains[d].cross /\ row.target = drains[d].target
    BY <1>4, <1>6 DEF Drain
  <2>2. Sends # NoFence
    BY <1>6 DEF NoFence
  <2>3. drains' = [drains EXCEPT ![d] = row]
    BY <1>3
  <2> HIDE DEF row
  <2>4. /\ drains' \in Seq(Drain) /\ DOMAIN drains' = DOMAIN drains /\ drains'[d] = row
        /\ Len(drains') = Len(drains)
        /\ \A c \in DOMAIN drains : c # d => drains'[c] = drains[c]
    BY <1>4, <2>1, <2>3, ExceptSeq
  <2> QED BY <1>4, <2>1, <2>2, <2>4
<1>9. Last' = Last
  BY <1>3 DEF Last
<1>10. LastDrain'.target = t
  BY <1>2, <1>4, <1>8, <1>9 DEF LastDrain
<1>11. \A a \in DOMAIN acts : Eligible(a)' = Eligible(a)
  BY <1>3, <1>7 DEF Eligible
<1>12. DrainTypeOK'
  BY <1>1, <1>3, <1>7, <1>8 DEF DrainTypeOK
<1>13. ActsSound'
  <2>1. t # 1
    BY <1>1, <1>3, <1>4 DEF ActsSound, Eligible
  <2> QED BY <1>1, <1>7, <1>8, <2>1 DEF ActsSound
<1>14. ChainInOrder'
  <2>1. Len(chain') > 0 /\ Last'.drain = Len(drains')
    BY <1>1, <1>3, <1>8, <1>9 DEF ChainInOrder
  <2>2. \A e \in DOMAIN chain :
            /\ chain[e].drain \in DOMAIN drains
            /\ chain[e].type \in {"restored", "closed"} => drains'[chain[e].drain].fence # NoFence
    BY <1>1, <1>8 DEF ChainInOrder
  <2>3. ASSUME NEW c \in DOMAIN drains
        PROVE  /\ drains'[c].target \in DOMAIN acts
               /\ drains'[c].fence # NoFence => drains'[c].cross
    <3>1. CASE c = d
      BY <1>1, <1>3, <1>8, <3>1 DEF ChainInOrder
    <3>2. CASE c # d
      BY <1>1, <1>8, <3>2 DEF ChainInOrder
    <3> QED BY <3>1, <3>2
  <2> QED BY <1>3, <1>7, <1>8, <2>1, <2>2, <2>3 DEF ChainInOrder
<1>15. RequestsInForce'
  BY <1>1, <1>3, <1>7, <1>11 DEF RequestsInForce
<1>16. Draining'
  <2> SUFFICES ASSUME Last.type = "start"
               PROVE  /\ \A a \in DOMAIN acts : acts[a].drain = Last.drain => a = t
                      /\ \A u \in DOMAIN usages : Sent(u) => usages[u].sentAt < acts[t].effective
    BY <1>3, <1>5, <1>7, <1>9, <1>10 DEF Draining, Sent
  <2>1. LastDrain.target = t
    BY <1>2 DEF LastDrain
  <2> QED BY <1>1, <2>1 DEF Draining
<1>17. ASSUME NEW x \in Nat, x <= clock PROVE ActiveAt(x)' = ActiveAt(x)
  <2>1. \A a \in DOMAIN acts : a \in Ripe(x)' <=> a \in Ripe(x)
    <3> TAKE a \in DOMAIN acts
    <3>1. CASE a # t
      BY <1>7, <1>11, <3>1 DEF Ripe, InForce
    <3>2. CASE a = t
      <4>1. t \notin Ripe(x)
        BY <1>3, <1>4, <1>5, <1>17 DEF Ripe, InForce
      <4>2. t \notin Ripe(x)'
        BY <1>7 DEF Ripe, InForce
      <4> QED BY <3>2, <4>1, <4>2
    <3> QED BY <3>1, <3>2
  <2>2. Ripe(x) \subseteq DOMAIN acts /\ Ripe(x)' \subseteq DOMAIN acts
    BY <1>7 DEF Ripe, InForce
  <2>3. Ripe(x)' = Ripe(x)
    BY <2>1, <2>2
  <2> QED BY <1>1, <1>7, <1>12, <1>13, <2>3, ActiveKept
<1>18. ReleasedSwitchIsDrained'
  <2> SUFFICES ASSUME NEW c \in DOMAIN drains, NewestSwitch(c)', drains'[c].fence = NoFence
               PROVE  FALSE
    BY <1>8 DEF ReleasedSwitchIsDrained
  <2>1. d = Len(drains) /\ c \in Nat /\ d \in Nat /\ c <= d
    BY <1>1, <1>2, <1>4 DEF ChainInOrder
  <2>2. d <= c
    BY <1>3, <1>4, <1>8 DEF NewestSwitch
  <2> QED BY <1>8, <2>1, <2>2
<1>19. LedgerExplainsSends'
  <2> SUFFICES ASSUME NEW u \in DOMAIN usages, usages[u].state \notin Unsent
               PROVE  ActiveAt(usages[u].sentAt)' = usages[u].activation
    BY <1>3 DEF LedgerExplainsSends
  <2>1. PICK x \in Nat : x = usages[u].sentAt
    BY <1>4
  <2>2. x <= clock /\ ActiveAt(x) = usages[u].activation
    BY <1>1, <2>1 DEF RequestsInForce, LedgerExplainsSends
  <2>3. usages'[u].sentAt = x
    BY <1>3, <2>1
  <2> QED BY <1>3, <1>17, <2>1, <2>2, <2>3
<1> QED BY <1>12, <1>13, <1>14, <1>15, <1>16, <1>18, <1>19 DEF IInv

LEMMA AbortCompleteInductive ==
    ASSUME IInv, NEW result \in {"restored", "closed"}, AbortComplete(result)
    PROVE  IInv'
<1>1. /\ DrainTypeOK /\ ActsSound /\ ChainInOrder /\ RequestsInForce /\ LedgerExplainsSends
  BY DEF IInv
<1>2. PICK d : d = Last.drain
  OBVIOUS
<1>3. /\ drains[d].fence # NoFence /\ OpenUsages = {} /\ Log(<<result>>, d, clock)
      /\ UNCHANGED <<clock, acts, drains, usages, completing>>
  BY <1>2 DEF AbortComplete
<1>4. clock \in Nat /\ d \in DOMAIN drains /\ DOMAIN drains = 1..Len(drains) /\ chain \in Seq(Event)
  <2>1. Last.drain \in DOMAIN drains
    BY <1>1, LastDrainExists
  <2> QED BY <1>1, <1>2, <2>1, TypedRows DEF DrainTypeOK
<1>5. /\ chain' \in Seq(Event) /\ Len(chain') > 0
      /\ \A e \in DOMAIN chain : e \in DOMAIN chain' /\ chain'[e] = chain[e]
      /\ \A e \in DOMAIN chain' : e \in DOMAIN chain \/ (chain'[e].type = result /\ chain'[e].drain = d)
      /\ Last'.type = result /\ Last'.drain = d
  <2> DEFINE types == <<result>>
  <2>1. /\ types \in Seq(EventType) /\ types # <<>> /\ Len(types) = 1 /\ types[1] = result
        /\ \A i \in DOMAIN types : types[i] = result
    BY DEF EventType
  <2>2. Log(types, d, clock) /\ d \in Nat
    BY <1>3, <1>4
  <2> HIDE DEF types
  <2>3. /\ chain' \in Seq(Event) /\ Len(chain') > 0
        /\ Last'.drain = d /\ Last'.type = types[Len(types)]
        /\ \A e \in DOMAIN chain : e \in DOMAIN chain' /\ chain'[e] = chain[e]
        /\ \A e \in DOMAIN chain' :
               e \in DOMAIN chain
               \/ \E i \in DOMAIN types : /\ chain'[e].type = types[i]
                                         /\ chain'[e].drain = d /\ chain'[e].at = clock
    BY <1>4, <2>1, <2>2, EntriesLogged
  <2> QED BY <2>1, <2>3
<1>6. \A a : Eligible(a)' = Eligible(a)
  <2> TAKE a
  <2>1. \A e \in DOMAIN chain' :
            e \in DOMAIN chain \/ chain'[e].type \notin {"start", "sealed", "release"}
    BY <1>5
  <2> QED BY <1>3, <1>5, <2>1, EligibleSame
<1>7. DrainTypeOK'
  BY <1>1, <1>3, <1>5 DEF DrainTypeOK
<1>8. ActsSound'
  BY <1>1, <1>3 DEF ActsSound
<1>9. ChainInOrder'
  <2>1. Last'.drain = Len(drains')
    BY <1>1, <1>2, <1>3, <1>5 DEF ChainInOrder
  <2>2. \A e \in DOMAIN chain' :
            /\ chain'[e].drain \in DOMAIN drains
            /\ chain'[e].type \in {"restored", "closed"} => drains[chain'[e].drain].fence # NoFence
    BY <1>1, <1>3, <1>4, <1>5 DEF ChainInOrder
  <2> QED BY <1>1, <1>3, <1>5, <2>1, <2>2 DEF ChainInOrder
<1>10. \A x : ActiveAt(x)' = ActiveAt(x)
  <2> TAKE x
  <2>1. InForce(x)' = InForce(x)
    BY <1>3 DEF InForce
  <2>2. Ripe(x)' = Ripe(x)
    BY <1>6, <2>1 DEF Ripe
  <2> QED BY <1>3, <2>2 DEF ActiveAt, Ripe, Latest
<1>11. RequestsInForce'
  BY <1>1, <1>3, <1>6 DEF RequestsInForce
<1>12. Draining'
  BY <1>5 DEF Draining
<1>13. ReleasedSwitchIsDrained'
  BY <1>3 DEF ReleasedSwitchIsDrained, OpenUsages
<1>14. LedgerExplainsSends'
  BY <1>1, <1>3, <1>10 DEF LedgerExplainsSends
<1> QED BY <1>7, <1>8, <1>9, <1>11, <1>12, <1>13, <1>14 DEF IInv

\* Time passes, and what takes effect then was in the ledger before.
LEMMA TickInductive == IInv /\ Tick => IInv'
<1> SUFFICES ASSUME IInv, Tick PROVE IInv'
  OBVIOUS
<1>1. /\ DrainTypeOK /\ ActsSound /\ ChainInOrder /\ RequestsInForce
      /\ Draining /\ ReleasedSwitchIsDrained /\ LedgerExplainsSends
  BY DEF IInv
<1>2. /\ clock < MaxClock /\ clock' = clock + 1
      /\ UNCHANGED <<acts, drains, chain, usages, completing>>
  BY DEF Tick
<1>3. /\ clock \in Nat /\ MaxClock \in Nat
      /\ \A a \in DOMAIN acts : acts[a].effective \in Nat
      /\ \A u \in DOMAIN usages : usages[u].sentAt \in Nat
  BY <1>1, TypedRows, DrainConstants
<1>4. DrainTypeOK'
  BY <1>1, <1>2, <1>3 DEF DrainTypeOK
<1>5. ActsSound'
  BY <1>1, <1>2 DEF ActsSound
<1>6. Last' = Last /\ LastDrain' = LastDrain /\ OpenUsages' = OpenUsages
  BY <1>2 DEF Last, LastDrain, OpenUsages
<1>7. ChainInOrder'
  BY <1>1, <1>2, <1>6 DEF ChainInOrder
<1>8. \A a : Eligible(a)' = Eligible(a)
  BY <1>2 DEF Eligible
<1>9. \A x : ActiveAt(x)' = ActiveAt(x)
  BY <1>2 DEF ActiveAt, Latest, InForce, Eligible
<1>10. RequestsInForce'
  <2>1. ASSUME NEW u \in DOMAIN usages
        PROVE  usages[u].sentAt <= clock + 1 /\ acts[usages[u].activation].effective <= clock + 1
    BY <1>1, <1>3 DEF RequestsInForce
  <2> QED BY <1>1, <1>2, <1>8, <2>1 DEF RequestsInForce
<1>11. Draining'
  BY <1>1, <1>2, <1>6 DEF Draining, Sent
<1>12. ReleasedSwitchIsDrained'
  BY <1>1, <1>2, <1>6 DEF ReleasedSwitchIsDrained, NewestSwitch, Released
<1>13. LedgerExplainsSends'
  BY <1>1, <1>2, <1>9 DEF LedgerExplainsSends
<1> QED BY <1>4, <1>5, <1>7, <1>10, <1>11, <1>12, <1>13 DEF IInv

-----------------------------------------------------------------------------
LEMMA NextInductive == IInv /\ [Next]_drainVars => IInv'
<1> SUFFICES ASSUME IInv, [Next]_drainVars PROVE IInv'
  OBVIOUS
<1>1. CASE UNCHANGED drainVars
  <2>1. /\ UNCHANGED <<clock, acts, drains, chain, usages>>
        /\ completing' \in [drain : Nat, at : Nat]
    BY <1>1 DEF drainVars, IInv, DrainTypeOK
  <2> QED BY <2>1, CompletingInductive
<1>2. CASE Reserve
  BY <1>2, ReserveInductive
<1>3. ASSUME NEW u \in DOMAIN usages, Send(u) PROVE IInv'
  BY <1>3, SendInductive
<1>4. ASSUME NEW u \in DOMAIN usages, NotSent(u) \/ Answer(u) \/ Settle(u) PROVE IInv'
  BY <1>4, EndInductive
<1>5. ASSUME NEW p \in Profiles, Begin(p) PROVE IInv'
  BY <1>5, BeginInductive
<1>6. CASE ScheduleSameProfile
  BY <1>6, SameProfileInductive
<1>7. CASE StartComplete
  BY <1>7, StartCompleteInductive
<1>8. CASE FinishComplete
  BY <1>8, FinishInductive
<1>9. CASE GiveUpComplete
  BY <1>9, GiveUpInductive
<1>10. CASE AbortBegin
  BY <1>10, AbortBeginInductive
<1>11. ASSUME NEW result \in {"restored", "closed"}, AbortComplete(result) PROVE IInv'
  BY <1>11, AbortCompleteInductive
<1>12. CASE Tick
  BY <1>12, TickInductive
<1> QED BY <1>1, <1>2, <1>3, <1>4, <1>5, <1>6, <1>7, <1>8, <1>9, <1>10, <1>11, <1>12 DEF Next

\* The invariant holds in every reachable state, in particular the types.
THEOREM Inductive == DrainSpec => []IInv
<1>1. Init => IInv
  BY InitInductive
<1>2. IInv /\ [Next]_drainVars => IInv'
  BY NextInductive
<1> QED BY <1>1, <1>2, PTL DEF DrainSpec

\* Every row of the ledger of activations, drains and requests has its type
\* (paid_drain.py, profile_control.py).
THEOREM DrainTypeCorrect == DrainSpec => []DrainTypeOK
<1>1. IInv => DrainTypeOK
  BY DEF IInv
<1> QED BY <1>1, Inductive, PTL

\* Whatever is scheduled, taken over, aborted or completed late, and whatever takes
\* force behind it, no open paid request belongs to another profile than the target
\* of the newest switch, once that is released and not aborted (paid_drain.py, from
\* START to RELEASE and the dispatch state).
THEOREM SwitchesAreDrained == DrainSpec => []ReleasedSwitchIsDrained
<1>1. IInv => ReleasedSwitchIsDrained
  BY DEF IInv
<1> QED BY <1>1, Inductive, PTL

\* The activations as they stand explain every send of the past
\* (profile_activations.py, activation_at).
THEOREM LedgerIsTrue == DrainSpec => []LedgerExplainsSends
<1>1. IInv => LedgerExplainsSends
  BY DEF IInv
<1> QED BY <1>1, Inductive, PTL

=============================================================================
