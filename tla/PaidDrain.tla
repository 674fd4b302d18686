----------------------------- MODULE PaidDrain -----------------------------
(***************************************************************************)
(* Profile activations and the paid drain, src/dcar_eval/v8/paid_drain.py, *)
(* profile_activations.py, profile_control.py (schema 20 and later).       *)
(*                                                                         *)
(* An activation names the acquisition profile in force from an instant    *)
(* on.  A switch to another profile is a drain: START closes paid dispatch *)
(* and freezes the requests still open, SEALED proves that they ended and  *)
(* that none followed, RELEASE permits dispatch to the target once it is   *)
(* effective.  A switch not completed in time leaves its target            *)
(* ineligible; an abort fences dispatch, cancels the target and restores   *)
(* or closes the source.  All drain events are one append-only chain.      *)
(*                                                                         *)
(* The clock counts instants, Day of them from midnight to midnight.  An   *)
(* approved switch to the integrated profile is effective Lead (the code's *)
(* 15 minutes) after its BEGIN, whatever the hour; every other activation  *)
(* is effective at the next midnight.  Activations pending for different   *)
(* instants know nothing of each other.  The hour from which COMPLETE is   *)
(* accepted only delays it.  Not here: diagnostic requests, current holds  *)
(* and forward releases, the schema-18 bridge.  Whether the source's       *)
(* release still qualifies at the end of an abort is nondeterministic.     *)
(***************************************************************************)
EXTENDS Integers, Sequences, FiniteSets

CONSTANTS
    Profiles,        \* acquisition profiles
    Tikhub,          \* TIKHUB_PROFILE and INTEGRATED_PROFILE: between these two
    Integrated,      \* a switch may be approved for a time of the day
    First,           \* the profile of the first activation
    Day,             \* instants from one midnight to the next
    Evening,         \* BEGIN_EARLIEST, counted from midnight
    Lead,            \* from BEGIN to the effect of an approved switch
    MaxActivations,  \* bounds on the tables and on the clock
    MaxDrains,
    MaxUsages,
    MaxClock

ASSUME DrainConstants ==
    /\ {Tikhub, Integrated, First} \subseteq Profiles
    /\ Day \in Nat \ {0} /\ Evening \in Nat /\ Lead \in Nat \ {0}
    /\ MaxActivations \in Nat /\ MaxDrains \in Nat /\ MaxUsages \in Nat /\ MaxClock \in Nat

VARIABLES
    clock,
    acts,        \* acquisition_profile_activations with their cancellations
    drains,      \* what each drain's START froze, and its abort fence
    chain,       \* pipeline_paid_drain_events
    usages,      \* provider_usage with the dispatch events
    completing   \* COMPLETE between its checks and its transaction

drainVars == <<clock, acts, drains, chain, usages, completing>>

NoFence == -1
NoDrain == 0

\* An ABORT_RESTORE event with result open is "restored", with closed "closed".
EventType == {"start", "sealed", "release", "restored", "closed"}
Unsent == {"reserved", "not_sent"}
OpenState == {"reserved", "sent"}
UsageState == Unsent \cup OpenState \cup {"terminal", "settled"}

Activation == [profile   : Profiles,
               effective : Nat,
               gated     : BOOLEAN,   \* metadata.eligibility_contract
               drain     : Nat,       \* metadata.drain_id
               cancelled : BOOLEAN]

Drain == [source : Nat, target : Nat,
          cross  : BOOLEAN,           \* switch_kind = cross_profile
          frozen : SUBSET Nat,        \* the requests open at START
          mark   : Nat,               \* provider_usage_high_watermark
          fence  : Nat \cup {NoFence}]  \* sends when the abort began

Event == [type : EventType, drain : Nat, at : Nat]

Usage == [state : UsageState, activation : Nat, sentAt : Nat]

DrainTypeOK ==
    /\ clock \in 0..MaxClock
    /\ acts \in Seq(Activation) /\ drains \in Seq(Drain)
    /\ chain \in Seq(Event) /\ usages \in Seq(Usage)
    /\ completing \in [drain : Nat, at : Nat]

Idle == [drain |-> NoDrain, at |-> 0]

Last == chain[Len(chain)]
LastDrain == drains[Last.drain]
OpenUsages == {u \in DOMAIN usages : usages[u].state \in OpenState}
Sends == Cardinality({u \in DOMAIN usages : usages[u].state \notin Unsent})

-----------------------------------------------------------------------------
(* Which activation is in force.                                           *)

\* activation_eligibility: the target's chain ended before it took effect.
Eligible(a) ==
    acts[a].gated =>
        \A t \in {"start", "sealed", "release"} :
            \E e \in DOMAIN chain :
                /\ chain[e].drain = acts[a].drain /\ chain[e].type = t
                /\ chain[e].at < acts[a].effective

InForce(now) == {a \in DOMAIN acts : acts[a].effective <= now /\ ~acts[a].cancelled}

\* ORDER BY effective_at DESC, id DESC.
Latest(S) == CHOOSE a \in S :
    \A b \in S : \/ acts[b].effective < acts[a].effective
                 \/ acts[b].effective = acts[a].effective /\ b <= a

\* activation_at.
ActiveAt(now) == Latest({a \in InForce(now) : Eligible(a)})
Active == ActiveAt(clock)

-----------------------------------------------------------------------------
(* The gate.                                                               *)

Permitted(a) == \E e \in DOMAIN chain : /\ chain[e].type = "release"
                                        /\ drains[chain[e].drain].target = a
                                        /\ chain[e].at <= clock

Aborted(d) == \E e \in DOMAIN chain : chain[e].drain = d /\ chain[e].type \in {"restored", "closed"}
Switches == {d \in DOMAIN drains : drains[d].cross /\ ~Aborted(d)}

\* Mutant of SwitchDone: after RELEASE the old profile goes on until midnight.
SwitchReleased == Last.type = "release"

\* The last switch's target is in force, or another activation of its profile.
SwitchDone ==
    \A d \in Switches :
        (\A x \in Switches : x <= d) =>
            LET target == acts[drains[d].target]
            IN  ~target.cancelled /\ target.profile = acts[Active].profile

\* _profile_dispatch_state is open.
GateOpen ==
    IF LastDrain.fence # NoFence
    THEN Last.type = "restored" /\ Active = LastDrain.source
    ELSE Last.type = "release" /\ SwitchDone /\ Permitted(Active)

\* trg_paid_dispatch_events_binding: the request's activation is in force.
BoundToLatest(a) == a = Latest(InForce(clock)) /\ Permitted(a)

-----------------------------------------------------------------------------
(* Paid requests.                                                          *)

\* The claim: require_paid_dispatch_open and reserve_dispatch_in_transaction.
Reserve ==
    /\ Len(usages) < MaxUsages
    /\ GateOpen /\ BoundToLatest(Active)
    /\ usages' = Append(usages, [state |-> "reserved", activation |-> Active, sentAt |-> 0])
    /\ UNCHANGED <<clock, acts, drains, chain, completing>>

\* Mutant of Sendable: what was authorised at the claim is not looked at again.
SendableOnceReserved(u) == usages[u].state = "reserved"
Sendable(u) == usages[u].state = "reserved" /\ GateOpen /\ BoundToLatest(usages[u].activation)

\* _mark_paid_sent: authorised again, for the activation of the claim.
Send(u) ==
    /\ Sendable(u)
    /\ usages' = [usages EXCEPT ![u].state = "sent", ![u].sentAt = clock]
    /\ UNCHANGED <<clock, acts, drains, chain, completing>>

\* A refused or recovered claim, an answer or its recovery, the settlement.
End(u, before, after) ==
    /\ usages[u].state = before
    /\ usages' = [usages EXCEPT ![u].state = after]
    /\ UNCHANGED <<clock, acts, drains, chain, completing>>

NotSent(u) == End(u, "reserved", "not_sent")
Answer(u) == End(u, "sent", "terminal")
Settle(u) == End(u, "terminal", "settled")

-----------------------------------------------------------------------------
(* Scheduling an activation.                                               *)

\* A START may follow a RELEASE or the end of an abort.
ChainIdle == IF LastDrain.fence # NoFence THEN Last.type \in {"restored", "closed"}
             ELSE Last.type = "release"

Occupied(e) == {a \in DOMAIN acts : acts[a].effective = e /\ ~acts[a].cancelled}

\* append_activation, after cancelling what replace_scheduled_activation replaces.
Schedule(replaced, new) ==
    acts' = Append([a \in DOMAIN acts |-> IF a \in replaced THEN [acts[a] EXCEPT !.cancelled = TRUE]
                                          ELSE acts[a]], new)

NewDrain == Len(drains) + 1

\* _freeze_start.
StartOf(target, cross) ==
    [source |-> Active, target |-> target, cross |-> cross,
     frozen |-> OpenUsages, mark |-> Len(usages), fence |-> NoFence]

Log(types, d, at) == chain' = chain \o [i \in DOMAIN types |-> [type |-> types[i], drain |-> d, at |-> at]]

\* _next_midnight.
NextMidnight == (clock - (clock % Day)) + Day

\* When a switch to p begun now takes effect.
Boundary(p) ==
    {e \in {NextMidnight} : clock % Day >= Evening} \cup
    {e \in {clock + Lead} : p = Integrated /\ acts[Active].profile = Tikhub}

\* begin_cross_profile_switch: an activation of the source's profile pending for the
\* very same instant gives way, one of the target's is taken over by the new drain.
\* What is pending for another instant stays.
Begin(p) ==
    /\ p # acts[Active].profile /\ ChainIdle /\ Len(drains) < MaxDrains
    /\ \E effective \in Boundary(p) :
       LET occupied == Occupied(effective)
       IN  \/ /\ \A a \in occupied : acts[a].profile = acts[Active].profile
              /\ Len(acts) < MaxActivations
              /\ Schedule(occupied, [profile |-> p, effective |-> effective, gated |-> TRUE,
                                     drain |-> NewDrain, cancelled |-> FALSE])
              /\ drains' = Append(drains, StartOf(Len(acts) + 1, TRUE))
           \/ \E a \in occupied :
              /\ acts[a].profile = p
              /\ drains' = Append(drains, StartOf(a, TRUE))
              /\ UNCHANGED acts
    /\ Log(<<"start">>, NewDrain, clock)
    /\ UNCHANGED <<clock, usages, completing>>

\* schedule_same_profile_roster_activation with its nonblocking permit chain.
ScheduleSameProfile ==
    /\ ChainIdle /\ Len(drains) < MaxDrains /\ Len(acts) < MaxActivations
    /\ LET effective == NextMidnight
           occupied == Occupied(effective)
       IN  /\ \A a \in occupied : acts[a].profile = acts[Active].profile
           /\ Schedule(occupied, [profile |-> acts[Active].profile, effective |-> effective,
                                  gated |-> FALSE, drain |-> NewDrain, cancelled |-> FALSE])
    /\ drains' = Append(drains, StartOf(Len(acts) + 1, FALSE))
    /\ Log(<<"start", "sealed", "release">>, NewDrain, clock)
    /\ UNCHANGED <<clock, usages, completing>>

-----------------------------------------------------------------------------
(* Completing a switch.                                                    *)

\* _verify_sealable: the frozen requests ended and nothing followed START.
Sealable(d) == /\ \A u \in drains[d].frozen : usages[u].state \notin OpenState
               /\ Len(usages) = drains[d].mark

\* complete_cross_profile_switch reads the clock once, checks it, and recovers
\* stale work before its transaction.  A drain sealed before only gets its events
\* back, which is no step.
StartComplete ==
    LET d == Last.drain
    IN  /\ completing = Idle /\ Last.type = "start"
        /\ drains[d].cross /\ ~acts[drains[d].target].cancelled
        /\ clock < acts[drains[d].target].effective
        /\ completing' = [drain |-> d, at |-> clock]
        /\ UNCHANGED <<clock, acts, drains, chain, usages>>

\* SEALED and RELEASE, dated with the time that was read first.
FinishComplete ==
    LET d == completing.drain
    IN  /\ completing # Idle
        /\ ~acts[drains[d].target].cancelled
        /\ OpenUsages = {}
        /\ Last.type = "start" /\ Last.drain = d /\ Sealable(d)
        /\ Log(<<"sealed", "release">>, d, completing.at)
        /\ completing' = Idle
        /\ UNCHANGED <<clock, acts, drains, usages>>

\* It is refused, finds its events written already, or its process dies.
GiveUpComplete ==
    /\ completing # Idle /\ completing' = Idle
    /\ UNCHANGED <<clock, acts, drains, chain, usages>>

-----------------------------------------------------------------------------
(* Aborting a switch.                                                      *)

\* The target was never in force: the source is, and the target sent nothing.
NeverCurrent(d) ==
    LET t == drains[d].target
    IN  /\ Active = drains[d].source
        /\ clock < acts[t].effective \/ ~Eligible(t)
        /\ \A u \in DOMAIN usages : usages[u].activation = t => usages[u].state \in Unsent

\* begin_cross_profile_abort: fence dispatch and cancel the target.
AbortBegin ==
    LET d == Last.drain
        t == drains[d].target
    IN  /\ Last.type \in {"start", "sealed", "release"}
        /\ drains[d].cross /\ drains[d].fence = NoFence
        /\ ~acts[t].cancelled /\ NeverCurrent(d)
        /\ acts' = [acts EXCEPT ![t].cancelled = TRUE]
        /\ drains' = [drains EXCEPT ![d].fence = Sends]
        /\ UNCHANGED <<clock, chain, usages, completing>>

\* complete_cross_profile_abort: nothing runs, everything sent is settled, and the
\* source is restored if it is still in force and qualified.
AbortComplete(result) ==
    LET d == Last.drain
    IN  /\ drains[d].fence # NoFence /\ Last.type \notin {"restored", "closed"}
        /\ drains[d].fence = Sends /\ OpenUsages = {} /\ Sealable(d)
        /\ \A u \in DOMAIN usages :
               usages[u].activation \in {drains[d].source, drains[d].target} =>
                   usages[u].state # "terminal"
        /\ result = "restored" => Active = drains[d].source
        /\ Log(<<result>>, d, clock)
        /\ UNCHANGED <<clock, acts, drains, usages, completing>>

Tick == /\ clock < MaxClock /\ clock' = clock + 1
        /\ UNCHANGED <<acts, drains, chain, usages, completing>>

-----------------------------------------------------------------------------
\* The first activation is in force with the permit of its own.
Init ==
    /\ clock = 0
    /\ acts = <<[profile |-> First, effective |-> 0, gated |-> FALSE,
                 drain |-> 1, cancelled |-> FALSE]>>
    /\ drains = <<[source |-> 1, target |-> 1, cross |-> FALSE, frozen |-> {}, mark |-> 0,
                   fence |-> NoFence]>>
    /\ chain = [i \in 1..3 |-> [type |-> <<"start", "sealed", "release">>[i], drain |-> 1, at |-> 0]]
    /\ usages = <<>>
    /\ completing = Idle

Next ==
    \/ Reserve
    \/ \E u \in DOMAIN usages : Send(u) \/ NotSent(u) \/ Answer(u) \/ Settle(u)
    \/ \E p \in Profiles : Begin(p)
    \/ ScheduleSameProfile
    \/ StartComplete
    \/ FinishComplete
    \/ GiveUpComplete
    \/ AbortBegin
    \/ \E result \in {"restored", "closed"} : AbortComplete(result)
    \/ Tick

DrainSpec == Init /\ [][Next]_drainVars

-----------------------------------------------------------------------------
Released(d) == \E e \in DOMAIN chain : chain[e].drain = d /\ chain[e].type = "release"
NewestSwitch(d) == drains[d].cross /\ \A x \in DOMAIN drains : drains[x].cross => x <= d

(* Once the newest switch is released, and unless it is aborted, every paid *)
(* request open belongs to its target's profile: the drain left none of the *)
(* old one, and none is made, whatever is in force then.  That may be the  *)
(* source until the boundary, or a roster activation of the old profile    *)
(* pending since before the switch, which takes force without a drain.     *)
ReleasedSwitchIsDrained ==
    \A d \in DOMAIN drains :
        NewestSwitch(d) /\ Released(d) /\ drains[d].fence = NoFence =>
            \A u \in OpenUsages :
                acts[usages[u].activation].profile = acts[drains[d].target].profile

(* The tables as they stand now explain every send of the past: the        *)
(* activation a request was sent under is the one they give for that       *)
(* instant.  No later cancellation, abort or late RELEASE rewrites it.     *)
LedgerExplainsSends ==
    \A u \in DOMAIN usages :
        usages[u].state \notin Unsent => ActiveAt(usages[u].sentAt) = usages[u].activation
=============================================================================
