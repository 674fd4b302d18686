----------------------------- MODULE MCPaidWork -----------------------------
(* PaidWork on a small instance: one item with one slot, within one business day.  *)
(* The queue's side is kept small: the item only ever waits to be dispatched, so    *)
(* that executions end by a continuation, a recovery or a restart.                  *)
EXTENDS PaidWork

CONSTANTS item1, w1, w2, frozen, s1, identity

MCItems == {item1}
MCWorkers == {w1, w2}
MCIdentities == {frozen}
MCDays == {0}
MCDelays == {0}

OneSlot == {s1}
OfTheItem == [s \in Slots |-> item1]
OneIdentity == {identity}
SharedIdentity == [s \in Slots |-> identity]
TwoEach == [s \in Slots |-> 2]

\* Bound: what becomes of the item.
PlainItems ==
    \A i \in Roots : work[i].state \in {"absent", "runnable", "running"} /\ ~work[i].nudged

\* Bound: the first attempt is not w2's (the workers are interchangeable), and it
\* is interrupted, since what it does while it runs is the same either way.
FirstIsInterrupted ==
    /\ claim[w2].attempt # 1
    /\ \A r \in Runs : run[r].attempts # << >> => run[r].attempts[1].status # "partial"

\* Fairness asks for none of the steps left out.
PlainPaidWork ==
    /\ InitPaidWork
    /\ [][NextPaidWork /\ (PlainItems /\ FirstIsInterrupted)']_paidWorkVars
    /\ PaidWorkFairness
=============================================================================
