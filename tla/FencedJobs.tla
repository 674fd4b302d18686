----------------------------- MODULE FencedJobs -----------------------------
(***************************************************************************)
(* What a durable run promises its users, with no leases, attempt rows,    *)
(* owner tokens or worker memory: a job is held by one grant at a time,    *)
(* its work grows only under a grant, a grant ends by giving the job back  *)
(* or by ending it for good, and only complete work ends in success.       *)
(* DurableRuns implements this specification.                              *)
(***************************************************************************)
EXTENDS Naturals

CONSTANTS
    Jobs,
    Amounts  \* the work a job can have done: a set of naturals

VARIABLES phase, grants, work, done

jobVars == <<phase, grants, work, done>>

JobInit ==
    /\ phase = [j \in Jobs |-> "unborn"]
    /\ grants = [j \in Jobs |-> 0]
    /\ work = [j \in Jobs |-> 0]
    /\ done = [j \in Jobs |-> FALSE]

\* The first grant; a continuation starts from inherited work k.
Bear(j, k) ==
    /\ phase[j] = "unborn"
    /\ phase' = [phase EXCEPT ![j] = "held"]
    /\ grants' = [grants EXCEPT ![j] = @ + 1]
    /\ work' = [work EXCEPT ![j] = k]
    /\ UNCHANGED done

\* A later grant takes the work as it is.
Grant(j) ==
    /\ phase[j] = "idle"
    /\ phase' = [phase EXCEPT ![j] = "held"]
    /\ grants' = [grants EXCEPT ![j] = @ + 1]
    /\ UNCHANGED <<work, done>>

Advance(j, k, d) ==
    /\ phase[j] = "held" /\ ~done[j] /\ k >= work[j]
    /\ work' = [work EXCEPT ![j] = k]
    /\ done' = [done EXCEPT ![j] = d]
    /\ UNCHANGED <<phase, grants>>

\* A grant ends, for one job by its holder or for several by recovery.
GiveBack(S) ==
    /\ S # {} /\ \A j \in S : phase[j] = "held"
    /\ phase' = [j \in Jobs |-> IF j \in S THEN "idle" ELSE phase[j]]
    /\ UNCHANGED <<grants, work, done>>

End(j, outcome) ==
    /\ phase[j] = "held"
    /\ (outcome = "succeeded") = done[j]
    /\ phase' = [phase EXCEPT ![j] = outcome]
    /\ UNCHANGED <<grants, work, done>>

JobNext ==
    \/ \E j \in Jobs :
          \/ \E k \in Amounts : Bear(j, k)
          \/ Grant(j)
          \/ \E k \in Amounts, d \in BOOLEAN : Advance(j, k, d)
          \/ \E outcome \in {"succeeded", "failed"} : End(j, outcome)
    \/ \E S \in SUBSET Jobs : GiveBack(S)

JobSpec == JobInit /\ [][JobNext]_jobVars
=============================================================================
