----------------------------- MODULE WriteLock -----------------------------
(***************************************************************************)
(* The process-wide SQLite write lock, _FairWriteLock of                   *)
(* src/dcar_eval/v8/storage.py, which transaction() and write_lock() hold. *)
(*                                                                         *)
(* One condition variable guards everything, so what a thread does between *)
(* taking the mutex and waiting on it (or leaving) is one step.  A queued  *)
(* thread sleeps until a notify_all wakes it and looks at the queues again *)
(* only when it gets the mutex back, later: woken is the set of threads in *)
(* between.  A ticket is fresh for every acquire and a thread waits for    *)
(* one lock at a time, so a ticket is the thread that queued it.           *)
(*                                                                         *)
(* overtakes is a history variable: for every queue, how many grants to    *)
(* each priority the thread at its head has had to let pass.               *)
(***************************************************************************)
EXTENDS Integers, SequencesExt

CONSTANTS
    Threads,            \* the writers of the process
    NoThread,           \* nobody holds the lock
    MaxHeartbeatBurst,  \* _MAX_HEARTBEAT_BURST
    MaxSendBurst,       \* _MAX_SEND_BURST
    MaxDepth            \* bound: how deep holds nest

ASSUME LockConstants ==
    /\ NoThread \notin Threads
    /\ MaxHeartbeatBurst \in Nat \ {0} /\ MaxSendBurst \in Nat \ {0} /\ MaxDepth \in Nat

VARIABLES
    owner,     \* _owner
    depth,     \* _depth
    waiters,   \* [Priorities -> Seq(Threads)]: the three queues of tickets
    hbStreak,  \* _heartbeat_streak
    sendStreak, \* _send_streak
    woken,     \* the queued threads that are about to look at the queues
    overtakes  \* [Priorities -> [Priorities -> Nat]]

vars == <<owner, depth, waiters, hbStreak, sendStreak, woken, overtakes>>

Priorities == {"normal", "heartbeat", "send"}
Empty == [p \in Priorities |-> <<>>]
NoOvertakes == [q \in Priorities |-> 0]

QueuedIn(queues, p, t) == \E i \in DOMAIN queues[p] : queues[p][i] = t
Queued(queues) == {t \in Threads : \E p \in Priorities : QueuedIn(queues, p, t)}

-----------------------------------------------------------------------------
(* Whose turn it is. *)

HeartbeatNext(queues) ==
    /\ queues["heartbeat"] # <<>>
    /\ \/ queues["normal"] = <<>> /\ queues["send"] = <<>>
       \/ hbStreak < MaxHeartbeatBurst

SendNext(queues) ==
    /\ queues["send"] # <<>>
    /\ queues["normal"] = <<>> \/ sendStreak < MaxSendBurst

NextQueue(queues) ==
    IF HeartbeatNext(queues) THEN "heartbeat"
    ELSE IF SendNext(queues) THEN "send" ELSE "normal"

\* The condition of acquire's loop for thread t, queued at priority p.
Turn(queues, p, t) ==
    /\ owner = NoThread
    /\ NextQueue(queues) = p
    /\ queues[p] # <<>> /\ Head(queues[p]) = t

-----------------------------------------------------------------------------
UpTo(limit, n) == IF n < limit THEN n ELSE limit

\* Mutant of StreakAfter: a turn of another priority does not end the burst.
StreakKept(p, left) ==
    IF p = "heartbeat" /\ (left["normal"] # <<>> \/ left["send"] # <<>>)
    THEN UpTo(MaxHeartbeatBurst, hbStreak + 1) ELSE hbStreak

\* The renewals granted in a row while somebody else was waiting.
StreakAfter(p, left) ==
    IF p = "heartbeat" /\ (left["normal"] # <<>> \/ left["send"] # <<>>)
    THEN UpTo(MaxHeartbeatBurst, hbStreak + 1) ELSE 0

\* The sends granted, renewals aside, while an ordinary writer was waiting.
SendStreakAfter(p, left) ==
    CASE p = "heartbeat" -> sendStreak
      [] p = "send"      -> IF left["normal"] # <<>>
                            THEN UpTo(MaxSendBurst, sendStreak + 1) ELSE 0
      [] p = "normal"    -> 0

\* Thread t leaves its queue with the lock; the queues are those with its ticket.
Enter(t, p, queues) ==
    LET left == [queues EXCEPT ![p] = Tail(@)]
    IN  /\ owner' = t /\ depth' = 1
        /\ waiters' = left
        /\ hbStreak' = StreakAfter(p, left)
        /\ sendStreak' = SendStreakAfter(p, left)
        /\ woken' = woken \ {t}
        /\ overtakes' = [q \in Priorities |->
              IF q = p \/ left[q] = <<>> THEN NoOvertakes
              ELSE [overtakes[q] EXCEPT ![p] = @ + 1]]

Init ==
    /\ owner = NoThread /\ depth = 0
    /\ waiters = Empty
    /\ hbStreak = 0 /\ sendStreak = 0
    /\ woken = {}
    /\ overtakes = [q \in Priorities |-> NoOvertakes]

MayAcquire(t) == owner # t /\ t \notin Queued(waiters)

\* acquire by a thread that does not hold the lock: it enters or goes to sleep.
Acquire(t, p) ==
    LET queues == [waiters EXCEPT ![p] = Append(@, t)]
    IN  /\ MayAcquire(t)
        /\ IF Turn(queues, p, t)
           THEN Enter(t, p, queues)
           ELSE /\ waiters' = queues
                /\ UNCHANGED <<owner, depth, hbStreak, sendStreak, woken, overtakes>>

\* acquire(blocking=False) whose turn it is not: the ticket is taken back.
AcquireRefused(t, p) ==
    /\ MayAcquire(t)
    /\ ~Turn([waiters EXCEPT ![p] = Append(@, t)], p, t)
    /\ woken' = Queued(waiters)
    /\ UNCHANGED <<owner, depth, waiters, hbStreak, sendStreak, overtakes>>

\* acquire by the owner.
Reenter(t) ==
    /\ owner = t /\ depth < MaxDepth
    /\ depth' = depth + 1
    /\ UNCHANGED <<owner, waiters, hbStreak, sendStreak, woken, overtakes>>

\* A woken thread gets the mutex back and looks again.
Resume(t) ==
    /\ t \in woken
    /\ \/ \E p \in Priorities : Turn(waiters, p, t) /\ Enter(t, p, waiters)
       \/ /\ \A p \in Priorities : ~Turn(waiters, p, t)
          /\ woken' = woken \ {t}
          /\ UNCHANGED <<owner, depth, waiters, hbStreak, sendStreak, overtakes>>

\* Mutant of GiveUp: nobody is told that the queue has moved.
GiveUpSilently(t, p) ==
    \E i \in DOMAIN waiters[p] :
        /\ waiters[p][i] = t
        /\ waiters' = [waiters EXCEPT ![p] = RemoveAt(@, i)]
        /\ woken' = woken \ {t}
        /\ overtakes' = IF i = 1 THEN [overtakes EXCEPT ![p] = NoOvertakes] ELSE overtakes
        /\ UNCHANGED <<owner, depth, hbStreak, sendStreak>>

\* The wait times out or is interrupted: the ticket is taken out of the queue.
GiveUp(t, p) ==
    \E i \in DOMAIN waiters[p] :
        /\ waiters[p][i] = t
        /\ waiters' = [waiters EXCEPT ![p] = RemoveAt(@, i)]
        /\ woken' = Queued(waiters')
        /\ overtakes' = IF i = 1 THEN [overtakes EXCEPT ![p] = NoOvertakes] ELSE overtakes
        /\ UNCHANGED <<owner, depth, hbStreak, sendStreak>>

ReleaseInner(t) ==
    /\ owner = t /\ depth > 1
    /\ depth' = depth - 1
    /\ UNCHANGED <<owner, waiters, hbStreak, sendStreak, woken, overtakes>>

\* The outermost release, by commit, rollback or any error of the transaction.
Release(t) ==
    /\ owner = t /\ depth = 1
    /\ owner' = NoThread /\ depth' = 0
    /\ woken' = Queued(waiters)
    /\ UNCHANGED <<waiters, hbStreak, sendStreak, overtakes>>

Next ==
    \E t \in Threads :
        \/ \E p \in Priorities : Acquire(t, p) \/ AcquireRefused(t, p) \/ GiveUp(t, p)
        \/ Resume(t) \/ Reenter(t) \/ ReleaseInner(t) \/ Release(t)

Spec == Init /\ [][Next]_vars

\* A notified thread gets the mutex, and no hold lasts for ever; strong fairness
\* for the outermost one because nested holds come and go meanwhile.  hold() waits
\* without a deadline, so that only exceptions take tickets back: not for ever.
Fairness ==
    \A t \in Threads :
        /\ WF_vars(Resume(t)) /\ WF_vars(ReleaseInner(t)) /\ SF_vars(Release(t))
        /\ <>[][\A p \in Priorities : ~GiveUp(t, p)]_vars

FairSpec == Spec /\ Fairness

-----------------------------------------------------------------------------
TypeOK ==
    /\ owner \in Threads \cup {NoThread} /\ depth \in Nat
    /\ waiters \in [Priorities -> Seq(Threads)]
    /\ hbStreak \in 0..MaxHeartbeatBurst /\ sendStreak \in 0..MaxSendBurst
    /\ woken \subseteq Threads
    /\ overtakes \in [Priorities -> [Priorities -> Nat]]

\* No wakeup is lost: while the lock is free and somebody waits, the queue whose
\* turn it is is not empty and its head is about to look.  A thread that went back
\* to sleep is never the one whose turn comes next without a notify_all, although
\* arrivals and withdrawals move the turn around (storage.py:152-184).
NextIsAwake ==
    owner = NoThread /\ (\E p \in Priorities : waiters[p] # <<>>) =>
        /\ waiters[NextQueue(waiters)] # <<>>
        /\ Head(waiters[NextQueue(waiters)]) \in woken

\* A queued renewal at the head of its queue lets at most one other turn pass
\* after the current owner's: a lease cannot be lost to a busy writer queue
\* (the test "continuous normal writers cannot starve heartbeat").
RenewalTurn == overtakes["heartbeat"]["normal"] + overtakes["heartbeat"]["send"] <= 1

\* A send at the head of its queue lets at most two bursts of renewals and one
\* ordinary writer pass.
SendTurn ==
    /\ overtakes["send"]["heartbeat"] <= 2 * MaxHeartbeatBurst
    /\ overtakes["send"]["normal"] <= 1

\* An ordinary writer at the head of its queue is overtaken a bounded number of
\* times, whatever the mix of priorities: one burst of sends, and one burst of
\* renewals before, between and after them.
NormalTurn ==
    /\ overtakes["normal"]["send"] <= MaxSendBurst
    /\ overtakes["normal"]["heartbeat"] <= MaxHeartbeatBurst * (MaxSendBurst + 1)

\* No priority waits without a bound, whichever threads come and go meanwhile
\* (which queue acquire lets in next, and the streaks it keeps).
BoundedOvertaking == RenewalTurn /\ SendTurn /\ NormalTurn

\* The docstring of _FairWriteLock (storage.py:105-112): "Ordinary writers get a
\* turn after eight renewals even under continuous priority traffic."
TurnAfterOneBurst == overtakes["normal"]["heartbeat"] <= MaxHeartbeatBurst

\* Nobody starves: a queued thread that does not give up enters, under any stream
\* of arrivals at any priority.
EveryWaiterEnters ==
    \A t \in Threads : t \in Queued(waiters) ~> t \notin Queued(waiters)

=============================================================================
