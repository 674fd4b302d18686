-------------------------- MODULE WriteLockProofs --------------------------
(***************************************************************************)
(* Proofs about WriteLock, for any number of threads and any two bursts.   *)
(*                                                                         *)
(* The bounds on overtaking are not inductive: they follow from what the   *)
(* two streaks say about the history of each queue's head.  RenewalHistory,*)
(* SendHistory and NormalHistory state that, queue by queue.               *)
(***************************************************************************)
EXTENDS WriteLock, TLAPS

\* A renewal that let a turn pass is next: the streak that held it back is over.
RenewalHistory ==
    /\ overtakes["heartbeat"]["normal"] + overtakes["heartbeat"]["send"] <= 1
    /\ overtakes["heartbeat"]["normal"] + overtakes["heartbeat"]["send"] = 1 => hbStreak = 0

\* Renewals pass a send within one burst; an ordinary writer's turn starts another
\* and clears the send streak, so that there is no third.
SendHistory ==
    \/ /\ overtakes["send"]["normal"] = 0
       /\ overtakes["send"]["heartbeat"] <= hbStreak
    \/ /\ overtakes["send"]["normal"] = 1 /\ sendStreak = 0
       /\ overtakes["send"]["heartbeat"] <= MaxHeartbeatBurst + hbStreak

\* The renewals of n bursts.
Bursts(n) == MaxHeartbeatBurst * n

\* Every send that passes an ordinary writer counts, and opens one more burst.
NormalHistory ==
    /\ overtakes["normal"]["send"] <= sendStreak
    /\ overtakes["normal"]["heartbeat"]
          <= Bursts(overtakes["normal"]["send"]) + hbStreak

IInv == TypeOK /\ NextIsAwake /\ RenewalHistory /\ SendHistory /\ NormalHistory

-----------------------------------------------------------------------------
(* The arithmetic of bursts; elsewhere Bursts stays folded. *)
LEMMA BurstFacts ==
    ASSUME LockConstants, NEW n \in Nat
    PROVE  /\ Bursts(n) \in Nat /\ Bursts(0) = 0
           /\ Bursts(n + 1) = Bursts(n) + MaxHeartbeatBurst
BY DEF Bursts, LockConstants

(* Taking a ticket out of a queue leaves a queue, with the same head unless it *)
(* was the first.                                                             *)
LEMMA Removal ==
    ASSUME NEW S, NEW s \in Seq(S), NEW i \in DOMAIN s
    PROVE  RemoveAt(s, i) \in Seq(S)
BY DEF RemoveAt

(* While somebody waits, the queue whose turn it is is not empty. *)
LEMMA TurnExists ==
    ASSUME LockConstants, TypeOK,
           NEW queues, NEW p \in Priorities, queues[p] # <<>>
    PROVE  /\ NextQueue(queues) \in Priorities
           /\ queues[NextQueue(queues)] # <<>>
<1>1. queues["normal"] # <<>> \/ queues["heartbeat"] # <<>> \/ queues["send"] # <<>>
  BY DEF Priorities
<1>2. CASE HeartbeatNext(queues)
  BY <1>2 DEF NextQueue, HeartbeatNext, Priorities
<1>3. CASE ~HeartbeatNext(queues) /\ SendNext(queues)
  BY <1>3 DEF NextQueue, SendNext, Priorities
<1>4. CASE ~HeartbeatNext(queues) /\ ~SendNext(queues)
  BY <1>1, <1>4 DEF NextQueue, HeartbeatNext, SendNext, Priorities
<1> QED BY <1>2, <1>3, <1>4

(* Waking every waiter wakes the one whose turn it is. *)
LEMMA NotifyAll ==
    ASSUME LockConstants, TypeOK, TypeOK', woken' = Queued(waiters'),
           UNCHANGED <<hbStreak, sendStreak>>
    PROVE  NextIsAwake'
<1> DEFINE q == NextQueue(waiters')
<1>1. NextQueue(waiters)' = q
  BY DEF NextQueue, HeartbeatNext, SendNext
<1> SUFFICES ASSUME NEW p \in Priorities, waiters'[p] # <<>>
             PROVE  waiters'[q] # <<>> /\ Head(waiters'[q]) \in woken'
  BY <1>1 DEF NextIsAwake
<1>2. q \in Priorities /\ waiters'[q] # <<>>
  BY TurnExists
<1>3. waiters'[q] \in Seq(Threads)
  BY <1>2 DEF TypeOK
<1>4. /\ Head(waiters'[q]) \in Threads /\ 1 \in DOMAIN waiters'[q]
      /\ waiters'[q][1] = Head(waiters'[q])
  BY <1>2, <1>3
<1> QED
  BY <1>2, <1>4 DEF Queued, QueuedIn

(* An append moves the turn to another queue only when its own was empty, and *)
(* then to itself: the newcomer's turn, or the one it was before.             *)
LEMMA Arrival ==
    ASSUME LockConstants, TypeOK, NextIsAwake,
           NEW t \in Threads, NEW p \in Priorities,
           NEW queues, queues = [waiters EXCEPT ![p] = Append(@, t)],
           owner = NoThread, ~Turn(queues, p, t)
    PROVE  /\ queues[NextQueue(queues)] # <<>>
           /\ Head(queues[NextQueue(queues)]) \in woken
<1>a. /\ waiters[p] \in Seq(Threads)
      /\ Append(waiters[p], t) \in Seq(Threads) /\ Append(waiters[p], t) # <<>>
  BY DEF TypeOK
<1>1. /\ queues \in [Priorities -> Seq(Threads)]
      /\ queues[p] = Append(waiters[p], t) /\ queues[p] # <<>>
      /\ \A q \in Priorities \ {p} : queues[q] = waiters[q]
  BY <1>a DEF TypeOK
<1>2. /\ waiters[p] # <<>> => Head(queues[p]) = Head(waiters[p])
      /\ waiters[p] = <<>> => Head(queues[p]) = t
  BY <1>1 DEF TypeOK
<1>3. NextQueue(queues) \in Priorities /\ queues[NextQueue(queues)] # <<>>
  BY <1>1, TurnExists
<1>4. ~(NextQueue(queues) = p /\ waiters[p] = <<>>)
  BY <1>1, <1>2 DEF Turn
<1>5. /\ NextQueue(queues) = NextQueue(waiters)
      /\ waiters[NextQueue(waiters)] # <<>>
  BY <1>1, <1>3, <1>4
     DEF NextQueue, HeartbeatNext, SendNext, Priorities, TypeOK, LockConstants
<1>6. Head(waiters[NextQueue(waiters)]) \in woken
  BY <1>3, <1>5 DEF NextIsAwake
<1> QED
  BY <1>1, <1>2, <1>3, <1>5, <1>6

-----------------------------------------------------------------------------
(* Entering keeps the invariant, from sleep or at once. *)
LEMMA EnterKeeps ==
    ASSUME LockConstants, IInv,
           NEW t \in Threads, NEW p \in Priorities,
           NEW queues \in [Priorities -> Seq(Threads)],
           Turn(queues, p, t), Enter(t, p, queues)
    PROVE  IInv'
<1> DEFINE left == [queues EXCEPT ![p] = Tail(@)]
<1>1. left \in [Priorities -> Seq(Threads)]
  BY DEF Turn
<1>2. /\ \A q \in Priorities \ {p} : left[q] = queues[q]
      /\ queues[p] # <<>> /\ NextQueue(queues) = p
  BY DEF Turn
<1>t. /\ MaxHeartbeatBurst \in Nat \ {0} /\ MaxSendBurst \in Nat \ {0}
      /\ hbStreak \in 0..MaxHeartbeatBurst /\ sendStreak \in 0..MaxSendBurst
      /\ \A q \in Priorities, r \in Priorities : overtakes[q][r] \in Nat
      /\ \A q \in Priorities : overtakes[q] \in [Priorities -> Nat]
  BY DEF IInv, TypeOK, LockConstants
<1>s. hbStreak' = StreakAfter(p, left) /\ sendStreak' = SendStreakAfter(p, left)
  BY DEF Enter
<1>c. /\ p = "heartbeat" => HeartbeatNext(queues)
      /\ p = "send" => ~HeartbeatNext(queues) /\ SendNext(queues)
      /\ p = "normal" => ~HeartbeatNext(queues) /\ ~SendNext(queues)
  BY <1>2 DEF NextQueue
<1>3. hbStreak' \in 0..MaxHeartbeatBurst /\ sendStreak' \in 0..MaxSendBurst
  <2>1. hbStreak' \in 0..MaxHeartbeatBurst
    BY <1>t, <1>s DEF StreakAfter, UpTo
  <2>2. sendStreak' \in 0..MaxSendBurst
    <3>1. CASE p = "heartbeat"
      BY <1>t, <1>s, <3>1 DEF SendStreakAfter
    <3>2. CASE p = "send"
      BY <1>t, <1>s, <3>2 DEF SendStreakAfter, UpTo
    <3>3. CASE p = "normal"
      BY <1>t, <1>s, <3>3 DEF SendStreakAfter
    <3> QED BY <3>1, <3>2, <3>3 DEF Priorities
  <2> QED BY <2>1, <2>2
<1>4. \A q \in Priorities :
         overtakes'[q] = IF q = p \/ left[q] = <<>> THEN NoOvertakes
                         ELSE [overtakes[q] EXCEPT ![p] = @ + 1]
  BY DEF Enter
<1>r. ASSUME NEW q \in Priorities, q = p \/ left[q] = <<>>
      PROVE  \A r \in Priorities : overtakes'[q][r] = 0
  BY <1>4, <1>r DEF NoOvertakes
<1>o. ASSUME NEW q \in Priorities, q # p, left[q] # <<>>
      PROVE  /\ overtakes'[q][p] = overtakes[q][p] + 1
             /\ \A r \in Priorities \ {p} : overtakes'[q][r] = overtakes[q][r]
  <2> DEFINE f == overtakes[q]
  <2>1. overtakes'[q] = [f EXCEPT ![p] = @ + 1]
    BY <1>4, <1>o
  <2>2. f \in [Priorities -> Nat]
    BY <1>t
  <2> HIDE DEF f
  <2>3. /\ [f EXCEPT ![p] = @ + 1][p] = f[p] + 1
        /\ \A r \in Priorities \ {p} : [f EXCEPT ![p] = @ + 1][r] = f[r]
    BY <2>2
  <2> USE DEF f
  <2> QED  BY <2>1, <2>3
<1>h. RenewalHistory /\ SendHistory /\ NormalHistory
  BY DEF IInv
<1>5. overtakes' \in [Priorities -> [Priorities -> Nat]]
  BY DEF Enter, IInv, TypeOK, NoOvertakes
<1>6. TypeOK'
  BY <1>1, <1>3, <1>5 DEF TypeOK, Enter, IInv
<1>7. NextIsAwake'
  BY DEF NextIsAwake, Enter, LockConstants
<1>8. CASE p = "heartbeat"
  <2>1. /\ left["normal"] # <<>> \/ left["send"] # <<>> =>
              hbStreak < MaxHeartbeatBurst /\ hbStreak' = hbStreak + 1
        /\ sendStreak' = sendStreak
    <3>1. /\ hbStreak' = IF left["normal"] # <<>> \/ left["send"] # <<>>
                         THEN UpTo(MaxHeartbeatBurst, hbStreak + 1) ELSE 0
          /\ sendStreak' = sendStreak
      BY <1>8, <1>s, Zenon DEF StreakAfter, SendStreakAfter
    <3>2. left["normal"] = queues["normal"] /\ left["send"] = queues["send"]
      BY <1>8, <1>2 DEF Priorities
    <3>3. \/ queues["normal"] = <<>> /\ queues["send"] = <<>>
          \/ hbStreak < MaxHeartbeatBurst
      BY <1>8, <1>c DEF HeartbeatNext
    <3> HIDE DEF left
    <3> QED BY <1>t, <3>1, <3>2, <3>3 DEF UpTo
  <2>2. RenewalHistory'
    BY <1>8, <1>r DEF RenewalHistory, Priorities
  <2>3. SendHistory'
    <3>1. CASE left["send"] = <<>>
      BY <1>3, <1>r, <3>1 DEF SendHistory, Priorities
    <3>2. CASE left["send"] # <<>>
      <4>1. /\ overtakes'["send"]["heartbeat"] = overtakes["send"]["heartbeat"] + 1
            /\ overtakes'["send"]["normal"] = overtakes["send"]["normal"]
        BY <1>8, <1>o, <3>2 DEF Priorities
      <4> DEFINE n == overtakes["send"]["normal"]
                 h == overtakes["send"]["heartbeat"]
      <4>2. n \in Nat /\ h \in Nat
        BY <1>t DEF Priorities
      <4>3. \/ n = 0 /\ h <= hbStreak
            \/ n = 1 /\ sendStreak = 0 /\ h <= MaxHeartbeatBurst + hbStreak
        BY <1>h DEF SendHistory
      <4>4. hbStreak' = hbStreak + 1 /\ sendStreak' = sendStreak
        BY <2>1, <3>2
      <4> HIDE DEF n, h
      <4>5. \/ n = 0 /\ h + 1 <= hbStreak'
            \/ n = 1 /\ sendStreak' = 0 /\ h + 1 <= MaxHeartbeatBurst + hbStreak'
        BY <1>t, <4>2, <4>3, <4>4
      <4> USE DEF n, h
      <4> QED BY <4>1, <4>5 DEF SendHistory
    <3> QED BY <3>1, <3>2
  <2>4. NormalHistory'
    <3>1. CASE left["normal"] = <<>>
      <4>1. overtakes'["normal"]["send"] = 0 /\ overtakes'["normal"]["heartbeat"] = 0
        BY <1>r, <3>1 DEF Priorities
      <4>2. Bursts(0) = 0
        BY BurstFacts
      <4> QED BY <1>3, <4>1, <4>2 DEF NormalHistory
    <3>2. CASE left["normal"] # <<>>
      <4> DEFINE n == overtakes["normal"]["send"]
                 h == overtakes["normal"]["heartbeat"]
      <4>1. n \in Nat /\ h \in Nat /\ Bursts(n) \in Nat
        BY <1>t, BurstFacts DEF Priorities
      <4>2. n <= sendStreak /\ h <= Bursts(n) + hbStreak
        BY <1>h DEF NormalHistory
      <4>3. /\ overtakes'["normal"]["heartbeat"] = h + 1
            /\ overtakes'["normal"]["send"] = n
        BY <1>8, <1>o, <3>2 DEF Priorities
      <4> HIDE DEF n, h
      <4>4. h + 1 <= Bursts(n) + hbStreak' /\ n <= sendStreak'
        BY <1>t, <2>1, <3>2, <4>1, <4>2
      <4> QED BY <4>3, <4>4 DEF NormalHistory
    <3> QED BY <3>1, <3>2, Zenon
  <2> QED BY <1>6, <1>7, <2>2, <2>3, <2>4, Zenon DEF IInv
<1>9. CASE p = "send"
  <2>1. /\ hbStreak' = 0
        /\ queues["heartbeat"] # <<>> => hbStreak = MaxHeartbeatBurst
        /\ left["normal"] # <<>> => sendStreak' = sendStreak + 1
    <3>1. /\ hbStreak' = 0
          /\ sendStreak' = IF left["normal"] # <<>>
                           THEN UpTo(MaxSendBurst, sendStreak + 1) ELSE 0
      BY <1>9, <1>s DEF StreakAfter, SendStreakAfter
    <3>2. left["normal"] = queues["normal"]
      BY <1>9, <1>2 DEF Priorities
    <3>3. /\ queues["heartbeat"] # <<>> => ~(hbStreak < MaxHeartbeatBurst)
          /\ queues["normal"] # <<>> => sendStreak < MaxSendBurst
      BY <1>9, <1>c DEF HeartbeatNext, SendNext
    <3> HIDE DEF left
    <3> QED BY <1>t, <3>1, <3>2, <3>3 DEF UpTo
  <2>2. RenewalHistory'
    <3>1. CASE left["heartbeat"] = <<>>
      BY <1>r, <3>1 DEF RenewalHistory, Priorities
    <3>2. CASE left["heartbeat"] # <<>>
      <4>1. /\ overtakes'["heartbeat"]["send"] = overtakes["heartbeat"]["send"] + 1
            /\ overtakes'["heartbeat"]["normal"] = overtakes["heartbeat"]["normal"]
        BY <1>9, <1>o, <3>2 DEF Priorities
      <4>2. hbStreak = MaxHeartbeatBurst
        BY <1>2, <1>9, <2>1, <3>2 DEF Priorities
      <4> QED
        BY <1>h, <1>t, <2>1, <4>1, <4>2 DEF RenewalHistory, Priorities
    <3> QED BY <3>1, <3>2
  <2>3. SendHistory'
    BY <1>9, <1>r, <2>1 DEF SendHistory, Priorities
  <2>4. NormalHistory'
    <3>1. CASE left["normal"] = <<>>
      <4>1. overtakes'["normal"]["send"] = 0 /\ overtakes'["normal"]["heartbeat"] = 0
        BY <1>r, <3>1 DEF Priorities
      <4>2. Bursts(0) = 0
        BY BurstFacts
      <4> QED BY <1>3, <4>1, <4>2 DEF NormalHistory
    <3>2. CASE left["normal"] # <<>>
      <4> DEFINE n == overtakes["normal"]["send"]
                 h == overtakes["normal"]["heartbeat"]
      <4>1. n \in Nat /\ h \in Nat /\ Bursts(n) \in Nat
        BY <1>t, BurstFacts DEF Priorities
      <4>2. n <= sendStreak /\ h <= Bursts(n) + hbStreak
        BY <1>h DEF NormalHistory
      <4>3. /\ overtakes'["normal"]["send"] = n + 1
            /\ overtakes'["normal"]["heartbeat"] = h
        BY <1>9, <1>o, <3>2 DEF Priorities
      <4>4. Bursts(n + 1) = Bursts(n) + MaxHeartbeatBurst
        BY <4>1, BurstFacts
      <4> HIDE DEF n, h
      <4>5. h <= Bursts(n) + MaxHeartbeatBurst /\ n + 1 <= sendStreak'
        BY <1>t, <2>1, <3>2, <4>1, <4>2
      <4>6. h <= Bursts(n + 1) + hbStreak'
        BY <1>t, <2>1, <4>1, <4>4, <4>5
      <4> QED
        BY <4>3, <4>5, <4>6 DEF NormalHistory
    <3> QED BY <3>1, <3>2, Zenon
  <2> QED BY <1>6, <1>7, <2>2, <2>3, <2>4, Zenon DEF IInv
<1>10. CASE p = "normal"
  <2>1. /\ hbStreak' = 0 /\ sendStreak' = 0
        /\ queues["heartbeat"] # <<>> => hbStreak = MaxHeartbeatBurst
        /\ queues["send"] # <<>> => sendStreak = MaxSendBurst
    <3>1. hbStreak' = 0 /\ sendStreak' = 0
      BY <1>10, <1>s DEF StreakAfter, SendStreakAfter
    <3>2. /\ queues["heartbeat"] # <<>> => ~(hbStreak < MaxHeartbeatBurst)
          /\ queues["send"] # <<>> => ~(sendStreak < MaxSendBurst)
      BY <1>10, <1>c DEF HeartbeatNext, SendNext
    <3> HIDE DEF left
    <3> QED BY <1>t, <3>1, <3>2
  <2>2. RenewalHistory'
    <3>1. CASE left["heartbeat"] = <<>>
      BY <1>r, <3>1 DEF RenewalHistory, Priorities
    <3>2. CASE left["heartbeat"] # <<>>
      <4>1. /\ overtakes'["heartbeat"]["normal"] = overtakes["heartbeat"]["normal"] + 1
            /\ overtakes'["heartbeat"]["send"] = overtakes["heartbeat"]["send"]
        BY <1>10, <1>o, <3>2 DEF Priorities
      <4>2. hbStreak = MaxHeartbeatBurst
        BY <1>2, <1>10, <2>1, <3>2 DEF Priorities
      <4> QED
        BY <1>h, <1>t, <2>1, <4>1, <4>2 DEF RenewalHistory, Priorities
    <3> QED BY <3>1, <3>2
  <2>3. SendHistory'
    <3>1. CASE left["send"] = <<>>
      BY <1>r, <2>1, <3>1 DEF SendHistory, Priorities
    <3>2. CASE left["send"] # <<>>
      <4>1. /\ overtakes'["send"]["normal"] = overtakes["send"]["normal"] + 1
            /\ overtakes'["send"]["heartbeat"] = overtakes["send"]["heartbeat"]
        BY <1>10, <1>o, <3>2 DEF Priorities
      <4>2. sendStreak = MaxSendBurst
        BY <1>2, <1>10, <2>1, <3>2 DEF Priorities
      <4> QED
        BY <1>h, <1>t, <2>1, <4>1, <4>2 DEF SendHistory, Priorities
    <3> QED BY <3>1, <3>2
  <2>4. NormalHistory'
    <3>1. overtakes'["normal"]["send"] = 0 /\ overtakes'["normal"]["heartbeat"] = 0
      BY <1>10, <1>r DEF Priorities
    <3>2. Bursts(0) = 0
      BY BurstFacts
    <3> QED BY <1>3, <3>1, <3>2 DEF NormalHistory
  <2> QED BY <1>6, <1>7, <2>2, <2>3, <2>4, Zenon DEF IInv
<1> QED BY <1>8, <1>9, <1>10 DEF Priorities

-----------------------------------------------------------------------------
(* The steps that move no streak and give no turn. *)
LEMMA HistoriesUnchanged ==
    ASSUME IInv, UNCHANGED <<hbStreak, sendStreak, overtakes>>
    PROVE  RenewalHistory' /\ SendHistory' /\ NormalHistory'
BY DEF IInv, RenewalHistory, SendHistory, NormalHistory

(* The inductive invariant holds in every reachable state of the lock. *)
THEOREM Inductive == Spec => []IInv
<1> USE LockConstants
<1>1. Init => IInv
  <2> SUFFICES ASSUME Init PROVE IInv
    OBVIOUS
  <2>1. TypeOK
    BY DEF Init, TypeOK, Empty, NoOvertakes, LockConstants
  <2>2. NextIsAwake
    BY DEF Init, NextIsAwake, Empty
  <2>3. RenewalHistory /\ SendHistory /\ NormalHistory
    BY BurstFacts
       DEF Init, RenewalHistory, SendHistory, NormalHistory, NoOvertakes, Priorities
  <2> QED BY <2>1, <2>2, <2>3 DEF IInv
<1>2. IInv /\ [Next]_vars => IInv'
  <2> SUFFICES ASSUME IInv, [Next]_vars PROVE IInv'
    OBVIOUS
  <2>0. TypeOK /\ NextIsAwake
    BY DEF IInv
  <2>1. ASSUME NEW t \in Threads, NEW p \in Priorities, Acquire(t, p) PROVE IInv'
    <3> DEFINE queues == [waiters EXCEPT ![p] = Append(@, t)]
    <3>1. queues \in [Priorities -> Seq(Threads)]
      <4>1. waiters[p] \in Seq(Threads) /\ Append(waiters[p], t) \in Seq(Threads)
        BY <2>0 DEF TypeOK
      <4> QED BY <2>0, <4>1 DEF TypeOK
    <3>2. CASE Turn(queues, p, t)
      BY <2>1, <3>1, <3>2, EnterKeeps DEF Acquire
    <3>3. CASE ~Turn(queues, p, t)
      <4>1. /\ waiters' = queues
            /\ UNCHANGED <<owner, depth, hbStreak, sendStreak, woken, overtakes>>
        BY <2>1, <3>3 DEF Acquire
      <4>2. TypeOK'
        BY <2>0, <3>1, <4>1 DEF TypeOK
      <4>3. NextIsAwake'
        <5>1. CASE owner # NoThread
          BY <4>1, <5>1 DEF NextIsAwake
        <5>2. CASE owner = NoThread
          <6>1. /\ queues[NextQueue(queues)] # <<>>
                /\ Head(queues[NextQueue(queues)]) \in woken
            BY <2>0, <3>3, <5>2, Arrival
          <6>2. NextQueue(waiters)' = NextQueue(queues)
            BY <4>1 DEF NextQueue, HeartbeatNext, SendNext
          <6> HIDE DEF queues
          <6> QED BY <4>1, <6>1, <6>2 DEF NextIsAwake
        <5> QED BY <5>1, <5>2
      <4> QED BY <4>1, <4>2, <4>3, HistoriesUnchanged DEF IInv
    <3> QED BY <3>2, <3>3
  <2>2. ASSUME NEW t \in Threads, NEW p \in Priorities, AcquireRefused(t, p) PROVE IInv'
    <3>1. TypeOK' /\ woken' = Queued(waiters')
      BY <2>0, <2>2 DEF AcquireRefused, TypeOK, Queued, QueuedIn
    <3>2. NextIsAwake'
      BY <2>0, <2>2, <3>1, NotifyAll DEF AcquireRefused
    <3> QED BY <2>2, <3>1, <3>2, HistoriesUnchanged DEF IInv, AcquireRefused
  <2>3. ASSUME NEW t \in Threads, Resume(t) PROVE IInv'
    <3>1. CASE \E p \in Priorities : Turn(waiters, p, t) /\ Enter(t, p, waiters)
      <4>1. PICK p \in Priorities : Turn(waiters, p, t) /\ Enter(t, p, waiters)
        BY <3>1
      <4> QED BY <2>0, <4>1, EnterKeeps DEF TypeOK
    <3>2. CASE \A p \in Priorities : ~Turn(waiters, p, t)
      <4>1. /\ woken' = woken \ {t}
            /\ UNCHANGED <<owner, depth, waiters, hbStreak, sendStreak, overtakes>>
        BY <2>3, <3>2 DEF Resume
      <4>2. TypeOK'
        BY <2>0, <4>1 DEF TypeOK
      <4>3. NextIsAwake'
        <5> SUFFICES ASSUME owner = NoThread, NEW p \in Priorities, waiters[p] # <<>>
                     PROVE  /\ waiters[NextQueue(waiters)] # <<>>
                            /\ Head(waiters[NextQueue(waiters)]) \in woken \ {t}
          BY <4>1 DEF NextIsAwake, NextQueue, HeartbeatNext, SendNext
        <5>1. /\ NextQueue(waiters) \in Priorities
              /\ waiters[NextQueue(waiters)] # <<>>
          BY <2>0, TurnExists
        <5>2. Head(waiters[NextQueue(waiters)]) \in woken
          BY <2>0 DEF NextIsAwake
        <5>3. Head(waiters[NextQueue(waiters)]) # t
          BY <3>2, <5>1 DEF Turn
        <5> QED BY <5>1, <5>2, <5>3
      <4> QED BY <4>1, <4>2, <4>3, HistoriesUnchanged DEF IInv
    <3> QED BY <2>3, <3>1, <3>2 DEF Resume
  <2>4. ASSUME NEW t \in Threads, NEW p \in Priorities, GiveUp(t, p) PROVE IInv'
    <3>1. PICK i \in DOMAIN waiters[p] :
            /\ waiters' = [waiters EXCEPT ![p] = RemoveAt(@, i)]
            /\ woken' = Queued(waiters')
            /\ overtakes' = IF i = 1 THEN [overtakes EXCEPT ![p] = NoOvertakes]
                            ELSE overtakes
            /\ UNCHANGED <<owner, depth, hbStreak, sendStreak>>
      BY <2>4 DEF GiveUp
    <3>2. RemoveAt(waiters[p], i) \in Seq(Threads)
      BY <2>0, Removal DEF TypeOK
    <3>3. TypeOK'
      <4>1. overtakes' \in [Priorities -> [Priorities -> Nat]]
        BY <2>0, <3>1 DEF TypeOK, NoOvertakes
      <4>2. waiters' \in [Priorities -> Seq(Threads)]
        BY <2>0, <3>1, <3>2 DEF TypeOK
      <4>3. woken' \subseteq Threads
        BY <3>1 DEF Queued
      <4> QED BY <2>0, <3>1, <4>1, <4>2, <4>3 DEF TypeOK
    <3>4. NextIsAwake'
      BY <2>0, <3>1, <3>3, NotifyAll
    <3>5. \A q \in Priorities : \/ overtakes'[q] = overtakes[q]
                                \/ \A r \in Priorities : overtakes'[q][r] = 0
      BY <2>0, <3>1 DEF TypeOK, NoOvertakes
    <3>s. UNCHANGED <<hbStreak, sendStreak>> /\ hbStreak \in Nat
      BY <2>0, <3>1, LockConstants DEF TypeOK
    <3>6. RenewalHistory' /\ SendHistory'
      <4>h. RenewalHistory /\ SendHistory
        BY DEF IInv
      <4>1. RenewalHistory'
        <5>1. CASE overtakes'["heartbeat"] = overtakes["heartbeat"]
          BY <4>h, <3>s, <5>1 DEF RenewalHistory
        <5>2. CASE \A r \in Priorities : overtakes'["heartbeat"][r] = 0
          BY <5>2 DEF RenewalHistory, Priorities
        <5> QED BY <3>5, <5>1, <5>2 DEF Priorities
      <4>2. SendHistory'
        <5>1. CASE overtakes'["send"] = overtakes["send"]
          BY <4>h, <3>s, <5>1 DEF SendHistory
        <5>2. CASE \A r \in Priorities : overtakes'["send"][r] = 0
          BY <3>s, <5>2 DEF SendHistory, Priorities
        <5> QED BY <3>5, <5>1, <5>2 DEF Priorities
      <4> QED BY <4>1, <4>2
    <3>7. NormalHistory'
      <4>1. CASE overtakes'["normal"] = overtakes["normal"]
        BY <3>1, <4>1 DEF IInv, NormalHistory
      <4>2. CASE \A r \in Priorities : overtakes'["normal"][r] = 0
        <5>1. Bursts(0) = 0
          BY BurstFacts
        <5>2. overtakes'["normal"]["send"] = 0 /\ overtakes'["normal"]["heartbeat"] = 0
          BY <4>2 DEF Priorities
        <5>3. sendStreak' \in Nat /\ hbStreak' \in Nat
          BY <2>0, <3>s, LockConstants DEF TypeOK
        <5> QED BY <5>1, <5>2, <5>3 DEF NormalHistory
      <4> QED BY <3>5, <4>1, <4>2 DEF Priorities
    <3> QED BY <3>3, <3>4, <3>6, <3>7 DEF IInv
  <2>5. ASSUME NEW t \in Threads, Reenter(t) \/ ReleaseInner(t) PROVE IInv'
    <3>1. owner = t /\ depth' \in Nat
          /\ UNCHANGED <<owner, waiters, hbStreak, sendStreak, woken, overtakes>>
      BY <2>0, <2>5 DEF Reenter, ReleaseInner, TypeOK
    <3>2. TypeOK'
      BY <2>0, <3>1 DEF TypeOK
    <3>3. NextIsAwake'
      BY <3>1 DEF NextIsAwake, LockConstants
    <3> QED BY <3>1, <3>2, <3>3, HistoriesUnchanged DEF IInv
  <2>6. ASSUME NEW t \in Threads, Release(t) PROVE IInv'
    <3>1. TypeOK' /\ woken' = Queued(waiters')
      BY <2>0, <2>6 DEF Release, TypeOK, Queued, QueuedIn
    <3>2. NextIsAwake'
      BY <2>0, <2>6, <3>1, NotifyAll DEF Release
    <3> QED BY <2>6, <3>1, <3>2, HistoriesUnchanged DEF IInv, Release
  <2>7. CASE UNCHANGED vars
    <3>1. TypeOK' /\ NextIsAwake'
      BY <2>0, <2>7 DEF vars, TypeOK, NextIsAwake, NextQueue, HeartbeatNext, SendNext
    <3> QED BY <2>7, <3>1, HistoriesUnchanged DEF IInv, vars
  <2> QED BY <2>1, <2>2, <2>3, <2>4, <2>5, <2>6, <2>7 DEF Next
<1> QED BY <1>1, <1>2, PTL DEF Spec

-----------------------------------------------------------------------------
(* What the invariant gives. *)

(* Every variable keeps its type: in particular neither streak leaves its bound. *)
THEOREM TypeCorrect == Spec => []TypeOK
BY Inductive, PTL DEF IInv

(* No arrival, withdrawal or release leaves the lock free with only sleepers. *)
THEOREM NoLostWakeup == Spec => []NextIsAwake
BY Inductive, PTL DEF IInv

(* A queued renewal lets one turn pass at most. *)
THEOREM RenewalsArePrompt == Spec => []RenewalTurn
<1>1. RenewalHistory => RenewalTurn
  BY DEF RenewalHistory, RenewalTurn
<1>2. IInv => RenewalHistory
  BY Zenon DEF IInv
<1> QED BY Inductive, <1>1, <1>2, PTL

(* A queued send lets two bursts of renewals and one ordinary writer pass. *)
THEOREM SendsGetATurn == Spec => []SendTurn
<1>1. IInv => SendTurn
  <2> SUFFICES ASSUME IInv PROVE SendTurn
    OBVIOUS
  <2> DEFINE n == overtakes["send"]["normal"]
             h == overtakes["send"]["heartbeat"]
  <2>1. n \in Nat /\ h \in Nat
    BY DEF IInv, TypeOK, Priorities
  <2>2. MaxHeartbeatBurst \in Nat /\ hbStreak \in Nat /\ hbStreak <= MaxHeartbeatBurst
    BY LockConstants DEF IInv, TypeOK
  <2>3. (n = 0 /\ h <= hbStreak) \/ (n = 1 /\ h <= MaxHeartbeatBurst + hbStreak)
    BY DEF IInv, SendHistory
  <2> HIDE DEF n, h
  <2>4. h <= 2 * MaxHeartbeatBurst /\ n <= 1
    BY <2>1, <2>2, <2>3
  <2> QED  BY <2>4 DEF SendTurn, n, h
<1> QED BY Inductive, <1>1, PTL

(* A queued ordinary writer lets MaxSendBurst + 1 bursts of renewals pass. *)
THEOREM OrdinaryWritersGetATurn == Spec => []NormalTurn
<1>1. IInv => NormalTurn
  <2> SUFFICES ASSUME IInv PROVE NormalTurn
    OBVIOUS
  <2> DEFINE n == overtakes["normal"]["send"]
             h == overtakes["normal"]["heartbeat"]
             M == MaxHeartbeatBurst
             rest == MaxSendBurst - n
  <2>1. /\ n \in Nat /\ h \in Nat /\ M \in Nat /\ MaxSendBurst \in Nat
        /\ n <= MaxSendBurst /\ h <= Bursts(n) + hbStreak
        /\ hbStreak \in Nat /\ hbStreak <= M
    <3>1. n \in Nat /\ h \in Nat
      BY DEF IInv, TypeOK, Priorities
    <3>2. /\ M \in Nat /\ MaxSendBurst \in Nat
          /\ hbStreak \in 0..M /\ sendStreak \in 0..MaxSendBurst
      BY LockConstants DEF IInv, TypeOK
    <3>3. n <= sendStreak /\ h <= Bursts(n) + hbStreak
      BY DEF IInv, NormalHistory
    <3> HIDE DEF n, h, M
    <3> QED  BY <3>1, <3>2, <3>3
  <2>2. rest \in Nat /\ M * rest \in Nat
    BY <2>1
  <2>3. M * (MaxSendBurst + 1) = Bursts(n) + M * rest + M /\ Bursts(n) \in Nat
    BY <2>1 DEF Bursts
  <2>4. h <= M * (MaxSendBurst + 1)
    <3> DEFINE k == M * rest
    <3>1. M * (MaxSendBurst + 1) = Bursts(n) + k + M /\ k \in Nat /\ Bursts(n) \in Nat
      BY <2>2, <2>3
    <3> HIDE DEF n, h, M, rest, k
    <3> QED BY <2>1, <3>1
  <2> QED BY <2>1, <2>4 DEF NormalTurn
<1> QED BY Inductive, <1>1, PTL

(* No priority waits without a bound: the run's property, from its three parts. *)
THEOREM OvertakingIsBounded == Spec => []BoundedOvertaking
<1>1. RenewalTurn /\ SendTurn /\ NormalTurn => BoundedOvertaking
  BY DEF BoundedOvertaking
<1> QED
  BY RenewalsArePrompt, SendsGetATurn, OrdinaryWritersGetATurn, <1>1, PTL
=============================================================================
