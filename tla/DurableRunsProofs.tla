------------------------- MODULE DurableRunsProofs -------------------------
(***************************************************************************)
(* Proofs about DurableRuns, for every set of roots, workers, identities   *)
(* and days and every value of the bounds.                                 *)
(***************************************************************************)
EXTENDS DurableRuns, SequenceTheorems, TLAPS

\* A row after every transaction: the typed row whose two tables agree.
RowOK(row) ==
    /\ row \in Row
    /\ row.owner = Len(row.attempts)
    /\ RunningAttempts(row) = IF row.status = "running" THEN {row.owner} ELSE {}
    /\ IF row.status = "absent" THEN row = AbsentRow ELSE row.identity \in Identities

\* What a worker remembers: its attempt exists, no other worker has it, and
\* while that attempt owns the run the remembered checkpoint is the row's.
ClaimOK(w) ==
    claim[w] # NoClaim =>
        LET row == run[claim[w].run]
        IN  /\ claim[w].attempt \in 1..Len(row.attempts)
            /\ (row.status = "running" /\ row.owner = claim[w].attempt /\ view[w] # Unread)
                 => view[w] = row.items

ClaimsDiffer ==
    \A v, w \in Workers :
        v # w /\ claim[v] # NoClaim /\ claim[v].run = claim[w].run
            => claim[v].attempt # claim[w].attempt

IInv ==
    /\ TypeOK
    /\ \A r \in Runs : RowOK(run[r])
    /\ \A w \in Workers : ClaimOK(w)
    /\ ClaimsDiffer

-----------------------------------------------------------------------------
(* Lemmas about the transactions' effect on one row. *)

LEMMA RowAttempts ==
    ASSUME NEW row \in Row
    PROVE  /\ row.attempts \in Seq(Attempt)
           /\ Len(row.attempts) \in Nat
           /\ DOMAIN row.attempts = 1..Len(row.attempts)
           /\ \A n \in 1..Len(row.attempts) : row.attempts[n] \in Attempt
  BY LenProperties, ElementOfSeq DEF Row

\* A claim appends the one running attempt and leaves the checkpoint alone.
LEMMA ClaimedRow ==
    ASSUME NEW row \in Row, NEW t \in Nat,
           row.owner = Len(row.attempts),
           RunningAttempts(row) = {},
           row.identity \in Identities
    PROVE  LET new == Claimed(row, t)
           IN  /\ RowOK(new)
               /\ new.status = "running"
               /\ new.owner = Len(row.attempts) + 1
               /\ Len(new.attempts) = Len(row.attempts) + 1
               /\ \A n \in 1..Len(row.attempts) : new.attempts[n] = row.attempts[n]
               /\ new.items = row.items
               /\ new.complete = row.complete
               /\ new.identity = row.identity
<1> DEFINE a == [status |-> "running", lease |-> t + LeaseSeconds]
           s == row.attempts
           new == Claimed(row, t)
<1>1. a \in Attempt
  BY BoundsAreNaturals DEF Attempt, AttemptStatus
<1>2. /\ s \in Seq(Attempt) /\ Len(s) \in Nat
      /\ DOMAIN s = 1..Len(s)
  BY RowAttempts
<1>3. /\ Append(s, a) \in Seq(Attempt)
      /\ Len(Append(s, a)) = Len(s) + 1
      /\ \A n \in 1..Len(s) : Append(s, a)[n] = s[n]
      /\ Append(s, a)[Len(s) + 1] = a
      /\ DOMAIN Append(s, a) = 1..(Len(s) + 1)
  BY <1>1, <1>2
<1>4. /\ new.status = "running" /\ new.owner = Len(s) + 1
      /\ new.attempts = Append(s, a)
      /\ new.items = row.items /\ new.complete = row.complete
      /\ new.identity = row.identity
  BY DEF Claimed, Row
<1>5. new \in Row
  <2> HIDE DEF a, s
  <2>1. new = [row EXCEPT !.status = "running", !.owner = Len(s) + 1,
                          !.attempts = Append(s, a)]
    BY DEF Claimed, a, s
  <2>2. Len(s) + 1 \in Nat
    BY <1>2
  <2> HIDE DEF new
  <2> QED  BY <1>3, <2>1, <2>2 DEF Row, RunStatus
<1>6. RunningAttempts(new) = {new.owner}
  <2>1. \A n \in 1..Len(s) : s[n].status # "running"
    BY <1>2 DEF RunningAttempts
  <2> HIDE DEF new
  <2>2. \A n \in 1..(Len(s) + 1) :
          Append(s, a)[n].status = "running" <=> n = Len(s) + 1
    <3> TAKE n \in 1..(Len(s) + 1)
    <3>1. CASE n \in 1..Len(s)
      BY <2>1, <1>2, <1>3, <3>1
    <3>2. CASE n = Len(s) + 1
      BY <1>3, <3>2
    <3> QED  BY <3>1, <3>2, <1>2
  <2> QED  BY <2>2, <1>2, <1>3, <1>4 DEF RunningAttempts
<1>7. RowOK(new)
  BY <1>2, <1>3, <1>4, <1>5, <1>6 DEF RowOK
<1> QED  BY <1>2, <1>3, <1>4, <1>7

\* Renewing, closing or checkpointing the running attempt keeps a row sound.
LEMMA RenewedRow ==
    ASSUME NEW row, RowOK(row), NEW n \in RunningAttempts(row), NEW t \in Nat
    PROVE  LET new == Renewed(row, n, t)
           IN  /\ RowOK(new)
               /\ new.status = row.status
               /\ new.owner = row.owner
               /\ Len(new.attempts) = Len(row.attempts)
               /\ \A m \in 1..Len(row.attempts) : m # n => new.attempts[m] = row.attempts[m]
               /\ RunningAttempts(new) = RunningAttempts(row)
               /\ new.items = row.items
               /\ new.complete = row.complete
               /\ new.identity = row.identity
<1> DEFINE s == row.attempts
           a == [s[n] EXCEPT !.lease = t + LeaseSeconds]
           new == Renewed(row, n, t)
<1>1. /\ row \in Row
      /\ s \in Seq(Attempt) /\ Len(s) \in Nat /\ DOMAIN s = 1..Len(s)
      /\ n \in 1..Len(s) /\ s[n] \in Attempt /\ s[n].status = "running"
  BY RowAttempts DEF RowOK, RunningAttempts
<1>2. a \in Attempt /\ a.status = "running"
  <2>1. t + LeaseSeconds \in Nat
    BY BoundsAreNaturals
  <2>2. \A x \in Attempt, l \in Nat :
           /\ [x EXCEPT !.lease = l] \in Attempt
           /\ [x EXCEPT !.lease = l].status = x.status
    BY DEF Attempt
  <2> HIDE DEF s
  <2> QED  BY <1>1, <2>1, <2>2
<1>3. /\ [s EXCEPT ![n] = a] \in Seq(Attempt)
      /\ Len([s EXCEPT ![n] = a]) = Len(s)
      /\ DOMAIN [s EXCEPT ![n] = a] = 1..Len(s)
      /\ \A m \in 1..Len(s) : [s EXCEPT ![n] = a][m] = IF m = n THEN a ELSE s[m]
  <2> HIDE DEF a, s
  <2> QED  BY <1>1, <1>2, ExceptSeq
<1>4. /\ new.status = row.status /\ new.owner = row.owner
      /\ new.attempts = [s EXCEPT ![n] = a]
      /\ new.items = row.items /\ new.complete = row.complete
      /\ new.identity = row.identity
  BY <1>1 DEF Renewed, Row
<1>5. new \in Row
  <2> HIDE DEF a, s
  <2>1. new = [row EXCEPT !.attempts = [s EXCEPT ![n] = a]]
    BY <1>1 DEF Renewed, Row, a, s
  <2> QED  BY <1>1, <1>3, <2>1 DEF Row
<1> HIDE DEF new, a, s
<1>6. RunningAttempts(new) = RunningAttempts(row)
  BY <1>1, <1>2, <1>3, <1>4 DEF RunningAttempts, s
<1>7. new.status # "absent"
  BY <1>4, <1>1 DEF RowOK, RunningAttempts
<1>8. RowOK(new)
  BY <1>1, <1>3, <1>4, <1>5, <1>6, <1>7 DEF RowOK, s
<1> QED  BY <1>1, <1>3, <1>4, <1>6, <1>8 DEF s, new

(* Closing a running row ends its attempt and leaves a row of the right shape. *)
LEMMA ClosedRow ==
    ASSUME NEW row, RowOK(row), NEW n \in RunningAttempts(row),
           NEW status \in TerminalStatus
    PROVE  LET new == Closed(row, n, status)
           IN  /\ RowOK(new)
               /\ new.status = status
               /\ new.owner = row.owner
               /\ Len(new.attempts) = Len(row.attempts)
               /\ \A m \in 1..Len(row.attempts) : m # n => new.attempts[m] = row.attempts[m]
               /\ new.items = row.items
               /\ new.complete = row.complete
               /\ new.identity = row.identity
<1> DEFINE s == row.attempts
           a == [s[n] EXCEPT !.status = status]
           new == Closed(row, n, status)
<1>1. /\ row \in Row
      /\ s \in Seq(Attempt) /\ Len(s) \in Nat /\ DOMAIN s = 1..Len(s)
      /\ n \in 1..Len(s) /\ s[n] \in Attempt /\ s[n].status = "running"
      /\ RunningAttempts(row) = {n}
  BY RowAttempts DEF RowOK, RunningAttempts
<1>2. a \in Attempt /\ a.status = status /\ status # "running"
      /\ status # "absent" /\ status \in RunStatus
  BY <1>1 DEF Attempt, AttemptStatus, TerminalStatus, RunStatus
<1>3. /\ [s EXCEPT ![n] = a] \in Seq(Attempt)
      /\ Len([s EXCEPT ![n] = a]) = Len(s)
      /\ DOMAIN [s EXCEPT ![n] = a] = 1..Len(s)
      /\ \A m \in 1..Len(s) : [s EXCEPT ![n] = a][m] = IF m = n THEN a ELSE s[m]
  <2> HIDE DEF a, s
  <2> QED  BY <1>1, <1>2, ExceptSeq
<1>4. /\ new.status = status /\ new.owner = row.owner
      /\ new.attempts = [s EXCEPT ![n] = a]
      /\ new.items = row.items /\ new.complete = row.complete
      /\ new.identity = row.identity
  BY <1>1 DEF Closed, Row
<1>5. new \in Row
  <2> HIDE DEF a, s
  <2>1. new = [row EXCEPT !.status = status, !.attempts = [s EXCEPT ![n] = a]]
    BY <1>1 DEF Closed, Row, a, s
  <2> HIDE DEF new
  <2> QED  BY <1>1, <1>2, <1>3, <2>1 DEF Row
<1> HIDE DEF new, a, s
<1>6. RunningAttempts(new) = {}
  <2>1. \A m \in 1..Len(s) : m # n => s[m].status # "running"
    BY <1>1 DEF RunningAttempts, s
  <2> QED  BY <2>1, <1>2, <1>3, <1>4 DEF RunningAttempts
<1>7. row.identity \in Identities
  BY <1>1 DEF RowOK, RunningAttempts, AbsentRow, s
<1>8. RowOK(new)
  BY <1>1, <1>2, <1>3, <1>4, <1>5, <1>6, <1>7 DEF RowOK, s
<1> QED  BY <1>1, <1>3, <1>4, <1>8 DEF s, new

(* A checkpoint keeps the shape of a running row. *)
LEMMA CheckpointedRow ==
    ASSUME NEW row, RowOK(row), row.status # "absent",
           NEW items \in Nat, NEW complete \in BOOLEAN
    PROVE  LET new == Checkpointed(row, items, complete)
           IN  /\ RowOK(new)
               /\ new.status = row.status
               /\ new.owner = row.owner
               /\ new.attempts = row.attempts
               /\ RunningAttempts(new) = RunningAttempts(row)
               /\ new.items = items
               /\ new.complete = complete
               /\ new.identity = row.identity
<1> DEFINE new == Checkpointed(row, items, complete)
<1>1. row \in Row
  BY DEF RowOK
<1>2. /\ new \in Row /\ new.status = row.status /\ new.owner = row.owner
      /\ new.attempts = row.attempts /\ new.items = items
      /\ new.complete = complete /\ new.identity = row.identity
  BY <1>1 DEF Checkpointed, Row
<1> HIDE DEF new
<1>3. RunningAttempts(new) = RunningAttempts(row)
  BY <1>2 DEF RunningAttempts
<1>4. RowOK(new)
  BY <1>2, <1>3 DEF RowOK
<1> QED  BY <1>2, <1>3, <1>4 DEF new

(* A finished row is closed and carries the outcome. *)
LEMMA FinishedRow ==
    ASSUME NEW row, RowOK(row), NEW n \in RunningAttempts(row),
           NEW status \in TerminalStatus, NEW resumeAt \in Nat
    PROVE  LET new == Finished(row, n, status, resumeAt)
           IN  /\ RowOK(new)
               /\ new.status = status
               /\ new.owner = row.owner
               /\ Len(new.attempts) = Len(row.attempts)
               /\ \A m \in 1..Len(row.attempts) : m # n => new.attempts[m] = row.attempts[m]
               /\ new.items = row.items
               /\ new.complete = row.complete
               /\ new.identity = row.identity
<1> DEFINE c == Closed(row, n, status)
           new == Finished(row, n, status, resumeAt)
           at == IF status = "partial" THEN resumeAt ELSE NoTime
<1>1. RowOK(c) /\ c \in Row /\ c.status = status
  BY ClosedRow DEF RowOK
<1>2. new = [c EXCEPT !.resumeAt = at] /\ at \in Nat \cup {NoTime}
  BY DEF Finished
<1> HIDE DEF c, at, new
<1>3. /\ new \in Row /\ new.status = c.status /\ new.owner = c.owner
      /\ new.attempts = c.attempts /\ new.items = c.items
      /\ new.complete = c.complete /\ new.identity = c.identity
  BY <1>1, <1>2 DEF Row
<1>4. RowOK(new)
  BY <1>1, <1>3 DEF RowOK, RunningAttempts, TerminalStatus
<1> QED  BY <1>1, <1>3, <1>4, ClosedRow DEF new, c


-----------------------------------------------------------------------------
(* Steps. *)

\* What a transaction preserves of a row: its attempts, its progress, its end.
RowKept(old, new) ==
    /\ Len(new.attempts) >= Len(old.attempts)
    /\ \A n \in 1..Len(old.attempts) :
          old.attempts[n].status # "running" => new.attempts[n] = old.attempts[n]
    /\ old.status # "absent" =>
          /\ new.items >= old.items
          /\ old.complete => new.complete /\ new.items = old.items
          /\ new.identity = old.identity
    /\ old.status \in {"succeeded", "failed"} => new = old

AllKept == \A r \in Runs : RowKept(run[r], run'[r])

(* An unchanged row keeps its progress and its history. *)
LEMMA RowKeptReflexive ==
    ASSUME NEW row \in Row
    PROVE  RowKept(row, row)
  BY RowAttempts DEF RowKept, Row

\* A transaction that appends no attempt keeps the invariant if every row stays
\* sound and a worker that still owns its run has its own progress in view.
LEMMA RowsStep ==
    ASSUME IInv,
           \A r \in Runs : /\ RowOK(run'[r])
                           /\ Len(run'[r].attempts) = Len(run[r].attempts),
           run' \in [Runs -> Row],
           claim' \in [Workers -> Claim \cup {NoClaim}],
           view' \in [Workers -> Nat \cup {Unread}],
           now' \in Nat,
           \A w \in Workers : claim'[w] \in {claim[w], NoClaim},
           \A w \in Workers :
              (claim'[w] # NoClaim /\ run'[claim[w].run].status = "running"
               /\ run'[claim[w].run].owner = claim[w].attempt /\ view'[w] # Unread)
                 => view'[w] = run'[claim[w].run].items
    PROVE  IInv'
<1>1. TypeOK'
  BY DEF TypeOK
<1>2. \A r \in Runs : RowOK(run[r])'
  OBVIOUS
<1>3. \A w \in Workers : ClaimOK(w)'
  <2> SUFFICES ASSUME NEW w \in Workers, claim'[w] # NoClaim
               PROVE  LET row == run'[claim'[w].run]
                      IN  /\ claim'[w].attempt \in 1..Len(row.attempts)
                          /\ (row.status = "running" /\ row.owner = claim'[w].attempt
                              /\ view'[w] # Unread) => view'[w] = row.items
    BY DEF ClaimOK
  <2>1. claim'[w] = claim[w] /\ claim[w].run \in Runs
    BY DEF IInv, TypeOK, Claim
  <2>2. claim[w].attempt \in 1..Len(run[claim[w].run].attempts)
    BY <2>1 DEF IInv, ClaimOK
  <2> QED  BY <2>1, <2>2
<1>4. ClaimsDiffer'
  <2> SUFFICES ASSUME NEW v \in Workers, NEW w \in Workers,
                      v # w, claim'[v] # NoClaim, claim'[v].run = claim'[w].run
               PROVE  claim'[v].attempt # claim'[w].attempt
    BY DEF ClaimsDiffer
  <2>1. claim'[v] = claim[v] /\ claim[v] \in Claim
    BY DEF IInv, TypeOK
  <2>2. CASE claim'[w] = claim[w]
    BY <2>1, <2>2 DEF IInv, ClaimsDiffer
  <2>3. CASE claim'[w] = NoClaim
    <3>1. claim'[v].attempt \in 1..Len(run[claim[v].run].attempts)
      BY <2>1 DEF IInv, ClaimOK
    <3> QED  BY <3>1, <2>3 DEF NoClaim
  <2> QED  BY <2>2, <2>3
<1> QED  BY <1>1, <1>2, <1>3, <1>4 DEF IInv

\* A claim: attempt Len + 1 of row r, which is the row found or a new one.
LEMMA TakeStep ==
    ASSUME IInv, NEW w \in Workers, NEW r \in Runs, NEW row \in Row,
           row.owner = Len(row.attempts),
           RunningAttempts(row) = {},
           row.identity \in Identities,
           row.attempts = run[r].attempts,
           run[r].status \notin {"running", "succeeded", "failed"},
           run[r].status # "absent" => row = run[r],
           claim[w] = NoClaim,
           Take(w, r, Claimed(row, now))
    PROVE  IInv' /\ AllKept
<1> DEFINE new == Claimed(row, now)
           n == Len(row.attempts) + 1
<1>1. now \in Nat /\ r \in Runs /\ run \in [Runs -> Row]
  BY DEF IInv, TypeOK
<1>2. /\ RowOK(new) /\ new.status = "running" /\ new.owner = n
      /\ Len(new.attempts) = n /\ new.items = row.items
      /\ new.complete = row.complete /\ new.identity = row.identity
      /\ \A m \in 1..Len(row.attempts) : new.attempts[m] = row.attempts[m]
  BY <1>1, ClaimedRow
<1>3. Len(row.attempts) \in Nat
  BY RowAttempts
<1> DEFINE c == [run |-> r, attempt |-> n, identity |-> row.identity]
<1>4. /\ run' = [run EXCEPT ![r] = new]
      /\ claim' = [claim EXCEPT ![w] = c]
      /\ view' = [view EXCEPT ![w] = Unread]
      /\ now' = now
  BY <1>2 DEF Take
<1>5. c \in Claim /\ c # NoClaim
  BY <1>3, NoIdentityIsNone DEF Claim, NoClaim
<1> HIDE DEF new, n, c
<1>6. TypeOK'
  BY <1>1, <1>2, <1>4, <1>5 DEF IInv, TypeOK, RowOK
<1>7. \A q \in Runs : RowOK(run[q])'
  BY <1>1, <1>2, <1>4 DEF IInv
<1>8. \A v \in Workers : v # w => claim'[v] = claim[v] /\ view'[v] = view[v]
  BY <1>4 DEF IInv, TypeOK
<1>9. claim'[w] = c /\ view'[w] = Unread
  BY <1>4 DEF IInv, TypeOK
<1>10. \A v \in Workers : v # w /\ claim[v] # NoClaim /\ claim[v].run = r
                             => claim[v].attempt \in 1..Len(row.attempts)
  BY DEF IInv, ClaimOK
<1>11. \A v \in Workers : ClaimOK(v)'
  <2> SUFFICES ASSUME NEW v \in Workers, claim'[v] # NoClaim
               PROVE  LET q == run'[claim'[v].run]
                      IN  /\ claim'[v].attempt \in 1..Len(q.attempts)
                          /\ (q.status = "running" /\ q.owner = claim'[v].attempt
                              /\ view'[v] # Unread) => view'[v] = q.items
    BY DEF ClaimOK
  <2>1. CASE v = w
    BY <2>1, <1>9, <1>1, <1>2, <1>3, <1>4 DEF c, n
  <2>2. CASE v # w /\ claim[v].run = r
    <3>1. claim'[v] = claim[v] /\ claim[v].attempt \in 1..Len(row.attempts)
      BY <1>8, <1>10, <2>2
    <3>2. run'[r] = new /\ claim[v].attempt # n /\ claim[v].attempt \in 1..n
      BY <1>1, <1>3, <1>4, <3>1 DEF n
    <3> QED  BY <1>2, <2>2, <3>1, <3>2
  <2>3. CASE v # w /\ claim[v].run # r
    <3>1. claim'[v] = claim[v] /\ claim[v].run \in Runs
      BY <1>8, <2>3 DEF IInv, TypeOK, Claim
    <3>2. run'[claim[v].run] = run[claim[v].run]
      BY <1>1, <1>4, <2>3, <3>1
    <3> QED  BY <1>8, <2>3, <3>1, <3>2 DEF IInv, ClaimOK
  <2> QED  BY <2>1, <2>2, <2>3
<1>12. ClaimsDiffer'
  <2> SUFFICES ASSUME NEW v \in Workers, NEW u \in Workers,
                      v # u, claim'[v] # NoClaim, claim'[v].run = claim'[u].run
               PROVE  claim'[v].attempt # claim'[u].attempt
    BY DEF ClaimsDiffer
  <2>1. CASE v # w /\ u # w
    BY <2>1, <1>8 DEF IInv, ClaimsDiffer
  <2>2. CASE v = w
    <3>1. claim'[u] = claim[u] /\ claim[u].run = r /\ claim'[v].attempt = n
      BY <2>2, <1>8, <1>9 DEF c
    <3>2. claim[u] # NoClaim => claim[u].attempt \in 1..Len(row.attempts)
      BY <3>1, <1>10, <2>2
    <3>3. n # 0 /\ n \notin 1..Len(row.attempts)
      BY <1>3 DEF n
    <3> QED  BY <3>1, <3>2, <3>3 DEF NoClaim
  <2>3. CASE u = w
    <3>1. claim'[v] = claim[v] /\ claim[v].run = r /\ claim'[u].attempt = n
      BY <2>3, <1>8, <1>9 DEF c
    <3>2. claim[v].attempt \in 1..Len(row.attempts)
      BY <3>1, <1>10, <2>3
    <3> QED  BY <3>1, <3>2, <1>3 DEF n
  <2> QED  BY <2>1, <2>2, <2>3
<1>13. AllKept
  <2> SUFFICES ASSUME NEW q \in Runs PROVE RowKept(run[q], run'[q])
    BY DEF AllKept
  <2>1. CASE q # r
    BY <2>1, <1>1, <1>4, RowKeptReflexive
  <2>2. CASE q = r
    <3>1. run'[q] = new
      BY <2>2, <1>1, <1>4
    <3>2. run[r].items \in Nat
      BY <1>1 DEF Row
    <3>3. /\ run[r].status # "absent" =>
                 /\ new.items >= run[r].items /\ new.items = run[r].items
                 /\ run[r].complete => new.complete
                 /\ new.identity = run[r].identity
          /\ run[r].status \notin {"succeeded", "failed"}
      BY <1>2, <3>2
    <3>4. /\ Len(new.attempts) >= Len(run[r].attempts)
          /\ \A m \in 1..Len(run[r].attempts) : new.attempts[m] = run[r].attempts[m]
      BY <1>2, <1>3 DEF n
    <3>5. RowKept(run[r], new)
      BY <3>3, <3>4 DEF RowKept
    <3> QED  BY <2>2, <3>1, <3>5, Zenon
  <2> QED  BY <2>1, <2>2, Zenon
<1> QED  BY <1>6, <1>7, <1>11, <1>12, <1>13, Zenon DEF IInv


\* One row changes, its attempts stay as many, and the worker that owns the row
\* (if any still does) has its progress in view.
LEMMA OneRowStep ==
    ASSUME IInv, NEW r \in Runs, NEW new,
           RowOK(new),
           Len(new.attempts) = Len(run[r].attempts),
           RowKept(run[r], new),
           run' = [run EXCEPT ![r] = new],
           claim' \in [Workers -> Claim \cup {NoClaim}],
           view' \in [Workers -> Nat \cup {Unread}],
           now' = now,
           \A w \in Workers : claim'[w] \in {claim[w], NoClaim},
           \A w \in Workers : claim'[w] # NoClaim =>
              IF claim[w].run = r
              THEN (new.status = "running" /\ new.owner = claim[w].attempt
                    /\ view'[w] # Unread) => view'[w] = new.items
              ELSE view'[w] = view[w]
    PROVE  IInv' /\ AllKept
<1>1. run \in [Runs -> Row] /\ now \in Nat /\ new \in Row
  BY DEF IInv, TypeOK, RowOK
<1>2. \A q \in Runs : run'[q] = IF q = r THEN new ELSE run[q]
  BY <1>1
<1>3. run' \in [Runs -> Row]
  BY <1>1
<1>4. \A q \in Runs : RowOK(run'[q]) /\ Len(run'[q].attempts) = Len(run[q].attempts)
  BY <1>2 DEF IInv
<1>5. \A w \in Workers : claim'[w] # NoClaim =>
         claim[w] # NoClaim /\ claim[w].run \in Runs
  BY DEF IInv, TypeOK, Claim
<1>6. \A w \in Workers :
        (claim'[w] # NoClaim /\ run'[claim[w].run].status = "running"
         /\ run'[claim[w].run].owner = claim[w].attempt /\ view'[w] # Unread)
           => view'[w] = run'[claim[w].run].items
  <2> SUFFICES ASSUME NEW w \in Workers, claim'[w] # NoClaim,
                      run'[claim[w].run].status = "running",
                      run'[claim[w].run].owner = claim[w].attempt, view'[w] # Unread
               PROVE  view'[w] = run'[claim[w].run].items
    OBVIOUS
  <2>1. CASE claim[w].run = r
    BY <2>1, <1>2
  <2>2. CASE claim[w].run # r
    <3>1. run'[claim[w].run] = run[claim[w].run] /\ view'[w] = view[w]
      BY <2>2, <1>2, <1>5
    <3> QED  BY <3>1, <1>5 DEF IInv, ClaimOK
  <2> QED  BY <2>1, <2>2
<1>7. IInv'
  BY <1>1, <1>3, <1>4, <1>6, RowsStep
<1>8. AllKept
  BY <1>1, <1>2, RowKeptReflexive DEF AllKept
<1> QED  BY <1>7, <1>8

(* A new row has the type of a run. *)
LEMMA NewRowType ==
    ASSUME NEW id \in Identities, NEW d \in Days \cup {NoTime}, NEW k \in Nat
    PROVE  /\ NewRow(id, d, k) \in Row
           /\ NewRow(id, d, k).attempts = <<>>
           /\ NewRow(id, d, k).owner = Len(NewRow(id, d, k).attempts)
           /\ RunningAttempts(NewRow(id, d, k)) = {}
           /\ NewRow(id, d, k).identity = id
<1> DEFINE row == NewRow(id, d, k)
<1>1. AbsentRow \in Row
  BY EmptySeq DEF AbsentRow, Row, RunStatus
<1>2. row = [AbsentRow EXCEPT !.identity = id, !.day = d, !.items = k]
  BY DEF NewRow
<1>3. row \in Row /\ row.attempts = AbsentRow.attempts
      /\ row.owner = AbsentRow.owner /\ row.identity = id
  <2> HIDE DEF row
  <2> QED  BY <1>1, <1>2 DEF Row
<1>4. AbsentRow.attempts = <<>> /\ AbsentRow.owner = 0
  BY DEF AbsentRow
<1> HIDE DEF row
<1> QED  BY <1>3, <1>4 DEF RunningAttempts, row

(* The inductive invariant holds initially. *)
LEMMA InitIInv == Init => IInv
<1> SUFFICES ASSUME Init PROVE IInv
  OBVIOUS
<1>1. AbsentRow \in Row
  BY DEF AbsentRow, Row, RunStatus, NoTime
<1>2. RowOK(AbsentRow)
  BY <1>1 DEF RowOK, AbsentRow, RunningAttempts
<1>3. TypeOK
  BY <1>1 DEF Init, TypeOK
<1>4. \A w \in Workers : claim[w] = NoClaim
  BY DEF Init
<1> QED  BY <1>2, <1>3, <1>4 DEF Init, IInv, ClaimOK, ClaimsDiffer

\* What the invariant says of the row a claim names.
LEMMA ClaimedRunRow ==
    ASSUME IInv, NEW w \in Workers, claim[w] # NoClaim
    PROVE  /\ claim[w] \in Claim /\ claim[w].run \in Runs
           /\ RowOK(run[claim[w].run]) /\ run[claim[w].run] \in Row
           /\ \A n \in RunningAttempts(run[claim[w].run]) :
                 /\ run[claim[w].run].status = "running"
                 /\ n = run[claim[w].run].owner
                 /\ run[claim[w].run].attempts[n].status = "running"
                 /\ n \in 1..Len(run[claim[w].run].attempts)
<1>1. claim[w] \in Claim /\ claim[w].run \in Runs
  BY DEF IInv, TypeOK, Claim
<1>2. RowOK(run[claim[w].run]) /\ run[claim[w].run] \in Row
  BY <1>1 DEF IInv, RowOK
<1>3. DOMAIN run[claim[w].run].attempts = 1..Len(run[claim[w].run].attempts)
  BY <1>2, RowAttempts
<1>4. \A n \in RunningAttempts(run[claim[w].run]) :
                 /\ run[claim[w].run].status = "running"
                 /\ n = run[claim[w].run].owner
  BY <1>2 DEF RowOK
<1>5. \A n \in RunningAttempts(run[claim[w].run]) :
                 /\ run[claim[w].run].attempts[n].status = "running"
                 /\ n \in 1..Len(run[claim[w].run].attempts)
  BY <1>3 DEF RunningAttempts
<1> QED  BY <1>1, <1>2, <1>4, <1>5

(* The first claim of a root preserves the invariant. *)
LEMMA ClaimNewRunStep ==
    ASSUME IInv, NEW w \in Workers, NEW r \in Runs, NEW id \in Identities,
           ClaimNewRun(w, r, id)
    PROVE  IInv' /\ AllKept
<1> DEFINE row == NewRow(id, NoTime, 0)
<1>1. /\ row \in Row /\ row.attempts = <<>> /\ row.identity = id
      /\ row.owner = Len(row.attempts) /\ RunningAttempts(row) = {}
  <2>1. \A d \in Days \cup {NoTime}, k \in Nat :
           /\ NewRow(id, d, k) \in Row
           /\ NewRow(id, d, k).attempts = <<>>
           /\ NewRow(id, d, k).identity = id
           /\ NewRow(id, d, k).owner = Len(NewRow(id, d, k).attempts)
           /\ RunningAttempts(NewRow(id, d, k)) = {}
    BY NewRowType
  <2>2. NoTime \in Days \cup {NoTime} /\ 0 \in Nat
    OBVIOUS
  <2> QED  BY <2>1, <2>2
<1>2. run[r] = AbsentRow /\ run[r].status = "absent"
  <2>1. run[r].status = "absent"
    BY Zenon DEF ClaimNewRun
  <2>2. RowOK(run[r])
    BY Zenon DEF IInv
  <2> QED  BY <2>1, <2>2, Zenon DEF RowOK
<1>3. run[r].attempts = <<>>
  BY <1>2 DEF AbsentRow
<1>4. claim[w] = NoClaim /\ Take(w, r, Claimed(row, now))
  BY Zenon DEF ClaimNewRun
<1> HIDE DEF row
<1> QED  BY <1>1, <1>2, <1>3, <1>4, TakeStep

(* A later claim of a root preserves the invariant. *)
LEMMA ClaimRunStep ==
    ASSUME IInv, NEW w \in Workers, NEW r \in Runs,
           ClaimRun(w, r) \/ ClaimChild(w, r)
    PROVE  IInv' /\ AllKept
<1>1. run[r].status \in {"partial", "interrupted"}
  BY DEF ClaimRun, RootClaimable, ClaimChild, ChildClaimable
<1>2. RowOK(run[r]) /\ run[r] \in Row
  BY DEF IInv, RowOK
<1>3. /\ run[r].owner = Len(run[r].attempts) /\ RunningAttempts(run[r]) = {}
      /\ run[r].identity \in Identities
  BY <1>1, <1>2 DEF RowOK
<1>4. claim[w] = NoClaim /\ Take(w, r, Claimed(run[r], now))
  BY DEF ClaimRun, ClaimChild
<1> QED  BY <1>1, <1>2, <1>3, <1>4, TakeStep

(* The birth of a continuation preserves the invariant. *)
LEMMA ClaimNewChildStep ==
    ASSUME IInv, NEW w \in Workers, NEW r \in Runs, NEW d \in Days,
           ClaimNewChild(w, r, d)
    PROVE  IInv' /\ AllKept
<1> DEFINE id == run[RootOf(r)].identity
           items == run[Predecessor(r)].items
           row == NewRow(id, d, items)
<1>1. RootOf(r) \in Runs /\ Predecessor(r) \in Runs
  <2>1. PICK a \in Roots, k \in 0..MaxSeq : r = <<a, k>>
    BY DEF Runs
  <2>2. k # 0
    BY <2>1 DEF ClaimNewChild, IsRoot
  <2> QED  BY <2>1, <2>2, BoundsAreNaturals DEF Runs, RootOf, Predecessor
<1>2. id \in Identities
  BY <1>1 DEF ClaimNewChild, RootYielded, IInv, RowOK
<1>3. items \in Nat
  BY <1>1 DEF IInv, RowOK, Row
<1> HIDE DEF id, items
<1>4. /\ row \in Row /\ row.attempts = <<>> /\ row.identity = id
      /\ row.owner = Len(row.attempts) /\ RunningAttempts(row) = {}
  BY <1>2, <1>3, NewRowType
<1>5. run[r] = AbsentRow /\ run[r].status = "absent"
  BY DEF ClaimNewChild, ChildBirth, IInv, RowOK
<1>6. run[r].attempts = <<>>
  BY <1>5 DEF AbsentRow
<1>7. claim[w] = NoClaim /\ Take(w, r, Claimed(row, now))
  BY DEF ClaimNewChild, NewChildRow, id, items
<1> HIDE DEF row
<1> QED  BY <1>2, <1>4, <1>5, <1>6, <1>7, TakeStep

\* A transaction that touches at most the running attempt n keeps the row.
LEMMA RunningRowKept ==
    ASSUME NEW old \in Row, NEW new \in Row, NEW n \in RunningAttempts(old),
           old.status = "running",
           Len(new.attempts) = Len(old.attempts),
           \A m \in 1..Len(old.attempts) : m # n => new.attempts[m] = old.attempts[m],
           new.items >= old.items,
           old.complete => new.complete /\ new.items = old.items,
           new.identity = old.identity
    PROVE  RowKept(old, new)
<1>1. Len(old.attempts) \in Nat /\ old.attempts[n].status = "running"
  BY RowAttempts DEF RunningAttempts
<1> QED  BY <1>1 DEF RowKept

(* A renewal preserves the invariant. *)
LEMMA HeartbeatStep ==
    ASSUME IInv, NEW w \in Workers, Heartbeat(w)
    PROVE  IInv' /\ AllKept
<1> DEFINE r == claim[w].run
           n == claim[w].attempt
           new == Renewed(run[r], n, now)
<1>1. claim[w] # NoClaim /\ n \in RunningAttempts(run[r]) /\ now \in Nat
  BY DEF Heartbeat, LeaseHeld, IInv, TypeOK
<1>2. r \in Runs /\ RowOK(run[r]) /\ run[r] \in Row /\ run[r].status = "running"
  BY <1>1, ClaimedRunRow
<1>3. /\ RowOK(new) /\ new.status = run[r].status /\ new.owner = run[r].owner
      /\ Len(new.attempts) = Len(run[r].attempts)
      /\ \A m \in 1..Len(run[r].attempts) :
            m # n => new.attempts[m] = run[r].attempts[m]
      /\ new.items = run[r].items /\ new.complete = run[r].complete
      /\ new.identity = run[r].identity
  BY <1>1, <1>2, RenewedRow
<1>4. run' = [run EXCEPT ![r] = new] /\ UNCHANGED <<claim, view, now>>
  BY DEF Heartbeat
<1>5. \A v \in Workers : claim[v] # NoClaim /\ claim[v].run = r =>
        (run[r].status = "running" /\ run[r].owner = claim[v].attempt /\ view[v] # Unread
            => view[v] = run[r].items)
  BY DEF IInv, ClaimOK
<1> HIDE DEF r, n, new
<1>6. RowKept(run[r], new)
  <2>1. new \in Row /\ run[r].items \in Nat
    BY <1>2, <1>3 DEF RowOK, Row
  <2> QED  BY <1>1, <1>2, <1>3, <2>1, RunningRowKept
<1>7. /\ claim' \in [Workers -> Claim \cup {NoClaim}]
      /\ view' \in [Workers -> Nat \cup {Unread}]
  BY <1>4 DEF IInv, TypeOK
<1>8. \A v \in Workers : claim'[v] # NoClaim =>
         IF claim[v].run = r
         THEN (new.status = "running" /\ new.owner = claim[v].attempt
               /\ view'[v] # Unread) => view'[v] = new.items
         ELSE view'[v] = view[v]
  BY <1>3, <1>4, <1>5
<1>9. \A v \in Workers : claim'[v] \in {claim[v], NoClaim}
  BY <1>4
<1> QED  BY <1>2, <1>3, <1>4, <1>6, <1>7, <1>8, <1>9, OneRowStep

(* A checkpoint preserves the invariant. *)
LEMMA CheckpointStep ==
    ASSUME IInv, NEW w \in Workers, NEW complete \in BOOLEAN, Checkpoint(w, complete)
    PROVE  IInv' /\ AllKept
<1> DEFINE r == claim[w].run
           n == claim[w].attempt
           done == IF complete THEN view[w] ELSE view[w] + 1
           renewed == Renewed(run[r], n, now)
           new == Checkpointed(renewed, done, complete)
<1>1. /\ claim[w] # NoClaim /\ n \in RunningAttempts(run[r]) /\ now \in Nat
      /\ view[w] # Unread /\ run[r].owner = n /\ ~run[r].complete
  BY DEF Checkpoint, AssertOwner, IInv, TypeOK
<1>2. r \in Runs /\ RowOK(run[r]) /\ run[r] \in Row /\ run[r].status = "running"
  BY <1>1, ClaimedRunRow
<1>3. view[w] = run[r].items
  BY <1>1, <1>2 DEF IInv, ClaimOK
<1>4. done \in Nat /\ done >= run[r].items /\ run[r].items \in Nat
  BY <1>2, <1>3 DEF RowOK, Row
<1>5. /\ run' = [run EXCEPT ![r] = new] /\ UNCHANGED <<claim, now>>
      /\ view' = [view EXCEPT ![w] = done]
  BY DEF Checkpoint
<1> HIDE DEF r, n, done
<1>6. /\ RowOK(renewed) /\ renewed.status = "running" /\ renewed.owner = n
      /\ Len(renewed.attempts) = Len(run[r].attempts)
      /\ \A m \in 1..Len(run[r].attempts) :
            m # n => renewed.attempts[m] = run[r].attempts[m]
      /\ renewed.identity = run[r].identity
  BY <1>1, <1>2, RenewedRow
<1> HIDE DEF renewed
<1>7. /\ RowOK(new) /\ new.status = "running" /\ new.owner = n
      /\ new.attempts = renewed.attempts
      /\ new.items = done /\ new.complete = complete
      /\ new.identity = run[r].identity
  BY <1>4, <1>6, CheckpointedRow
<1> HIDE DEF new
<1>8. RowKept(run[r], new)
  <2>1. new \in Row
    BY <1>7 DEF RowOK
  <2> QED  BY <1>1, <1>2, <1>4, <1>6, <1>7, <2>1, RunningRowKept
<1>9. /\ claim' \in [Workers -> Claim \cup {NoClaim}]
      /\ view' \in [Workers -> Nat \cup {Unread}]
      /\ view'[w] = done
      /\ \A v \in Workers : v # w => view'[v] = view[v]
  BY <1>4, <1>5 DEF IInv, TypeOK
<1>10. \A v \in Workers : v # w /\ claim[v] # NoClaim /\ claim[v].run = r
                             => claim[v].attempt # n
  BY DEF IInv, ClaimsDiffer, r, n
<1>11. \A v \in Workers : claim'[v] # NoClaim =>
         IF claim[v].run = r
         THEN (new.status = "running" /\ new.owner = claim[v].attempt
               /\ view'[v] # Unread) => view'[v] = new.items
         ELSE view'[v] = view[v]
  BY <1>5, <1>7, <1>9, <1>10 DEF r
<1>12. \A v \in Workers : claim'[v] \in {claim[v], NoClaim}
  BY <1>5
<1>13. Len(new.attempts) = Len(run[r].attempts)
  BY <1>6, <1>7
<1> QED  BY <1>2, <1>5, <1>7, <1>8, <1>9, <1>11, <1>12, <1>13, OneRowStep

(* A finished run preserves the invariant. *)
LEMMA FinishStep ==
    ASSUME IInv, NEW w \in Workers, NEW status \in TerminalStatus,
           NEW delay \in ResumeDelays, Finish(w, status, delay)
    PROVE  IInv' /\ AllKept
<1> DEFINE r == claim[w].run
           n == claim[w].attempt
           new == Finished(run[r], n, status, now + delay)
<1>1. /\ claim[w] # NoClaim /\ n \in RunningAttempts(run[r])
      /\ now + delay \in Nat
  BY BoundsAreNaturals DEF Finish, AssertOwner, IInv, TypeOK
<1>2. r \in Runs /\ RowOK(run[r]) /\ run[r] \in Row /\ run[r].status = "running"
  BY <1>1, ClaimedRunRow
<1>3. /\ run' = [run EXCEPT ![r] = new] /\ UNCHANGED now
      /\ claim' = [claim EXCEPT ![w] = NoClaim]
      /\ view' = [view EXCEPT ![w] = Unread]
  BY DEF Finish, Drop
<1> HIDE DEF r, n
<1>4. /\ RowOK(new) /\ new.status = status
      /\ Len(new.attempts) = Len(run[r].attempts)
      /\ \A m \in 1..Len(run[r].attempts) :
            m # n => new.attempts[m] = run[r].attempts[m]
      /\ new.items = run[r].items /\ new.complete = run[r].complete
      /\ new.identity = run[r].identity
  BY <1>1, <1>2, FinishedRow
<1> HIDE DEF new
<1>5. RowKept(run[r], new)
  <2>1. new \in Row /\ run[r].items \in Nat
    BY <1>2, <1>4 DEF RowOK, Row
  <2> QED  BY <1>1, <1>2, <1>4, <2>1, RunningRowKept
<1>6. /\ claim' \in [Workers -> Claim \cup {NoClaim}]
      /\ view' \in [Workers -> Nat \cup {Unread}]
      /\ \A v \in Workers : claim'[v] # NoClaim => view'[v] = view[v]
      /\ \A v \in Workers : claim'[v] \in {claim[v], NoClaim}
  BY <1>3 DEF IInv, TypeOK
<1>7. new.status # "running"
  BY <1>4 DEF TerminalStatus
<1> QED  BY <1>2, <1>3, <1>4, <1>5, <1>6, <1>7, OneRowStep

\* get_run, a death and a tick change no row.
LEMMA LocalStep ==
    ASSUME IInv,
           \/ \E w \in Workers : GetRun(w) \/ Abandon(w)
           \/ Tick
    PROVE  IInv' /\ AllKept
<1>1. run' = run /\ run \in [Runs -> Row] /\ now' \in Nat
  BY DEF GetRun, Abandon, Tick, IInv, TypeOK
<1>2. \A r \in Runs : run[r] \in Row /\ RowOK(run[r]) /\ run[r].items \in Nat
  BY DEF IInv, RowOK, Row
<1>3. AllKept
  BY <1>1, <1>2, RowKeptReflexive DEF AllKept
<1>4. \A v \in Workers : claim[v] # NoClaim => claim[v].run \in Runs
  BY DEF IInv, TypeOK, Claim
<1>5. /\ claim' \in [Workers -> Claim \cup {NoClaim}]
      /\ \A v \in Workers : claim'[v] \in {claim[v], NoClaim}
  BY DEF GetRun, Abandon, Drop, Tick, IInv, TypeOK
<1>6. /\ view' \in [Workers -> Nat \cup {Unread}]
      /\ \A v \in Workers :
            \/ view'[v] = view[v]
            \/ view'[v] = Unread
            \/ view'[v] = run[claim[v].run].items /\ claim[v] # NoClaim
  <2>1. CASE Tick \/ \E w \in Workers : Abandon(w)
    BY <2>1 DEF Abandon, Drop, Tick, IInv, TypeOK
  <2>2. ASSUME NEW w \in Workers, GetRun(w)
        PROVE  <1>6
    BY <2>2, <1>2, <1>4 DEF GetRun, IInv, TypeOK
  <2> QED  BY <2>1, <2>2
<1>7. \A v \in Workers :
        (claim'[v] # NoClaim /\ run'[claim[v].run].status = "running"
         /\ run'[claim[v].run].owner = claim[v].attempt /\ view'[v] # Unread)
           => view'[v] = run'[claim[v].run].items
  BY <1>1, <1>5, <1>6 DEF IInv, ClaimOK
<1>8. IInv'
  BY <1>1, <1>2, <1>5, <1>6, <1>7, RowsStep
<1> QED  BY <1>3, <1>8

\* Both recoveries close running attempts and leave claims and views alone.
LEMMA RecoveryStep ==
    ASSUME IInv, NEW S \in SUBSET Runs, NEW f \in [S -> Nat],
           \A r \in S : f[r] \in RunningAttempts(run[r]),
           run' = [r \in Runs |-> IF r \in S THEN Recovered(run[r], f[r]) ELSE run[r]],
           UNCHANGED <<claim, view, now>>
    PROVE  IInv' /\ AllKept
<1>1. run \in [Runs -> Row] /\ \A r \in Runs : run[r] \in Row /\ RowOK(run[r])
  BY DEF IInv, TypeOK, RowOK
<1>2. \A r \in S :
        /\ RowOK(run'[r]) /\ run'[r].status = "interrupted"
        /\ Len(run'[r].attempts) = Len(run[r].attempts)
        /\ \A m \in 1..Len(run[r].attempts) :
              m # f[r] => run'[r].attempts[m] = run[r].attempts[m]
        /\ run'[r].items = run[r].items /\ run'[r].complete = run[r].complete
        /\ run'[r].identity = run[r].identity
  <2> TAKE r \in S
  <2>1. run'[r] = Closed(run[r], f[r], "interrupted")
    BY DEF Recovered
  <2>2. "interrupted" \in TerminalStatus
    BY DEF TerminalStatus
  <2> QED  BY <1>1, <2>1, <2>2, ClosedRow
<1>3. \A r \in Runs : r \notin S => run'[r] = run[r]
  OBVIOUS
<1>4. \A r \in Runs : /\ RowOK(run'[r]) /\ run'[r] \in Row
                      /\ Len(run'[r].attempts) = Len(run[r].attempts)
  BY <1>1, <1>2, <1>3 DEF RowOK
<1>5. \A r \in Runs : RowKept(run[r], run'[r])
  <2> TAKE r \in Runs
  <2>1. CASE r \in S
    <3>1. run[r].status = "running" /\ run[r].items \in Nat
      BY <1>1, <2>1 DEF RowOK, Row
    <3>2. run[r] \in Row /\ run'[r] \in Row /\ f[r] \in RunningAttempts(run[r])
      BY <1>1, <1>4, <2>1
    <3>3. /\ Len(run'[r].attempts) = Len(run[r].attempts)
          /\ \A m \in 1..Len(run[r].attempts) :
                m # f[r] => run'[r].attempts[m] = run[r].attempts[m]
          /\ run'[r].items = run[r].items
          /\ run'[r].identity = run[r].identity
          /\ run[r].complete => run'[r].complete
      BY <1>2, <2>1, Zenon
    <3>4. run'[r].items >= run[r].items
      BY <3>1, <3>3
    <3> QED  BY <3>1, <3>2, <3>3, <3>4, RunningRowKept
  <2>2. CASE r \notin S
    BY <1>1, <1>3, <2>2, RowKeptReflexive
  <2> QED  BY <2>1, <2>2, Zenon
<1>6. run' \in [Runs -> Row]
  BY <1>4
<1>7. \A v \in Workers :
        (claim'[v] # NoClaim /\ run'[claim[v].run].status = "running"
         /\ run'[claim[v].run].owner = claim[v].attempt /\ view'[v] # Unread)
           => view'[v] = run'[claim[v].run].items
  <2> SUFFICES ASSUME NEW v \in Workers, claim[v] # NoClaim,
                      run'[claim[v].run].status = "running",
                      run'[claim[v].run].owner = claim[v].attempt, view[v] # Unread
               PROVE  view[v] = run'[claim[v].run].items
    OBVIOUS
  <2>1. claim[v].run \in Runs /\ claim[v].run \notin S
    <3>1. claim[v].run \in Runs
      BY DEF IInv, TypeOK, Claim
    <3>2. run'[claim[v].run].status # "interrupted"
      OBVIOUS
    <3> QED  BY <1>2, <3>1, <3>2
  <2>2. ClaimOK(v)
    BY Zenon DEF IInv
  <2>3. run'[claim[v].run] = run[claim[v].run]
    BY <1>3, <2>1
  <2> QED  BY <2>2, <2>3 DEF ClaimOK
<1>8. IInv'
  BY <1>4, <1>6, <1>7, RowsStep DEF IInv, TypeOK
<1> QED  BY <1>5, <1>8 DEF AllKept

(* Recovery, whole or of one run, preserves the invariant. *)
LEMMA RecoverStep ==
    ASSUME IInv,
           \/ \E scope \in SUBSET Runs : RecoverExpiredLeases(scope)
           \/ \E r \in Runs, n \in 1..MaxAttempts : RecoverRun(r, n)
    PROVE  IInv' /\ AllKept
<1>1. ASSUME NEW scope \in SUBSET Runs, RecoverExpiredLeases(scope)
      PROVE  IInv' /\ AllKept
  <2> DEFINE S == {r \in scope : Expired(run[r], now) # {}}
             f == [r \in S |-> CHOOSE n \in Expired(run[r], now) : TRUE]
  <2>1. \A r \in S : f[r] \in RunningAttempts(run[r])
    BY DEF Expired
  <2>2. \A r \in S : f[r] \in Nat
    <3> TAKE r \in S
    <3>1. run[r] \in Row /\ f[r] \in RunningAttempts(run[r])
      BY <2>1 DEF IInv, RowOK
    <3>2. f[r] \in 1..Len(run[r].attempts) /\ Len(run[r].attempts) \in Nat
      BY <3>1, RowAttempts DEF RunningAttempts
    <3> QED  BY <3>2
  <2>3. f \in [S -> Nat] /\ S \in SUBSET Runs
    BY <2>2
  <2>4. run' = [r \in Runs |-> IF r \in S THEN Recovered(run[r], f[r]) ELSE run[r]]
    BY <1>1 DEF RecoverExpiredLeases, RecoveredRows
  <2>5. UNCHANGED <<claim, view, now>>
    BY <1>1 DEF RecoverExpiredLeases, RecoveredRows
  <2> HIDE DEF S, f
  <2> QED  BY <2>1, <2>3, <2>4, <2>5, RecoveryStep
<1>2. ASSUME NEW r \in Runs, NEW n \in 1..MaxAttempts, RecoverRun(r, n)
      PROVE  IInv' /\ AllKept
  <2> DEFINE S == {r}
             f == [q \in S |-> n]
  <2>1. f \in [S -> Nat] /\ S \in SUBSET Runs
    BY BoundsAreNaturals
  <2>2. \A q \in S : f[q] \in RunningAttempts(run[q])
    BY <1>2 DEF RecoverRun
  <2>3. run' = [q \in Runs |-> IF q \in S THEN Recovered(run[q], f[q]) ELSE run[q]]
    BY <1>2 DEF RecoverRun, IInv, TypeOK
  <2>4. UNCHANGED <<claim, view, now>>
    BY <1>2 DEF RecoverRun
  <2> HIDE DEF S, f
  <2> QED  BY <2>1, <2>2, <2>3, <2>4, RecoveryStep
<1> QED  BY <1>1, <1>2

(* Every step preserves the invariant. *)
LEMMA NextIInv ==
    ASSUME IInv, [Next]_vars
    PROVE  IInv' /\ AllKept
<1>1. CASE UNCHANGED vars
  <2>1. \A r \in Runs : run[r] \in Row
    BY DEF IInv, TypeOK
  <2>2. AllKept
    BY <1>1, <2>1, RowKeptReflexive DEF vars, AllKept
  <2>3. IInv'
    BY <1>1 DEF vars, IInv, TypeOK, ClaimOK, ClaimsDiffer
  <2> QED  BY <2>2, <2>3
<1>2. ASSUME NEW w \in Workers, NEW r \in Runs,
             \/ \E id \in Identities : ClaimNewRun(w, r, id)
             \/ ClaimRun(w, r)
             \/ \E d \in Days : ClaimNewChild(w, r, d)
             \/ ClaimChild(w, r)
      PROVE  IInv' /\ AllKept
  BY <1>2, ClaimNewRunStep, ClaimRunStep, ClaimNewChildStep
<1>3. ASSUME NEW w \in Workers,
             \/ Heartbeat(w)
             \/ \E complete \in BOOLEAN : Checkpoint(w, complete)
             \/ \E status \in TerminalStatus, delay \in ResumeDelays :
                   Finish(w, status, delay)
      PROVE  IInv' /\ AllKept
  BY <1>3, HeartbeatStep, CheckpointStep, FinishStep
<1> QED  BY <1>1, <1>2, <1>3, LocalStep, RecoverStep DEF Next

-----------------------------------------------------------------------------
(* The refinement of FencedJobs. *)

\* The abstract variables, as the instance Jobs reads them off the rows.
Phase == [r \in Runs |-> PhaseOf(run[r])]
Grants == [r \in Runs |-> Len(run[r].attempts)]
Work == [r \in Runs |-> run[r].items]
Done == [r \in Runs |-> run[r].complete]

\* No transaction writes more items than a checkpoint can have.
WorkInBounds == \A r \in Runs : run[r].items \in 0..MaxItems

(* The phase of a row, by its status. *)
LEMMA PhaseByStatus ==
    ASSUME NEW row
    PROVE  /\ row.status = "absent" => PhaseOf(row) = "unborn"
           /\ row.status = "running" => PhaseOf(row) = "held"
           /\ row.status \in {"partial", "interrupted"} => PhaseOf(row) = "idle"
           /\ row.status \in {"succeeded", "failed"} => PhaseOf(row) = row.status
  BY DEF PhaseOf

\* A function that differs in one entry, as an EXCEPT.
LEMMA ReplacedEntry ==
    ASSUME NEW r \in Runs, NEW v, NEW F, NEW G,
           F = [q \in Runs |-> F[q]],
           G = [q \in Runs |-> IF q = r THEN v ELSE F[q]]
    PROVE  G = [F EXCEPT ![r] = v]
  OBVIOUS

\* Replacing one row replaces one entry of each abstract variable.
LEMMA OneRowMapped ==
    ASSUME IInv, NEW r \in Runs, NEW new, run' = [run EXCEPT ![r] = new]
    PROVE  /\ Phase' = [Phase EXCEPT ![r] = PhaseOf(new)]
           /\ Grants' = [Grants EXCEPT ![r] = Len(new.attempts)]
           /\ Work' = [Work EXCEPT ![r] = new.items]
           /\ Done' = [Done EXCEPT ![r] = new.complete]
           /\ Phase[r] = PhaseOf(run[r]) /\ Grants[r] = Len(run[r].attempts)
           /\ Work[r] = run[r].items /\ Done[r] = run[r].complete
<1>1. \A q \in Runs : run'[q] = IF q = r THEN new ELSE run[q]
  BY DEF IInv, TypeOK
<1>2. Phase' = [Phase EXCEPT ![r] = PhaseOf(new)] /\ Phase[r] = PhaseOf(run[r])
  <2>1. /\ Phase = [q \in Runs |-> Phase[q]] /\ Phase[r] = PhaseOf(run[r])
        /\ Phase' = [q \in Runs |-> IF q = r THEN PhaseOf(new) ELSE Phase[q]]
    BY <1>1 DEF Phase
  <2> QED  BY <2>1, ReplacedEntry
<1>3. Grants' = [Grants EXCEPT ![r] = Len(new.attempts)] /\ Grants[r] = Len(run[r].attempts)
  <2>1. /\ Grants = [q \in Runs |-> Grants[q]] /\ Grants[r] = Len(run[r].attempts)
        /\ Grants' = [q \in Runs |-> IF q = r THEN Len(new.attempts) ELSE Grants[q]]
    BY <1>1 DEF Grants
  <2> QED  BY <2>1, ReplacedEntry
<1>4. Work' = [Work EXCEPT ![r] = new.items] /\ Work[r] = run[r].items
  <2>1. /\ Work = [q \in Runs |-> Work[q]] /\ Work[r] = run[r].items
        /\ Work' = [q \in Runs |-> IF q = r THEN new.items ELSE Work[q]]
    BY <1>1 DEF Work
  <2> QED  BY <2>1, ReplacedEntry
<1>5. Done' = [Done EXCEPT ![r] = new.complete] /\ Done[r] = run[r].complete
  <2>1. /\ Done = [q \in Runs |-> Done[q]] /\ Done[r] = run[r].complete
        /\ Done' = [q \in Runs |-> IF q = r THEN new.complete ELSE Done[q]]
    BY <1>1 DEF Done
  <2> QED  BY <2>1, ReplacedEntry
<1> QED  BY <1>2, <1>3, <1>4, <1>5

\* An abstract variable whose entry keeps its value does not change.
LEMMA SameEntry ==
    ASSUME IInv, NEW r \in Runs, NEW new, run' = [run EXCEPT ![r] = new]
    PROVE  /\ PhaseOf(new) = PhaseOf(run[r]) => Phase' = Phase
           /\ Len(new.attempts) = Len(run[r].attempts) => Grants' = Grants
           /\ new.items = run[r].items => Work' = Work
           /\ new.complete = run[r].complete => Done' = Done
<1>1. \A q \in Runs : run'[q] = IF q = r THEN new ELSE run[q]
  BY DEF IInv, TypeOK
<1> QED  BY <1>1 DEF Phase, Grants, Work, Done

\* A claim bears a job or grants it again.
LEMMA TakeIsGrant ==
    ASSUME IInv, NEW w \in Workers, NEW r \in Runs, NEW row \in Row,
           row.owner = Len(row.attempts),
           RunningAttempts(row) = {},
           row.identity \in Identities,
           row.attempts = run[r].attempts,
           row.items \in 0..MaxItems,
           row.complete = run[r].complete,
           run[r].status \notin {"running", "succeeded", "failed"},
           run[r].status # "absent" => row = run[r],
           Take(w, r, Claimed(row, now))
    PROVE  Jobs!JobNext
<1> DEFINE new == Claimed(row, now)
<1>1. now \in Nat /\ run[r] \in Row
  BY DEF IInv, TypeOK
<1>2. /\ new.status = "running" /\ Len(new.attempts) = Len(run[r].attempts) + 1
      /\ new.items = row.items /\ new.complete = run[r].complete
  BY <1>1, ClaimedRow
<1>3. run' = [run EXCEPT ![r] = new]
  BY DEF Take
<1> HIDE DEF new
<1>4. /\ Phase' = [Phase EXCEPT ![r] = "held"]
      /\ Grants' = [Grants EXCEPT ![r] = Grants[r] + 1]
      /\ Work' = [Work EXCEPT ![r] = row.items]
      /\ Done' = Done
  <2>1. PhaseOf(new) = "held"
    BY <1>2, PhaseByStatus
  <2>2. Done' = Done
    BY <1>2, <1>3, SameEntry
  <2>3. /\ Phase' = [Phase EXCEPT ![r] = PhaseOf(new)]
        /\ Grants' = [Grants EXCEPT ![r] = Len(new.attempts)]
        /\ Work' = [Work EXCEPT ![r] = new.items]
        /\ Grants[r] = Len(run[r].attempts)
    BY <1>3, OneRowMapped
  <2> QED  BY <1>2, <2>1, <2>2, <2>3
<1>5. CASE run[r].status = "absent"
  <2>1. Phase[r] = "unborn"
    BY <1>3, <1>5, OneRowMapped, PhaseByStatus
  <2>2. Jobs!Bear(r, row.items)
    BY <1>4, <2>1 DEF Jobs!Bear, Phase, Grants, Work, Done
  <2> QED  BY <2>2 DEF Jobs!JobNext
<1>6. CASE run[r].status # "absent"
  <2>1. run[r].status \in {"partial", "interrupted"}
    BY <1>1, <1>6 DEF Row, RunStatus
  <2>2. Phase[r] = "idle"
    BY <1>3, <2>1, OneRowMapped, PhaseByStatus
  <2>3. Work' = Work
    BY <1>2, <1>3, <1>6, SameEntry
  <2>4. Jobs!Grant(r)
    BY <1>4, <2>2, <2>3 DEF Jobs!Grant, Phase, Grants, Work, Done
  <2> QED  BY <2>4 DEF Jobs!JobNext
<1> QED  BY <1>5, <1>6

(* The four ways to claim a run are grants. *)
LEMMA ClaimIsGrant ==
    ASSUME IInv, WorkInBounds, NEW w \in Workers, NEW r \in Runs,
             \/ \E id \in Identities : ClaimNewRun(w, r, id)
             \/ ClaimRun(w, r)
             \/ \E d \in Days : ClaimNewChild(w, r, d)
             \/ ClaimChild(w, r)
    PROVE  Jobs!JobNext
<1>1. RowOK(run[r]) /\ run[r] \in Row
  BY DEF IInv, RowOK
<1>2. run[r].status = "absent" => /\ run[r].attempts = <<>>
                                  /\ run[r].complete = FALSE
  BY <1>1 DEF RowOK, AbsentRow
<1>3. \A id, d, k : NewRow(id, d, k).items = k /\ NewRow(id, d, k).complete = FALSE
  BY DEF NewRow, AbsentRow
<1>4. ASSUME NEW id \in Identities, ClaimNewRun(w, r, id)
      PROVE  Jobs!JobNext
  <2>1. PICK row \in Row : /\ row = NewRow(id, NoTime, 0)
                           /\ row.attempts = <<>> /\ row.identity = id
                           /\ row.owner = Len(row.attempts) /\ RunningAttempts(row) = {}
    BY NewRowType
  <2>2. row.items = 0 /\ row.complete = FALSE /\ row.items \in 0..MaxItems
    BY <1>3, <2>1, BoundsAreNaturals
  <2>3. run[r].status = "absent" /\ Take(w, r, Claimed(row, now))
    BY <1>4, <2>1, Zenon DEF ClaimNewRun
  <2> QED  BY <1>2, <2>1, <2>2, <2>3, TakeIsGrant
<1>5. ASSUME ClaimRun(w, r) \/ ClaimChild(w, r)
      PROVE  Jobs!JobNext
  <2>1. run[r].status \in {"partial", "interrupted"}
    BY <1>5 DEF ClaimRun, RootClaimable, ClaimChild, ChildClaimable
  <2>2. /\ run[r].owner = Len(run[r].attempts) /\ RunningAttempts(run[r]) = {}
        /\ run[r].identity \in Identities
    BY <1>1, <2>1 DEF RowOK
  <2>3. Take(w, r, Claimed(run[r], now))
    BY <1>5 DEF ClaimRun, ClaimChild
  <2> QED  BY <1>1, <2>1, <2>2, <2>3, TakeIsGrant DEF WorkInBounds
<1>6. ASSUME NEW d \in Days, ClaimNewChild(w, r, d)
      PROVE  Jobs!JobNext
  <2>1. RootOf(r) \in Runs /\ Predecessor(r) \in Runs
    <3>1. PICK a \in Roots, k \in 0..MaxSeq : r = <<a, k>>
      BY DEF Runs
    <3>2. k # 0
      BY <1>6, <3>1 DEF ClaimNewChild, IsRoot
    <3> QED  BY <3>1, <3>2, BoundsAreNaturals DEF Runs, RootOf, Predecessor
  <2>2. run[RootOf(r)].identity \in Identities
    BY <1>6, <2>1 DEF ClaimNewChild, RootYielded, IInv, RowOK
  <2>3. run[Predecessor(r)].items \in 0..MaxItems
    BY <2>1 DEF WorkInBounds
  <2>4. PICK id \in Identities, k \in 0..MaxItems :
           id = run[RootOf(r)].identity /\ k = run[Predecessor(r)].items
    BY <2>2, <2>3
  <2>5. PICK row \in Row : /\ row = NewRow(id, d, k)
                           /\ row.attempts = <<>> /\ row.identity = id
                           /\ row.owner = Len(row.attempts) /\ RunningAttempts(row) = {}
    <3>1. k \in Nat
      OBVIOUS
    <3> QED  BY <3>1, NewRowType
  <2>6. row.items \in 0..MaxItems /\ row.complete = FALSE
    BY <1>3, <2>5
  <2>7. run[r].status = "absent" /\ Take(w, r, Claimed(row, now))
    BY <1>6, <2>4, <2>5 DEF ClaimNewChild, ChildBirth, NewChildRow
  <2> QED  BY <1>2, <2>5, <2>6, <2>7, TakeIsGrant
<1> QED  BY <1>4, <1>5, <1>6

(* A renewal changes nothing a user of the run could see. *)
LEMMA HeartbeatIsHidden ==
    ASSUME IInv, NEW w \in Workers, Heartbeat(w)
    PROVE  UNCHANGED <<Phase, Grants, Work, Done>>
<1> DEFINE r == claim[w].run
           n == claim[w].attempt
           new == Renewed(run[r], n, now)
<1>1. claim[w] # NoClaim /\ n \in RunningAttempts(run[r]) /\ now \in Nat
  BY DEF Heartbeat, LeaseHeld, IInv, TypeOK
<1>2. r \in Runs /\ RowOK(run[r])
  BY <1>1, ClaimedRunRow
<1>3. /\ new.status = run[r].status
      /\ Len(new.attempts) = Len(run[r].attempts)
      /\ new.items = run[r].items /\ new.complete = run[r].complete
  BY <1>1, <1>2, RenewedRow
<1>4. run' = [run EXCEPT ![r] = new]
  BY DEF Heartbeat
<1>5. PhaseOf(new) = PhaseOf(run[r])
  BY <1>3 DEF PhaseOf
<1> HIDE DEF r, n, new
<1> QED  BY <1>2, <1>3, <1>4, <1>5, SameEntry

(* A checkpoint advances the work of a held job that is not done. *)
LEMMA CheckpointIsAdvance ==
    ASSUME IInv, NEW w \in Workers, NEW complete \in BOOLEAN, Checkpoint(w, complete)
    PROVE  Jobs!JobNext
<1> DEFINE r == claim[w].run
           n == claim[w].attempt
           done == IF complete THEN view[w] ELSE view[w] + 1
           renewed == Renewed(run[r], n, now)
           new == Checkpointed(renewed, done, complete)
<1>1. /\ claim[w] # NoClaim /\ n \in RunningAttempts(run[r]) /\ now \in Nat
      /\ view[w] # Unread /\ run[r].owner = n /\ ~run[r].complete
      /\ done <= MaxItems
  BY DEF Checkpoint, AssertOwner, IInv, TypeOK
<1>2. r \in Runs /\ RowOK(run[r]) /\ run[r] \in Row /\ run[r].status = "running"
  BY <1>1, ClaimedRunRow
<1>3. view[w] = run[r].items
  BY <1>1, <1>2 DEF IInv, ClaimOK
<1>4. done \in Nat /\ done >= run[r].items
  BY <1>2, <1>3 DEF RowOK, Row
<1>5. done \in 0..MaxItems
  BY <1>1, <1>4, BoundsAreNaturals
<1>6. run' = [run EXCEPT ![r] = new]
  BY DEF Checkpoint
<1> HIDE DEF r, n, done
<1>7. /\ RowOK(renewed) /\ renewed.status = "running"
      /\ Len(renewed.attempts) = Len(run[r].attempts)
  BY <1>1, <1>2, RenewedRow
<1> HIDE DEF renewed
<1>8. /\ new.status = "running" /\ new.attempts = renewed.attempts
      /\ new.items = done /\ new.complete = complete
  BY <1>4, <1>7, CheckpointedRow
<1> HIDE DEF new
<1>9. Phase[r] = "held" /\ PhaseOf(new) = PhaseOf(run[r])
  BY <1>2, <1>6, <1>8, OneRowMapped, PhaseByStatus
<1>10. /\ Work' = [Work EXCEPT ![r] = done]
       /\ Done' = [Done EXCEPT ![r] = complete]
       /\ Work[r] = run[r].items /\ Done[r] = run[r].complete
  BY <1>2, <1>6, <1>8, OneRowMapped
<1>11. Phase' = Phase /\ Grants' = Grants
  BY <1>2, <1>6, <1>7, <1>8, <1>9, SameEntry
<1>12. Jobs!Advance(r, done, complete)
  BY <1>1, <1>4, <1>9, <1>10, <1>11 DEF Jobs!Advance, Phase, Grants, Work, Done
<1> QED  BY <1>2, <1>5, <1>12 DEF Jobs!JobNext

\* Runs that recovery or their owner leaves idle are given back.
LEMMA IdleIsGiveBack ==
    ASSUME IInv, NEW S \in SUBSET Runs, S # {},
           \A r \in S : run[r].status = "running",
           \A r \in S : /\ run'[r].status \in {"partial", "interrupted"}
                        /\ Len(run'[r].attempts) = Len(run[r].attempts)
                        /\ run'[r].items = run[r].items
                        /\ run'[r].complete = run[r].complete,
           \A r \in Runs \ S : run'[r] = run[r]
    PROVE  Jobs!JobNext
<1>1. \A r \in S : PhaseOf(run[r]) = "held" /\ PhaseOf(run'[r]) = "idle"
  BY PhaseByStatus
<1>2. /\ \A r \in S : Phase[r] = "held"
      /\ Phase' = [r \in Runs |-> IF r \in S THEN "idle" ELSE Phase[r]]
  BY <1>1 DEF Phase
<1>3. Grants' = Grants /\ Work' = Work /\ Done' = Done
  BY DEF Grants, Work, Done
<1>4. Jobs!GiveBack(S)
  BY <1>2, <1>3 DEF Jobs!GiveBack, Phase, Grants, Work, Done
<1> QED  BY <1>4 DEF Jobs!JobNext

(* A finish ends the job with its outcome or gives it back. *)
LEMMA FinishIsEnd ==
    ASSUME IInv, NEW w \in Workers, NEW status \in TerminalStatus,
           NEW delay \in ResumeDelays, Finish(w, status, delay)
    PROVE  Jobs!JobNext
<1> DEFINE r == claim[w].run
           n == claim[w].attempt
           new == Finished(run[r], n, status, now + delay)
<1>1. /\ claim[w] # NoClaim /\ n \in RunningAttempts(run[r])
      /\ now + delay \in Nat /\ (status = "succeeded") = run[r].complete
  BY BoundsAreNaturals DEF Finish, AssertOwner, IInv, TypeOK
<1>2. r \in Runs /\ RowOK(run[r]) /\ run[r].status = "running"
  BY <1>1, ClaimedRunRow
<1>3. run' = [run EXCEPT ![r] = new]
  BY DEF Finish
<1> HIDE DEF r, n
<1>4. /\ new.status = status
      /\ Len(new.attempts) = Len(run[r].attempts)
      /\ new.items = run[r].items /\ new.complete = run[r].complete
  BY <1>1, <1>2, FinishedRow
<1> HIDE DEF new
<1>5. run \in [Runs -> Row]
  BY DEF IInv, TypeOK
<1>6. CASE status \in {"partial", "interrupted"}
  <2>1. run'[r] = new /\ \A q \in Runs \ {r} : run'[q] = run[q]
    BY <1>2, <1>3, <1>5
  <2>2. /\ {r} \in SUBSET Runs /\ {r} # {}
        /\ \A q \in {r} : run[q].status = "running"
        /\ \A q \in {r} : /\ run'[q].status \in {"partial", "interrupted"}
                          /\ Len(run'[q].attempts) = Len(run[q].attempts)
                          /\ run'[q].items = run[q].items
                          /\ run'[q].complete = run[q].complete
    BY <1>2, <1>4, <1>6, <2>1
  <2> QED  BY <2>1, <2>2, IdleIsGiveBack
<1>7. CASE status \in {"succeeded", "failed"}
  <2>1. /\ Phase' = [Phase EXCEPT ![r] = status]
        /\ Phase[r] = "held" /\ Done[r] = run[r].complete
    <3>1. PhaseOf(new) = status /\ PhaseOf(run[r]) = "held"
      BY <1>2, <1>4, <1>7, PhaseByStatus
    <3>2. /\ Phase' = [Phase EXCEPT ![r] = PhaseOf(new)]
          /\ Phase[r] = PhaseOf(run[r]) /\ Done[r] = run[r].complete
      BY <1>2, <1>3, OneRowMapped
    <3> QED  BY <3>1, <3>2
  <2>2. Grants' = Grants /\ Work' = Work /\ Done' = Done
    BY <1>2, <1>3, <1>4, SameEntry
  <2>3. Jobs!End(r, status)
    BY <1>1, <2>1, <2>2 DEF Jobs!End, Phase, Grants, Work, Done
  <2> QED  BY <1>2, <1>7, <2>3 DEF Jobs!JobNext
<1> QED  BY <1>6, <1>7 DEF TerminalStatus

(* Both recoveries give back what they close. *)
LEMMA RecoveryIsGiveBack ==
    ASSUME IInv,
           \/ \E scope \in SUBSET Runs : RecoverExpiredLeases(scope)
           \/ \E r \in Runs, n \in 1..MaxAttempts : RecoverRun(r, n)
    PROVE  Jobs!JobNext
<1>1. \A r \in Runs : \A n \in RunningAttempts(run[r]) :
         LET new == Recovered(run[r], n)
         IN  /\ run[r].status = "running" /\ new.status = "interrupted"
             /\ Len(new.attempts) = Len(run[r].attempts)
             /\ new.items = run[r].items /\ new.complete = run[r].complete
  <2> SUFFICES ASSUME NEW r \in Runs, NEW n \in RunningAttempts(run[r])
               PROVE  LET new == Recovered(run[r], n)
                      IN  /\ run[r].status = "running" /\ new.status = "interrupted"
                          /\ Len(new.attempts) = Len(run[r].attempts)
                          /\ new.items = run[r].items /\ new.complete = run[r].complete
    OBVIOUS
  <2>1. RowOK(run[r]) /\ run[r].status = "running"
    BY DEF IInv, RowOK
  <2>2. "interrupted" \in TerminalStatus
    BY DEF TerminalStatus
  <2> QED  BY <2>1, <2>2, ClosedRow DEF Recovered
<1>2. ASSUME NEW scope \in SUBSET Runs, RecoverExpiredLeases(scope)
      PROVE  Jobs!JobNext
  <2> DEFINE S == {r \in scope : Expired(run[r], now) # {}}
  <2>1. S \in SUBSET Runs /\ S # {}
    BY <1>2 DEF RecoverExpiredLeases
  <2>2. \A r \in Runs : run'[r] =
           IF r \in S THEN Recovered(run[r], CHOOSE n \in Expired(run[r], now) : TRUE)
           ELSE run[r]
    BY <1>2 DEF RecoverExpiredLeases, RecoveredRows
  <2>3. \A r \in S : \E n : n \in RunningAttempts(run[r])
                            /\ run'[r] = Recovered(run[r], n)
    BY <2>1, <2>2 DEF Expired
  <2> HIDE DEF S
  <2>4. \A r \in S : /\ run[r].status = "running"
                      /\ run'[r].status = "interrupted"
                      /\ Len(run'[r].attempts) = Len(run[r].attempts)
                      /\ run'[r].items = run[r].items
                      /\ run'[r].complete = run[r].complete
    BY <1>1, <2>1, <2>3
  <2>5. \A r \in Runs \ S : run'[r] = run[r]
    BY <2>2
  <2> QED  BY <2>1, <2>4, <2>5, IdleIsGiveBack
<1>3. ASSUME NEW r \in Runs, NEW n \in 1..MaxAttempts, RecoverRun(r, n)
      PROVE  Jobs!JobNext
  <2>1. n \in RunningAttempts(run[r])
    BY <1>3 DEF RecoverRun
  <2>2. run'[r] = Recovered(run[r], n) /\ \A q \in Runs \ {r} : run'[q] = run[q]
    BY <1>3 DEF RecoverRun, IInv, TypeOK
  <2>3. /\ run[r].status = "running"
        /\ run'[r].status = "interrupted"
        /\ Len(run'[r].attempts) = Len(run[r].attempts)
        /\ run'[r].items = run[r].items
        /\ run'[r].complete = run[r].complete
    BY <1>1, <2>1, <2>2
  <2> QED  BY <2>2, <2>3, IdleIsGiveBack
<1> QED  BY <1>2, <1>3

(* Every step is a step of the abstract job, or none that it sees. *)
LEMMA StepSimulates ==
    ASSUME IInv, WorkInBounds, [Next]_vars
    PROVE  [Jobs!JobNext]_(Jobs!jobVars)
<1>1. CASE \/ \E w \in Workers : GetRun(w) \/ Abandon(w)
           \/ Tick
           \/ UNCHANGED vars
  <2>1. run' = run
    BY <1>1 DEF GetRun, Abandon, Tick, vars
  <2> QED  BY <2>1 DEF Jobs!jobVars
<1>2. ASSUME NEW w \in Workers, Heartbeat(w)
      PROVE  UNCHANGED Jobs!jobVars
  BY <1>2, HeartbeatIsHidden DEF Jobs!jobVars, Phase, Grants, Work, Done
<1> QED  BY <1>1, <1>2, ClaimIsGrant, CheckpointIsAdvance, FinishIsEnd,
            RecoveryIsGiveBack DEF Next

(* The bound on the work follows from the abstract steps alone. *)
LEMMA AbstractWorkInBounds ==
    ASSUME WorkInBounds, [Jobs!JobNext]_(Jobs!jobVars)
    PROVE  WorkInBounds'
<1>1. \A r \in Runs : Work[r] \in 0..MaxItems
  BY DEF WorkInBounds, Work
<1>2. \A r \in Runs : Work'[r] \in 0..MaxItems
  <2>1. ASSUME NEW r \in Runs, NEW k \in 0..MaxItems,
               Work' = [Work EXCEPT ![r] = k]
        PROVE  <1>2
    BY <1>1, <2>1 DEF Work
  <2>2. CASE Work' = Work
    BY <1>1, <2>2
  <2>3. \/ Work' = Work
        \/ \E r \in Runs, k \in 0..MaxItems : Work' = [Work EXCEPT ![r] = k]
    BY DEF Jobs!JobNext, Jobs!jobVars, Jobs!Bear, Jobs!Grant, Jobs!Advance,
           Jobs!End, Jobs!GiveBack, Work
  <2> QED  BY <2>1, <2>2, <2>3
<1> QED  BY <1>2 DEF WorkInBounds, Work

(* The initial rows are unborn jobs. *)
LEMMA InitSimulates == Init => Jobs!JobInit /\ WorkInBounds
<1>1. PhaseOf(AbsentRow) = "unborn" /\ AbsentRow.attempts = <<>>
      /\ AbsentRow.items = 0 /\ AbsentRow.complete = FALSE
  BY DEF PhaseOf, AbsentRow
<1>2. Len(<<>>) = 0 /\ 0 \in 0..MaxItems
  BY BoundsAreNaturals
<1> QED  BY <1>1, <1>2 DEF Init, Jobs!JobInit, WorkInBounds

-----------------------------------------------------------------------------
(* Theorems. *)

\* The invariant above is inductive.
THEOREM Inductive == Spec => []IInv
  BY InitIInv, NextIInv, PTL DEF Spec

\* Every variable always has its type.
THEOREM TypeCorrect == Spec => []TypeOK
<1>1. IInv => TypeOK
  BY DEF IInv
<1> QED  BY <1>1, Inductive, PTL

\* scheduler_runs and scheduler_run_attempts agree after every transaction: a run
\* is running exactly while its latest attempt is, and details.owner names it.
THEOREM TablesAgree == Spec => []OneRunningAttempt
<1>1. IInv => OneRunningAttempt
  BY DEF IInv, RowOK, OneRunningAttempt
<1> QED  BY <1>1, Inductive, PTL

\* At most one worker passes assert_owner for a run, however many are left over
\* from attempts that recovery has taken away.
THEOREM AtMostOneOwner == Spec => []OneOwner
<1>1. IInv => OneOwner
  <2> SUFFICES ASSUME IInv, NEW v \in Workers, NEW w \in Workers,
                      Owns(v), Owns(w), claim[v].run = claim[w].run, v # w
               PROVE  FALSE
    BY DEF OneOwner
  <2>1. claim[v].attempt = claim[w].attempt /\ claim[v] # NoClaim
    BY DEF Owns, AssertOwner
  <2> QED  BY <2>1 DEF IInv, ClaimsDiffer
<1> QED  BY <1>1, Inductive, PTL

\* A worker that passes assert_owner has the row's own checkpoint in memory.
THEOREM ViewIsCurrent == Spec => []OwnerViewIsCurrent
<1>1. IInv => OwnerViewIsCurrent
  BY DEF IInv, OwnerViewIsCurrent, ClaimOK, Owns, AssertOwner
<1> QED  BY <1>1, Inductive, PTL

\* Progress, completion and the frozen identity survive every transaction.
THEOREM ProgressIsKept == Spec => ProgressKept
<1>1. AllKept => [\A r \in Runs : run[r].status # "absent" =>
          /\ run'[r].items >= run[r].items
          /\ run[r].complete => run'[r].complete /\ run'[r].items = run[r].items
          /\ run'[r].identity = run[r].identity]_vars
  BY DEF AllKept, RowKept
<1> QED  BY <1>1, NextIInv, Inductive, PTL DEF Spec, ProgressKept

\* No attempt is lost or rewritten, and no ended run comes back.
THEOREM HistoryIsKept == Spec => HistoryKept
<1>1. IInv /\ IInv' /\ AllKept => [\A r \in Runs :
          /\ \A n \in DOMAIN run[r].attempts :
                /\ n \in DOMAIN run'[r].attempts
                /\ run[r].attempts[n].status # "running" =>
                      run'[r].attempts[n] = run[r].attempts[n]
          /\ run[r].status \in {"succeeded", "failed"} => run'[r] = run[r]]_vars
  <2> SUFFICES ASSUME IInv, IInv', AllKept, NEW r \in Runs
               PROVE  /\ \A n \in DOMAIN run[r].attempts :
                           /\ n \in DOMAIN run'[r].attempts
                           /\ run[r].attempts[n].status # "running" =>
                                 run'[r].attempts[n] = run[r].attempts[n]
                      /\ run[r].status \in {"succeeded", "failed"} => run'[r] = run[r]
    OBVIOUS
  <2>1. run[r] \in Row /\ run'[r] \in Row
    BY DEF IInv, RowOK
  <2>2. RowKept(run[r], run'[r])
    BY DEF AllKept
  <2>3. /\ DOMAIN run[r].attempts = 1..Len(run[r].attempts)
        /\ DOMAIN run'[r].attempts = 1..Len(run'[r].attempts)
        /\ Len(run[r].attempts) \in Nat /\ Len(run'[r].attempts) \in Nat
    BY <2>1, RowAttempts
  <2> QED  BY <2>2, <2>3 DEF RowKept
<1> QED  BY <1>1, NextIInv, Inductive, PTL DEF Spec, HistoryKept

\* The two tables with their fences and recoveries implement the abstract fenced
\* job, for every number of workers, runs, days and attempts: initial rows are
\* unborn jobs, and each transaction is one abstract step or a stutter.
THEOREM RefinesFencedJobs == Spec => ImplementsFencedJobs
<1>1. Spec => []WorkInBounds
  <2>1. Init => WorkInBounds
    BY InitSimulates
  <2>2. IInv /\ WorkInBounds /\ [Next]_vars => WorkInBounds'
    BY StepSimulates, AbstractWorkInBounds
  <2> QED  BY <2>1, <2>2, Inductive, PTL DEF Spec
<1>2. Init => Jobs!JobInit
  BY InitSimulates
<1>3. IInv /\ WorkInBounds /\ [Next]_vars => [Jobs!JobNext]_(Jobs!jobVars)
  BY StepSimulates
<1> QED  BY <1>1, <1>2, <1>3, Inductive, PTL DEF Spec, ImplementsFencedJobs, Jobs!JobSpec

=============================================================================
