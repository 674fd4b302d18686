------------------------- MODULE CaptureWorkProofs -------------------------
(***************************************************************************)
(* Proofs about CaptureWork, for any items, workers, days and bounds, and  *)
(* about PaidWork, the paid fetches its workers carry.                     *)
(*                                                                         *)
(* A dispatch composes several transactions of durable_runs in one, so the *)
(* invariant is stated of a pair of tables (Sound), and each part of a     *)
(* dispatch takes a sound pair to a sound pair.  What the two tables agree *)
(* on is the token: a run that is running is the one its item names.       *)
(*                                                                         *)
(* PaidWork implements PaidFetch because every step of the queue lets an   *)
(* attempt age (Ages): it ends or its lease runs out, and neither is ever  *)
(* taken back.                                                             *)
(***************************************************************************)
EXTENDS PaidWork, DurableRunsProofs, FiniteSetTheorems

\* AttemptHoldsItem of any pair of tables.
Holds(rows, items) ==
    \A r \in Runs : rows[r].status = "running" =>
        /\ items[r[1]].state = "running"
        /\ items[r[1]].owner = <<r, rows[r].owner>>

Completed(rows, items) ==
    \A r \in Runs : rows[r].complete => items[r[1]].state = "terminal"

\* The continuations of an item: consecutive, of increasing days after the day of
\* its data, none without a root, and none of them before the item.
Calendar(rows, items, t) ==
    \A i \in Roots :
        /\ Children(rows, i) = 1..Cardinality(Children(rows, i))
        /\ \A j, k \in Children(rows, i) : j < k => rows[<<i, j>>].day < rows[<<i, k>>].day
        /\ \A k \in Children(rows, i) : /\ items[i].day < rows[<<i, k>>].day
                                        /\ rows[<<i, k>>].day <= Today(t)
        /\ Children(rows, i) # {} => rows[<<i, 0>>].status # "absent"
        /\ items[i].state = "absent" =>
              \A r \in Runs : r[1] = i => rows[r].status = "absent"
        /\ items[i].state # "absent" => items[i].day \in Days /\ items[i].day <= Today(t)

Scoped(rows) == \A r \in Runs : rows[r].status # "absent" => rows[r].identity = Scope

Sound(rows, items, t) ==
    /\ rows \in [Runs -> Row] /\ items \in [Roots -> Item]
    /\ \A r \in Runs : RowOK(rows[r])
    /\ Holds(rows, items) /\ Completed(rows, items)
    /\ Calendar(rows, items, t) /\ Scoped(rows)

\* A worker's claim is an attempt that exists, and nobody else's.
ClaimsOK ==
    /\ claim \in [Workers -> Claim \cup {NoClaim}]
    /\ \A w \in Workers : claim[w] # NoClaim =>
          claim[w].attempt \in 1..Len(run[claim[w].run].attempts)
    /\ ClaimsDiffer

QueueInv ==
    /\ now \in 0..MaxNow
    /\ view = [w \in Workers |-> Unread]
    /\ Sound(run, work, now)
    /\ ClaimsOK

-----------------------------------------------------------------------------
(* Days, runs and rows.                                                    *)

LEMMA TodayIsDay == \A t \in 0..MaxNow : Today(t) \in Days /\ Today(t) \in Nat
BY QueueConstants, BoundsAreNaturals DEF Today

LEMMA DaysAreInts ==
    /\ \A d \in Days : d \in Int /\ d \in Nat
    /\ \A row \in Row : row.day \in Int
<1>1. \A d \in Days : d \in Int /\ d \in Nat
  BY BoundsAreNaturals
<1>2. \A row \in Row : row.day \in Days \cup {NoTime}
  BY DEF Row
<1>3. NoTime \in Int
  BY DEF NoTime
<1> QED BY <1>1, <1>2, <1>3

LEMMA TodayMonotone == \A t \in Nat : Today(t) <= Today(t + 1)
<1> SUFFICES ASSUME NEW t \in Nat PROVE Today(t) <= Today(t + 1)
  OBVIOUS
<1> DEFINE D == DayLength
<1> DEFINE p == t \div D
<1> DEFINE q == (t + 1) \div D
<1>1. D \in Nat /\ D > 0
  BY QueueConstants
<1>2. p \in Nat /\ q \in Nat /\ D * p <= t /\ t + 1 < D * q + D
  BY <1>1
<1>3. ASSUME q < p PROVE FALSE
  <2> HIDE DEF D, p, q
  <2>1. q + 1 <= p
    BY <1>2, <1>3
  <2>2. D * (q + 1) <= D * p
    BY <1>1, <1>2, <2>1
  <2>3. D * (q + 1) = D * q + D
    BY <1>1, <1>2
  <2> QED BY <1>1, <1>2, <2>2, <2>3
<1> QED BY <1>2, <1>3 DEF Today

LEMMA RunPairs ==
    /\ \A r \in Runs : r[1] \in Roots /\ r[2] \in 0..MaxSeq /\ r = <<r[1], r[2]>>
    /\ \A i \in Roots, k \in 0..MaxSeq : <<i, k>> \in Runs
BY DEF Runs

\* What a transaction that claims nothing keeps of a row, as far as the queue
\* is concerned.
Kept(old, new) ==
    /\ new \in Row /\ RowOK(new)
    /\ new.owner = old.owner /\ Len(new.attempts) = Len(old.attempts)
    /\ new.day = old.day /\ new.identity = old.identity /\ new.complete = old.complete
    /\ new.status = "running" => old.status = "running"
    /\ new.status = "absent" <=> old.status = "absent"

\* The fields of a row that each transaction leaves alone.
LEMMA RowFields ==
    ASSUME NEW row \in Row
    PROVE  /\ \A n, status : /\ Closed(row, n, status).day = row.day
                             /\ Closed(row, n, status).resumeAt = row.resumeAt
           /\ \A n, t : /\ Renewed(row, n, t).day = row.day
                        /\ Renewed(row, n, t).resumeAt = row.resumeAt
           /\ \A t : Claimed(row, t).day = row.day /\ Claimed(row, t).resumeAt = row.resumeAt
           /\ \A x, complete : /\ Checkpointed(row, x, complete).day = row.day
                               /\ Checkpointed(row, x, complete).resumeAt = row.resumeAt
           /\ \A n, status, at :
                 /\ Finished(row, n, status, at).day = row.day
                 /\ Finished(row, n, status, at).resumeAt =
                       IF status = "partial" THEN at ELSE NoTime
BY DEF Closed, Renewed, Claimed, Checkpointed, Finished, Row

LEMMA KeptSame == ASSUME NEW row \in Row, RowOK(row) PROVE Kept(row, row)
BY DEF Kept

LEMMA KeptRecovered ==
    ASSUME NEW row \in Row, RowOK(row), NEW n \in RunningAttempts(row)
    PROVE  Kept(row, Recovered(row, n)) /\ Recovered(row, n).status = "interrupted"
<1> DEFINE new == Recovered(row, n)
<1>1. /\ RowOK(new) /\ new.status = "interrupted" /\ new.owner = row.owner
      /\ Len(new.attempts) = Len(row.attempts) /\ new.complete = row.complete
      /\ new.identity = row.identity
  BY ClosedRow DEF Recovered, TerminalStatus
<1>2. new.day = row.day
  BY RowFields DEF Recovered
<1>3. row.status # "absent"
  BY DEF RowOK
<1> QED BY <1>1, <1>2, <1>3 DEF Kept, RowOK

LEMMA KeptRenewed ==
    ASSUME NEW row \in Row, RowOK(row), NEW n \in RunningAttempts(row), NEW t \in Nat
    PROVE  Kept(row, Renewed(row, n, t))
<1> DEFINE new == Renewed(row, n, t)
<1>1. /\ RowOK(new) /\ new.status = row.status /\ new.owner = row.owner
      /\ Len(new.attempts) = Len(row.attempts) /\ new.complete = row.complete
      /\ new.identity = row.identity
  BY RenewedRow
<1>2. new.day = row.day
  BY RowFields
<1> QED BY <1>1, <1>2 DEF Kept, RowOK

\* A recovery keeps every row.
LEMMA RecoveredKeeps ==
    ASSUME NEW rows \in [Runs -> Row], \A r \in Runs : RowOK(rows[r]), NEW t
    PROVE  /\ RecoveredRows(rows, Runs, t) \in [Runs -> Row]
           /\ \A r \in Runs : Kept(rows[r], RecoveredRows(rows, Runs, t)[r])
<1> SUFFICES ASSUME NEW r \in Runs PROVE Kept(rows[r], RecoveredRows(rows, Runs, t)[r])
  BY DEF RecoveredRows, Kept
<1>1. CASE Expired(rows[r], t) # {}
  <2> DEFINE n == CHOOSE n \in Expired(rows[r], t) : TRUE
  <2>1. n \in Expired(rows[r], t)
    BY <1>1
  <2>2. n \in RunningAttempts(rows[r])
    BY <2>1 DEF Expired
  <2>3. RecoveredRows(rows, Runs, t)[r] = Recovered(rows[r], n)
    BY <1>1 DEF RecoveredRows
  <2> HIDE DEF n
  <2> QED BY <2>2, <2>3, KeptRecovered
<1>2. CASE Expired(rows[r], t) = {}
  <2>1. RecoveredRows(rows, Runs, t)[r] = rows[r]
    BY <1>2 DEF RecoveredRows
  <2> QED BY <2>1, KeptSame
<1> QED BY <1>1, <1>2

-----------------------------------------------------------------------------
(* Changes of one table.                                                   *)

LEMMA ChildrenCount ==
    ASSUME NEW rows, NEW i
    PROVE  Cardinality(Children(rows, i)) \in Nat
<1>1. Children(rows, i) \subseteq 1..MaxSeq
  BY DEF Children
<1>2. IsFiniteSet(1..MaxSeq)
  BY FS_Interval, BoundsAreNaturals
<1> QED BY <1>1, <1>2, FS_Subset, FS_CardinalityType

LEMMA ChildrenKept ==
    ASSUME NEW rows, NEW new, NEW i \in Roots,
           \A r \in Runs : new[r].status = "absent" <=> rows[r].status = "absent"
    PROVE  Children(new, i) = Children(rows, i)
BY RunPairs, BoundsAreNaturals DEF Children

LEMMA CalendarRows ==
    ASSUME NEW rows, NEW items, NEW t, NEW new, Calendar(rows, items, t),
           \A r \in Runs : /\ new[r].day = rows[r].day
                           /\ new[r].status = "absent" <=> rows[r].status = "absent"
    PROVE  Calendar(new, items, t)
<1> SUFFICES ASSUME NEW i \in Roots
    PROVE  /\ Children(new, i) = 1..Cardinality(Children(new, i))
           /\ \A j, k \in Children(new, i) : j < k => new[<<i, j>>].day < new[<<i, k>>].day
           /\ \A k \in Children(new, i) : /\ items[i].day < new[<<i, k>>].day
                                          /\ new[<<i, k>>].day <= Today(t)
           /\ Children(new, i) # {} => new[<<i, 0>>].status # "absent"
           /\ items[i].state = "absent" =>
                 \A r \in Runs : r[1] = i => new[r].status = "absent"
           /\ items[i].state # "absent" => items[i].day \in Days /\ items[i].day <= Today(t)
  BY DEF Calendar
<1>1. Children(new, i) = Children(rows, i)
  BY ChildrenKept
<1>2. \A k \in Children(rows, i) : <<i, k>> \in Runs
  BY RunPairs, BoundsAreNaturals DEF Children
<1>3. <<i, 0>> \in Runs
  BY RunPairs, BoundsAreNaturals
<1> QED BY <1>1, <1>2, <1>3 DEF Calendar

LEMMA SoundRows ==
    ASSUME NEW rows, NEW items, NEW t, NEW new, Sound(rows, items, t),
           new \in [Runs -> Row], \A r \in Runs : Kept(rows[r], new[r])
    PROVE  Sound(new, items, t)
<1>1. Holds(new, items)
  BY DEF Sound, Holds, Kept
<1>2. Completed(new, items)
  BY DEF Sound, Completed, Kept
<1>3. Scoped(new)
  BY DEF Sound, Scoped, Kept
<1>4. Calendar(new, items, t)
  BY CalendarRows DEF Sound, Kept
<1> QED BY <1>1, <1>2, <1>3, <1>4 DEF Sound, Kept

\* No run of the item's family is running.
Quiet(rows, i) == \A r \in Runs : r[1] = i => rows[r].status # "running"

\* An item that keeps its day, or gets the day of today when it enters.
Dated(old, new, t) ==
    /\ new.state # "absent"
    /\ IF old.state = "absent" THEN new.day = Today(t) ELSE new.day = old.day

\* An item may move while no run of its family does, but not out of the end.
Moves(rows, i, old, new, t) ==
    /\ Quiet(rows, i) /\ Dated(old, new, t)
    /\ old.state = "terminal" => new.state = "terminal"

LEMMA CalendarItems ==
    ASSUME NEW rows, NEW items, NEW t, NEW new, Calendar(rows, items, t),
           Today(t) \in Days, Today(t) \in Nat,
           \A i \in Roots : new[i] = items[i] \/ Dated(items[i], new[i], t)
    PROVE  Calendar(rows, new, t)
<1> SUFFICES ASSUME NEW i \in Roots
    PROVE  /\ \A k \in Children(rows, i) : new[i].day < rows[<<i, k>>].day
           /\ new[i].state = "absent" =>
                 \A r \in Runs : r[1] = i => rows[r].status = "absent"
           /\ new[i].state # "absent" => new[i].day \in Days /\ new[i].day <= Today(t)
  BY DEF Calendar
<1>1. CASE new[i].day = items[i].day /\ (new[i].state = "absent" <=> items[i].state = "absent")
  BY <1>1 DEF Calendar
<1>2. CASE items[i].state = "absent" /\ new[i].day = Today(t) /\ new[i].state # "absent"
  <2>1. Children(rows, i) = {}
    <3>1. \A r \in Runs : r[1] = i => rows[r].status = "absent"
      BY <1>2 DEF Calendar
    <3>2. \A k \in 1..MaxSeq : <<i, k>> \in Runs /\ <<i, k>>[1] = i
      BY RunPairs, BoundsAreNaturals
    <3> QED BY <3>1, <3>2 DEF Children
  <2> QED BY <1>2, <2>1
<1> QED BY <1>1, <1>2 DEF Dated

LEMMA SoundItems ==
    ASSUME NEW rows, NEW items, NEW t, NEW new, Sound(rows, items, t),
           new \in [Roots -> Item], Today(t) \in Days, Today(t) \in Nat,
           \A i \in Roots : new[i] = items[i] \/ Moves(rows, i, items[i], new[i], t)
    PROVE  Sound(rows, new, t)
<1>1. Holds(rows, new) /\ Completed(rows, new)
  BY RunPairs DEF Sound, Holds, Completed, Moves, Quiet
<1>2. Calendar(rows, new, t)
  BY CalendarItems DEF Sound, Moves
<1> QED BY <1>1, <1>2 DEF Sound

LEMMA HeldOrQuiet ==
    ASSUME NEW rows, NEW items, NEW i \in Roots, Holds(rows, items),
           items[i].state # "running"
    PROVE  Quiet(rows, i)
BY DEF Holds, Quiet

-----------------------------------------------------------------------------
(* The parts of a dispatch.                                                *)

LEMMA SoundRecovered ==
    ASSUME NEW rows, NEW items, NEW t \in 0..MaxNow, NEW at, Sound(rows, items, t)
    PROVE  LET new == RecoveredRows(rows, Runs, at)
           IN  Sound(new, items, t) /\ Sound(new, RecoveredItems(items, new, at), t)
<1> DEFINE new == RecoveredRows(rows, Runs, at)
<1> DEFINE after == RecoveredItems(items, new, at)
<1>1. Sound(new, items, t)
  <2>1. rows \in [Runs -> Row] /\ \A r \in Runs : RowOK(rows[r])
    BY DEF Sound
  <2>2. new \in [Runs -> Row] /\ \A r \in Runs : Kept(rows[r], new[r])
    BY <2>1, RecoveredKeeps
  <2> HIDE DEF new
  <2> QED BY <2>2, SoundRows
<1>2. \A i \in Roots : after[i] =
          IF StaleItem(items[i], new, at)
          THEN [items[i] EXCEPT !.state = "runnable", !.owner = NoOwner] ELSE items[i]
  BY DEF RecoveredItems
<1>3. after \in [Roots -> Item]
  <2>1. \A x \in Item : [x EXCEPT !.state = "runnable", !.owner = NoOwner] \in Item
    BY DEF Item, ItemState
  <2>2. items \in [Roots -> Item]
    BY DEF Sound
  <2> HIDE DEF new
  <2> QED BY <2>1, <2>2 DEF RecoveredItems
<1> HIDE DEF new, after
<1>4. ASSUME NEW i \in Roots, StaleItem(items[i], new, at)
      PROVE  Moves(new, i, items[i], after[i], t)
  <2>1. Quiet(new, i)
    <3> SUFFICES ASSUME NEW r \in Runs, r[1] = i, new[r].status = "running" PROVE FALSE
      BY DEF Quiet
    <3>1. items[i].owner = <<r, new[r].owner>>
      BY <1>1 DEF Sound, Holds
    <3>2. new[r].owner \in RunningAttempts(new[r])
      BY <1>1 DEF Sound, RowOK
    <3>3. TokenRuns(new, items[i].owner)
      BY <3>1, <3>2 DEF TokenRuns, NoOwner
    <3> QED BY <1>4, <3>3 DEF StaleItem
  <2>2. items[i] \in Item /\ items[i].state = "running"
    BY <1>4 DEF Sound, StaleItem
  <2>3. after[i].state = "runnable" /\ after[i].day = items[i].day
    BY <1>2, <1>4, <2>2 DEF Item
  <2> QED BY <2>1, <2>2, <2>3 DEF Moves, Dated
<1>5. Sound(new, after, t)
  BY <1>1, <1>2, <1>3, <1>4, SoundItems, TodayIsDay
<1> QED BY <1>1, <1>5 DEF new, after

\* The row an anchor writes.
AnchorRow(t) == Finished(Claimed(NewRow(Scope, NoTime, 0), t), 1, "partial", t)

LEMMA AnchorRowIs ==
    ASSUME NEW t \in Nat
    PROVE  /\ AnchorRow(t) \in Row /\ RowOK(AnchorRow(t)) /\ AnchorRow(t).status = "partial"
           /\ AnchorRow(t).identity = Scope /\ AnchorRow(t).complete = FALSE
           /\ Len(AnchorRow(t).attempts) = 1 /\ AnchorRow(t).resumeAt = t
<1> DEFINE b == NewRow(Scope, NoTime, 0)
<1> DEFINE c == Claimed(b, t)
<1>1. /\ b \in Row /\ b.attempts = <<>> /\ b.owner = Len(b.attempts)
      /\ RunningAttempts(b) = {} /\ b.identity = Scope
  BY NewRowType, QueueConstants
<1>2. b.complete = FALSE
  BY DEF NewRow, AbsentRow
<1> HIDE DEF b
<1>3. /\ RowOK(c) /\ c.status = "running" /\ c.owner = Len(b.attempts) + 1
      /\ Len(c.attempts) = Len(b.attempts) + 1
      /\ c.complete = FALSE /\ c.identity = Scope
  BY <1>1, <1>2, ClaimedRow, QueueConstants
<1>4. Len(b.attempts) = 0
  BY <1>1
<1> HIDE DEF c
<1>5. 1 \in RunningAttempts(c) /\ c \in Row
  BY <1>3, <1>4 DEF RowOK
<1>6. AnchorRow(t) = Finished(c, 1, "partial", t)
  BY DEF AnchorRow, c, b
<1>7. "partial" \in TerminalStatus
  BY DEF TerminalStatus
<1> DEFINE f == Finished(c, 1, "partial", t)
<1>8. /\ RowOK(f) /\ f.status = "partial" /\ Len(f.attempts) = Len(c.attempts)
      /\ f.complete = c.complete /\ f.identity = c.identity
  BY <1>3, <1>5, <1>7, FinishedRow
<1>9. f.resumeAt = t
  BY <1>5, RowFields
<1>10. f \in Row
  BY <1>8 DEF RowOK
<1> HIDE DEF f
<1> QED BY <1>3, <1>4, <1>6, <1>8, <1>9, <1>10 DEF f

LEMMA SoundAnchored ==
    ASSUME NEW rows, NEW items, NEW t \in 0..MaxNow, NEW i \in Roots,
           Sound(rows, items, t), items[i].state = "runnable"
    PROVE  LET new == Anchored(rows, i, items[i].day, t)
           IN  /\ Sound(new, items, t) /\ Quiet(new, i)
               /\ Today(t) # items[i].day => new[RootRun(i)].status # "absent"
               /\ \A r \in Runs : \/ new[r] = rows[r]
                                  \/ /\ r = RootRun(i) /\ new[r] = AnchorRow(t)
                                     /\ rows[r] = AbsentRow
<1> DEFINE day == items[i].day
<1> DEFINE new == Anchored(rows, i, day, t)
<1>1. t \in Nat /\ RootRun(i) \in Runs
  BY RunPairs, BoundsAreNaturals DEF RootRun
<1>2. Quiet(rows, i)
  BY HeldOrQuiet DEF Sound
<1>3. CASE rows[RootRun(i)].status = "absent" /\ Today(t) # day
  <2>1. \A r \in Runs : new[r] = IF r = RootRun(i) THEN AnchorRow(t) ELSE rows[r]
    BY <1>3 DEF Anchored, AnchorRow
  <2>2. new \in [Runs -> Row]
    <3>1. AnchorRow(t) \in Row /\ rows \in [Runs -> Row]
      BY <1>1, AnchorRowIs DEF Sound
    <3>2. new = [r \in Runs |-> IF r = RootRun(i) THEN AnchorRow(t) ELSE rows[r]]
      BY <1>3 DEF Anchored, AnchorRow
    <3> HIDE DEF new
    <3> QED BY <3>1, <3>2
  <2>3. rows[RootRun(i)] = AbsentRow
    BY <1>1, <1>3 DEF Sound, RowOK
  <2> HIDE DEF new
  <2>4. \A r \in Runs : RowOK(new[r])
    BY <1>1, <2>1, AnchorRowIs DEF Sound
  <2> DEFINE anchor == AnchorRow(t)
  <2>a. anchor.status # "running" /\ ~anchor.complete
    BY <1>1, AnchorRowIs
  <2>b. \A r \in Runs : new[r] = anchor \/ new[r] = rows[r]
    BY <2>1
  <2> HIDE DEF anchor
  <2>5. Holds(new, items)
    BY <2>a, <2>b DEF Sound, Holds
  <2>c. Completed(new, items)
    BY <2>a, <2>b DEF Sound, Completed
  <2>6. Scoped(new)
    <3>1. AnchorRow(t).identity = Scope
      BY <1>1, AnchorRowIs
    <3>2. \A r \in Runs : rows[r].status # "absent" => rows[r].identity = Scope
      BY DEF Sound, Scoped
    <3>3. \A r \in Runs : new[r].status # "absent" => new[r].identity = Scope
      BY <2>1, <3>1, <3>2
    <3> QED BY <3>3 DEF Scoped
  <2>7. Calendar(new, items, t)
    <3> SUFFICES ASSUME NEW j \in Roots
        PROVE  /\ Children(new, j) = 1..Cardinality(Children(new, j))
               /\ \A a, b \in Children(new, j) : a < b => new[<<j, a>>].day < new[<<j, b>>].day
               /\ \A k \in Children(new, j) : /\ items[j].day < new[<<j, k>>].day
                                              /\ new[<<j, k>>].day <= Today(t)
               /\ Children(new, j) # {} => new[<<j, 0>>].status # "absent"
               /\ items[j].state = "absent" =>
                     \A r \in Runs : r[1] = j => new[r].status = "absent"
               /\ items[j].state # "absent" => items[j].day \in Days /\ items[j].day <= Today(t)
      BY DEF Calendar
    <3>1. \A k \in 1..MaxSeq : new[<<j, k>>] = rows[<<j, k>>]
      BY <2>1, RunPairs, BoundsAreNaturals DEF RootRun
    <3>2. Children(new, j) = Children(rows, j) /\ Children(rows, j) \subseteq 1..MaxSeq
      BY <3>1 DEF Children
    <3>3. rows[<<j, 0>>].status # "absent" => new[<<j, 0>>].status # "absent"
      <4>1. <<j, 0>> \in Runs
        BY RunPairs, BoundsAreNaturals
      <4>2. AnchorRow(t).status # "absent"
        BY <1>1, AnchorRowIs
      <4> QED BY <2>1, <4>1, <4>2
    <3>4. j # i => \A r \in Runs : r[1] = j => new[r] = rows[r]
      BY <2>1 DEF RootRun
    <3> QED BY <3>1, <3>2, <3>3, <3>4 DEF Sound, Calendar
  <2>8. Quiet(new, i) /\ new[RootRun(i)].status # "absent"
    BY <1>1, <1>2, <2>1, AnchorRowIs DEF Quiet
  <2> QED BY <2>1, <2>2, <2>3, <2>4, <2>5, <2>c, <2>6, <2>7, <2>8 DEF Sound, new
<1>4. CASE ~(rows[RootRun(i)].status = "absent" /\ Today(t) # day)
  <2>1. new = rows
    BY <1>4 DEF Anchored, Sound
  <2> QED BY <1>2, <1>4, <2>1
<1> QED BY <1>3, <1>4

\* Today's continuation is the only one of that day, or the next one to be born.
LEMMA ContinuationIs ==
    ASSUME NEW rows \in [Runs -> Row], NEW items, NEW t, NEW i \in Roots,
           Calendar(rows, items, t)
    PROVE  LET k == ContinuationFor(rows, i, Today(t))
           IN  \/ k \in Children(rows, i) /\ rows[<<i, k>>].day = Today(t)
               \/ /\ \A j \in Children(rows, i) : rows[<<i, j>>].day # Today(t)
                  /\ k = Cardinality(Children(rows, i)) + 1
<1> DEFINE todays == {k \in Children(rows, i) : rows[<<i, k>>].day = Today(t)}
<1>1. CASE todays # {}
  <2>1. PICK m \in todays : TRUE
    BY <1>1
  <2>2. \A j \in todays : <<i, j>> \in Runs /\ rows[<<i, j>>].day \in Int /\ j \in Int
    BY RunPairs, BoundsAreNaturals DEF Children, Row, NoTime
  <2>3. \A j \in todays : j <= m
    <3> SUFFICES ASSUME NEW j \in todays, m < j PROVE FALSE
      BY <2>2
    <3>1. rows[<<i, m>>].day < rows[<<i, j>>].day
      BY <2>1 DEF Calendar
    <3> QED BY <2>1, <2>2, <3>1
  <2>4. (CHOOSE k \in todays : \A j \in todays : j <= k) \in todays
    BY <2>1, <2>3
  <2>5. ContinuationFor(rows, i, Today(t)) = CHOOSE k \in todays : \A j \in todays : j <= k
    BY <1>1 DEF ContinuationFor
  <2> QED BY <2>4, <2>5
<1>2. CASE todays = {}
  BY <1>2 DEF ContinuationFor
<1> QED BY <1>1, <1>2

\* The row of a root that is born.
LEMMA NewRootIs ==
    LET b == NewRow(Scope, NoTime, 0)
    IN  /\ b \in Row /\ b.attempts = <<>> /\ b.owner = Len(b.attempts)
        /\ RunningAttempts(b) = {} /\ b.identity = Scope
BY NewRowType, QueueConstants

\* The row a dispatch claims: sound, nobody's, not complete, of the frozen scope.
LEMMA BaseRow ==
    ASSUME NEW rows \in [Runs -> Row], NEW items, NEW t \in 0..MaxNow, Sound(rows, items, t),
           NEW r \in Runs, items[r[1]].state = "runnable", Claimable(rows, r, t)
    PROVE  LET base == RowToClaim(rows, r, t)
           IN  /\ base \in Row /\ base.owner = Len(base.attempts)
               /\ RunningAttempts(base) = {} /\ base.identity = Scope
               /\ ~base.complete /\ base.attempts = rows[r].attempts
               /\ rows[r].status = "absent" /\ ~IsRoot(r) => base.day = Today(t)
               /\ rows[r].status # "absent" \/ IsRoot(r) => base.day = rows[r].day
<1> DEFINE base == RowToClaim(rows, r, t)
<1>1. /\ rows \in [Runs -> Row] /\ rows[r] \in Row /\ RowOK(rows[r])
      /\ rows[r].complete \in BOOLEAN
  BY DEF Sound, Row
<1>2. r[1] \in Roots /\ rows[r].status # "running"
  BY RunPairs, HeldOrQuiet DEF Sound, Quiet
<1>3. ~rows[r].complete
  BY <1>1 DEF Sound, Completed
<1>4. Today(t) \in Days /\ NoTime \notin Days
  BY TodayIsDay, BoundsAreNaturals DEF NoTime
<1>5. CASE rows[r].status # "absent"
  <2>1. base = rows[r]
    BY <1>5 DEF RowToClaim
  <2>2. base.identity = Scope
    BY <1>5, <2>1 DEF Sound, Scoped
  <2> HIDE DEF base
  <2> QED BY <1>1, <1>2, <1>3, <1>5, <2>1, <2>2 DEF RowOK, base
<1>6. CASE rows[r].status = "absent"
  <2>1. rows[r] = AbsentRow
    BY <1>1, <1>6 DEF RowOK
  <2>2. rows[r].attempts = <<>> /\ rows[r].day = NoTime
    BY <2>1 DEF AbsentRow
  <2>3. CASE IsRoot(r)
    <3>1. base = NewRow(Scope, NoTime, 0)
      BY <1>6, <2>3 DEF RowToClaim
    <3>2. ~base.complete /\ base.day = NoTime
      BY <3>1 DEF NewRow, AbsentRow
    <3>3. /\ base \in Row /\ base.attempts = <<>> /\ base.owner = Len(base.attempts)
          /\ RunningAttempts(base) = {} /\ base.identity = Scope
      <4> HIDE DEF base
      <4> QED BY <3>1, NewRootIs
    <3> QED BY <2>2, <2>3, <3>2, <3>3
  <2>4. CASE ~IsRoot(r)
    <3> DEFINE id == rows[RootOf(r)].identity
    <3> DEFINE k == rows[Predecessor(r)].items
    <3>1. RootOf(r) \in Runs /\ Predecessor(r) \in Runs
      BY <2>4, RunPairs, BoundsAreNaturals DEF RootOf, Predecessor, IsRoot, Runs
    <3>2. id = Scope
      BY <2>4, <3>1 DEF Claimable, RootYielded, Sound, Scoped
    <3>3. k \in Nat
      BY <1>1, <3>1 DEF Row
    <3>4. base = NewRow(id, Today(t), k)
      BY <1>6, <2>4 DEF RowToClaim, NewChildRow
    <3>5. ~base.complete /\ base.day = Today(t)
      BY <3>4 DEF NewRow, AbsentRow
    <3>6. /\ base \in Row /\ base.attempts = <<>> /\ base.owner = Len(base.attempts)
          /\ RunningAttempts(base) = {} /\ base.identity = id
      <4> HIDE DEF id, k
      <4> QED BY <1>4, <3>2, <3>3, <3>4, NewRowType, QueueConstants
    <3> QED BY <1>6, <2>2, <2>4, <3>2, <3>5, <3>6
  <2> QED BY <2>3, <2>4
<1> QED BY <1>5, <1>6

\* What a dispatch that claims run r makes of the two tables.
StartedRows(rows, r, t) == [rows EXCEPT ![r] = Claimed(RowToClaim(rows, r, t), t)]
StartedItem(item, token, lease) ==
    [item EXCEPT !.state = "running", !.owner = token, !.lease = lease, !.nudged = FALSE]

LEMMA StartedItemIs ==
    ASSUME NEW item \in Item, NEW token \in Runs \X Nat, NEW lease \in Nat
    PROVE  LET new == StartedItem(item, token, lease)
           IN  /\ new \in Item /\ new.state = "running" /\ new.owner = token
               /\ new.day = item.day
<1>1. token \in (Runs \X Nat) \cup {NoOwner}
  OBVIOUS
<1> QED BY <1>1 DEF StartedItem, Item, ItemState

LEMMA ClaimedBase ==
    ASSUME NEW rows \in [Runs -> Row], NEW items, NEW t \in 0..MaxNow, Sound(rows, items, t),
           NEW r \in Runs, items[r[1]].state = "runnable", Claimable(rows, r, t)
    PROVE  LET row == Claimed(RowToClaim(rows, r, t), t)
           IN  /\ row \in Row /\ RowOK(row) /\ row.status = "running"
               /\ row.owner = Len(rows[r].attempts) + 1 /\ Len(row.attempts) = row.owner
               /\ row.owner \in Nat
               /\ row.identity = Scope /\ ~row.complete
               /\ rows[r].status = "absent" /\ ~IsRoot(r) => row.day = Today(t)
               /\ rows[r].status # "absent" \/ IsRoot(r) => row.day = rows[r].day
<1> DEFINE base == RowToClaim(rows, r, t)
<1> DEFINE row == Claimed(base, t)
<1>1. /\ base \in Row /\ base.owner = Len(base.attempts)
      /\ RunningAttempts(base) = {} /\ base.identity = Scope
      /\ ~base.complete /\ base.attempts = rows[r].attempts
      /\ rows[r].status = "absent" /\ ~IsRoot(r) => base.day = Today(t)
      /\ rows[r].status # "absent" \/ IsRoot(r) => base.day = rows[r].day
  BY BaseRow
<1> HIDE DEF base
<1>2. t \in Nat /\ Scope \in Identities
  BY QueueConstants, BoundsAreNaturals
<1>3. /\ RowOK(row) /\ row.status = "running" /\ row.owner = Len(base.attempts) + 1
      /\ Len(row.attempts) = Len(base.attempts) + 1
      /\ row.complete = base.complete /\ row.identity = base.identity
  BY <1>1, <1>2, ClaimedRow
<1>4. row.day = base.day
  BY <1>1, RowFields
<1> HIDE DEF row
<1>5. row \in Row /\ Len(base.attempts) \in Nat
  BY <1>1, <1>3, RowAttempts DEF RowOK
<1> QED BY <1>1, <1>3, <1>4, <1>5 DEF row, base

\* The claimed row, and the day the execution is charged to.
LEMMA StartedRow ==
    ASSUME NEW rows \in [Runs -> Row], NEW items, NEW t \in 0..MaxNow, NEW i \in Roots, NEW r \in Runs,
           Sound(rows, items, t), items[i].state = "runnable",
           r = RunFor(rows, i, items[i].day, t), Claimable(rows, r, t)
    PROVE  LET row == Claimed(RowToClaim(rows, r, t), t)
           IN  /\ row \in Row /\ RowOK(row) /\ row.status = "running"
               /\ row.owner = Len(rows[r].attempts) + 1 /\ Len(row.attempts) = row.owner
               /\ row.owner \in Nat
               /\ row.identity = Scope /\ ~row.complete
               /\ rows[r].status # "absent" => row.day = rows[r].day
               /\ r[1] = i
               /\ IF IsRoot(r) THEN items[i].day = Today(t) /\ r = RootRun(i)
                  ELSE row.day = Today(t) /\ items[i].day # Today(t)
<1> DEFINE row == Claimed(RowToClaim(rows, r, t), t)
<1>1. r[1] = i
  BY DEF RunFor, RootRun
<1>2. items[r[1]].state = "runnable"
  BY <1>1
<1>3. /\ row \in Row /\ RowOK(row) /\ row.status = "running"
      /\ row.owner = Len(rows[r].attempts) + 1 /\ Len(row.attempts) = row.owner
      /\ row.owner \in Nat
      /\ row.identity = Scope /\ ~row.complete
      /\ rows[r].status = "absent" /\ ~IsRoot(r) => row.day = Today(t)
      /\ rows[r].status # "absent" \/ IsRoot(r) => row.day = rows[r].day
  BY <1>2, ClaimedBase
<1> HIDE DEF row
<1>7. CASE Today(t) = items[i].day
  <2>1. r = RootRun(i) /\ IsRoot(r)
    BY <1>7 DEF RunFor, RootRun, IsRoot
  <2> QED BY <1>1, <1>3, <1>7, <2>1 DEF row
<1>8. CASE Today(t) # items[i].day
  <2> DEFINE k == ContinuationFor(rows, i, Today(t))
  <2>1. r = <<i, k>>
    BY <1>8 DEF RunFor
  <2>2. \/ k \in Children(rows, i) /\ rows[<<i, k>>].day = Today(t)
        \/ k = Cardinality(Children(rows, i)) + 1
    BY ContinuationIs DEF Sound
  <2>3. Cardinality(Children(rows, i)) \in Nat
    BY ChildrenCount
  <2> HIDE DEF k
  <2>4. k # 0
    BY <2>2, <2>3, BoundsAreNaturals DEF Children
  <2>5. ~IsRoot(r)
    BY <2>1, <2>4 DEF IsRoot
  <2>6. row.day = Today(t)
    <3>1. CASE rows[r].status = "absent"
      BY <1>3, <2>5, <3>1
    <3>2. CASE rows[r].status # "absent"
      <4>1. k \in 0..MaxSeq
        BY <2>1, RunPairs
      <4>2. k \in Children(rows, i)
        BY <2>1, <2>3, <2>4, <3>2, <4>1, BoundsAreNaturals DEF Children
      <4>3. Children(rows, i) = 1..Cardinality(Children(rows, i))
        BY DEF Sound, Calendar
      <4>4. k # Cardinality(Children(rows, i)) + 1
        <5> DEFINE c == Cardinality(Children(rows, i))
        <5>1. k \in 1..c /\ c \in Nat
          BY <2>3, <4>2, <4>3
        <5> HIDE DEF c
        <5>2. k # c + 1
          BY <5>1
        <5> QED BY <5>2 DEF c
      <4> QED BY <1>3, <2>1, <2>2, <3>2, <4>4
    <3> QED BY <3>1, <3>2
  <2> QED BY <1>1, <1>3, <1>8, <2>5, <2>6 DEF row
<1> QED BY <1>7, <1>8

\* A birth adds the next sequence number, a later claim adds none.
LEMMA ChildrenStarted ==
    ASSUME NEW rows \in [Runs -> Row], NEW items, NEW t \in 0..MaxNow, NEW i \in Roots, NEW r \in Runs,
           Sound(rows, items, t), items[i].state = "runnable",
           r = RunFor(rows, i, items[i].day, t), Claimable(rows, r, t), NEW new,
           \A q \in Runs : q # r => new[q] = rows[q],
           new[r].status # "absent"
    PROVE  /\ Children(new, i) = 1..Cardinality(Children(new, i))
           /\ \A k \in Children(new, i) : k \in Children(rows, i) \/ r = <<i, k>>
           /\ r[2] \in Children(rows, i) \/ IsRoot(r)
              \/ \A k \in Children(rows, i) : rows[<<i, k>>].day # Today(t) /\ k < r[2]
<1> DEFINE n == Cardinality(Children(rows, i))
<1> DEFINE m == r[2]
<1>1. r = <<i, m>> /\ m \in 0..MaxSeq
  BY RunPairs DEF RunFor, RootRun
<1>2. Children(rows, i) = 1..n
  BY DEF Sound, Calendar
<1>3. n \in Nat
  BY ChildrenCount
<1>4. \A k \in 1..MaxSeq : k # m => (k \in Children(new, i) <=> k \in Children(rows, i))
  <2> TAKE k \in 1..MaxSeq
  <2> HAVE k # m
  <2>1. <<i, k>> \in Runs /\ <<i, k>> # r
    BY <1>1, RunPairs, BoundsAreNaturals
  <2> QED BY <2>1 DEF Children
<1>5. m \in 1..MaxSeq => m \in Children(new, i)
  BY <1>1 DEF Children
<1>6. Children(new, i) \subseteq 1..MaxSeq /\ Children(rows, i) \subseteq 1..MaxSeq
  BY DEF Children
<1>7. CASE m = 0 \/ m \in Children(rows, i)
  <2>1. Children(new, i) = Children(rows, i)
    <3>1. \A k \in 1..MaxSeq : k \in Children(new, i) <=> k \in Children(rows, i)
      BY <1>4, <1>5, <1>7
    <3> QED BY <1>6, <3>1
  <2> QED BY <1>2, <1>7, <2>1 DEF IsRoot
<1>8. CASE m # 0 /\ m \notin Children(rows, i)
  <2>1. r = <<i, ContinuationFor(rows, i, Today(t))>>
    BY <1>1, <1>8 DEF RunFor, RootRun
  <2>2. m = n + 1 /\ \A j \in Children(rows, i) : rows[<<i, j>>].day # Today(t)
    <3>1. m = ContinuationFor(rows, i, Today(t))
      BY <2>1
    <3>2. rows \in [Runs -> Row] /\ Calendar(rows, items, t)
      BY DEF Sound
    <3>3. LET k == ContinuationFor(rows, i, Today(t))
          IN  \/ k \in Children(rows, i) /\ rows[<<i, k>>].day = Today(t)
              \/ /\ \A j \in Children(rows, i) : rows[<<i, j>>].day # Today(t)
                 /\ k = Cardinality(Children(rows, i)) + 1
      BY <3>2, ContinuationIs
    <3> HIDE DEF m
    <3> QED BY <1>8, <3>1, <3>3
  <2>3. Children(new, i) = 1..m
    <3> HIDE DEF n, m
    <3>1. m \in 1..MaxSeq
      BY <1>1, <1>8, BoundsAreNaturals
    <3>2. \A k \in Children(new, i) : k \in 1..m
      <4> TAKE k \in Children(new, i)
      <4>1. k \in 1..MaxSeq /\ (k = m \/ k \in 1..n)
        BY <1>2, <1>4, <1>6
      <4> QED BY <1>3, <2>2, <3>1, <4>1
    <3>3. \A k \in 1..m : k \in Children(new, i)
      <4> TAKE k \in 1..m
      <4>1. k \in 1..MaxSeq
        BY <3>1, BoundsAreNaturals
      <4>2. k = m \/ k \in 1..n
        BY <1>3, <2>2
      <4> QED BY <1>2, <1>4, <1>5, <3>1, <4>1, <4>2
    <3> QED BY <3>2, <3>3
  <2>4. Cardinality(Children(new, i)) = m
    <3> HIDE DEF n, m
    <3>1. m \in Nat /\ 1 \in Int /\ m \in Int
      BY <1>1, BoundsAreNaturals
    <3>2. Cardinality(1..m) = IF 1 > m THEN 0 ELSE m - 1 + 1
      BY <3>1, FS_Interval
    <3> QED BY <1>3, <2>2, <2>3, <3>1, <3>2
  <2>5. \A k \in Children(new, i) : k \in Children(rows, i) \/ r = <<i, k>>
    BY <1>1, <1>4, <1>6
  <2>6. \A k \in Children(rows, i) : k < m
    <3> HIDE DEF n, m
    <3> QED BY <1>2, <1>3, <2>2
  <2> QED BY <2>2, <2>3, <2>4, <2>5, <2>6
<1> QED BY <1>7, <1>8

\* A dispatch that claims takes a sound pair of tables to a sound pair.
LEMMA SoundStarted ==
    ASSUME NEW rows \in [Runs -> Row], NEW items \in [Roots -> Item], NEW t \in 0..MaxNow,
           NEW i \in Roots, NEW r \in Runs, NEW lease \in Nat,
           Sound(rows, items, t), items[i].state = "runnable",
           r = RunFor(rows, i, items[i].day, t), Claimable(rows, r, t),
           Today(t) # items[i].day => rows[RootRun(i)].status # "absent"
    PROVE  LET row == Claimed(RowToClaim(rows, r, t), t)
               new == [rows EXCEPT ![r] = row]
               after == [items EXCEPT ![i] = StartedItem(@, <<r, row.owner>>, lease)]
           IN  Sound(new, after, t)
<1> DEFINE row == Claimed(RowToClaim(rows, r, t), t)
<1> DEFINE new == [rows EXCEPT ![r] = row]
<1> DEFINE after == [items EXCEPT ![i] = StartedItem(@, <<r, row.owner>>, lease)]
<1>1. /\ row \in Row /\ RowOK(row) /\ row.status = "running"
      /\ row.owner \in Nat /\ row.identity = Scope /\ ~row.complete
      /\ rows[r].status # "absent" => row.day = rows[r].day
      /\ r[1] = i
      /\ IF IsRoot(r) THEN items[i].day = Today(t) /\ r = RootRun(i)
         ELSE row.day = Today(t) /\ items[i].day # Today(t)
  BY StartedRow
<1> HIDE DEF row
<1>2. /\ after \in [Roots -> Item] /\ after[i].state = "running"
      /\ after[i].owner = <<r, row.owner>> /\ after[i].day = items[i].day
      /\ \A j \in Roots : j # i => after[j] = items[j]
  <2> DEFINE token == <<r, row.owner>>
  <2> DEFINE it == StartedItem(items[i], token, lease)
  <2>1. items[i] \in Item /\ token \in Runs \X Nat
    BY <1>1
  <2>2. after = [items EXCEPT ![i] = it]
    OBVIOUS
  <2> HIDE DEF token
  <2>3. it \in Item /\ it.state = "running" /\ it.owner = token /\ it.day = items[i].day
    BY <2>1, StartedItemIs
  <2> HIDE DEF it, after
  <2> QED BY <2>2, <2>3 DEF token
<1>3. /\ new \in [Runs -> Row] /\ new[r] = row
      /\ \A q \in Runs : q # r => new[q] = rows[q]
  BY <1>1
<1> HIDE DEF new, after
<1>4. Quiet(rows, i)
  BY HeldOrQuiet DEF Sound
<1>5. \A q \in Runs : RowOK(new[q])
  BY <1>1, <1>3 DEF Sound
<1>6. Holds(new, after)
  <2> SUFFICES ASSUME NEW q \in Runs, new[q].status = "running"
               PROVE  after[q[1]].state = "running" /\ after[q[1]].owner = <<q, new[q].owner>>
    BY DEF Holds
  <2>1. CASE q = r
    BY <1>1, <1>2, <1>3, <2>1
  <2>2. CASE q # r
    <3>1. rows[q].status = "running"
      BY <1>3, <2>2
    <3>2. q[1] # i /\ q[1] \in Roots
      BY <1>4, <3>1, RunPairs DEF Quiet
    <3>3. items[q[1]].state = "running" /\ items[q[1]].owner = <<q, rows[q].owner>>
      BY <3>1 DEF Sound, Holds
    <3> QED BY <1>2, <1>3, <2>2, <3>2, <3>3
  <2> QED BY <2>1, <2>2
<1>7. Completed(new, after)
  <2> SUFFICES ASSUME NEW q \in Runs, new[q].complete
               PROVE  after[q[1]].state = "terminal"
    BY DEF Completed
  <2>1. q # r /\ rows[q].complete
    BY <1>1, <1>3
  <2>2. items[q[1]].state = "terminal" /\ q[1] \in Roots
    BY <2>1, RunPairs DEF Sound, Completed
  <2> QED BY <1>2, <2>2
<1>8. Scoped(new)
  <2>1. \A q \in Runs : rows[q].status # "absent" => rows[q].identity = Scope
    BY DEF Sound, Scoped
  <2>2. \A q \in Runs : new[q].status # "absent" => new[q].identity = Scope
    BY <1>1, <1>3, <2>1
  <2> QED BY <2>2 DEF Scoped
<1>9. Calendar(new, after, t)
  <2> SUFFICES ASSUME NEW j \in Roots
      PROVE  /\ Children(new, j) = 1..Cardinality(Children(new, j))
             /\ \A a, b \in Children(new, j) : a < b => new[<<j, a>>].day < new[<<j, b>>].day
             /\ \A k \in Children(new, j) : /\ after[j].day < new[<<j, k>>].day
                                            /\ new[<<j, k>>].day <= Today(t)
             /\ Children(new, j) # {} => new[<<j, 0>>].status # "absent"
             /\ after[j].state = "absent" =>
                   \A q \in Runs : q[1] = j => new[q].status = "absent"
             /\ after[j].state # "absent" => after[j].day \in Days /\ after[j].day <= Today(t)
    BY DEF Calendar
  <2>1. /\ Children(rows, j) = 1..Cardinality(Children(rows, j))
        /\ \A a, b \in Children(rows, j) : a < b => rows[<<j, a>>].day < rows[<<j, b>>].day
        /\ \A k \in Children(rows, j) : /\ items[j].day < rows[<<j, k>>].day
                                        /\ rows[<<j, k>>].day <= Today(t)
        /\ Children(rows, j) # {} => rows[<<j, 0>>].status # "absent"
        /\ items[j].state = "absent" =>
              \A q \in Runs : q[1] = j => rows[q].status = "absent"
        /\ items[j].state # "absent" => items[j].day \in Days /\ items[j].day <= Today(t)
    BY DEF Sound, Calendar
  <2>2. CASE j # i
    <3>1. \A k \in 0..MaxSeq : <<j, k>> \in Runs /\ new[<<j, k>>] = rows[<<j, k>>]
      BY <1>1, <1>3, <2>2, RunPairs
    <3>2. Children(new, j) = Children(rows, j) /\ Children(rows, j) \subseteq 1..MaxSeq
      BY <3>1, BoundsAreNaturals DEF Children
    <3>3. \A q \in Runs : q[1] = j => new[q] = rows[q]
      BY <1>1, <1>3, <2>2
    <3>4. after[j] = items[j]
      BY <1>2, <2>2
    <3>5. \A k \in Children(rows, j) : new[<<j, k>>] = rows[<<j, k>>]
      BY <3>1, <3>2, BoundsAreNaturals
    <3>6. new[<<j, 0>>] = rows[<<j, 0>>]
      BY <3>1, BoundsAreNaturals
    <3> QED BY <2>1, <3>2, <3>3, <3>4, <3>5, <3>6
  <2>3. CASE j = i
    <3> DEFINE today == Today(t)
    <3>1. /\ Children(new, i) = 1..Cardinality(Children(new, i))
          /\ \A k \in Children(new, i) : k \in Children(rows, i) \/ r = <<i, k>>
          /\ r[2] \in Children(rows, i) \/ IsRoot(r)
             \/ \A k \in Children(rows, i) : rows[<<i, k>>].day # Today(t) /\ k < r[2]
      BY <1>1, <1>3, ChildrenStarted
    <3>2. \A k \in Children(rows, i) \cup Children(new, i) :
             /\ <<i, k>> \in Runs /\ k \in Int
             /\ rows[<<i, k>>].day \in Int /\ new[<<i, k>>].day \in Int
      <4>1. \A k \in Children(rows, i) \cup Children(new, i) : k \in 1..MaxSeq
        BY DEF Children
      <4>2. \A q \in Runs : rows[q].day \in Int /\ new[q].day \in Int
        BY <1>3, DaysAreInts
      <4>3. \A k \in 1..MaxSeq : <<i, k>> \in Runs /\ k \in Int
        BY RunPairs, BoundsAreNaturals
      <4> QED BY <4>1, <4>2, <4>3
    <3>3. r = <<i, r[2]>> /\ r[2] \in Int
      BY <1>1, RunPairs, BoundsAreNaturals
    <3>4. items[i].day \in Int /\ today \in Int /\ items[i].day <= today
      <4>1. today \in Int
        BY TodayIsDay
      <4>2. items[i].day \in Days /\ items[i].day <= today
        BY <2>1, <2>3
      <4> HIDE DEF today
      <4> QED BY <4>1, <4>2, DaysAreInts
    <3>5. \A k \in Children(rows, i) : new[<<i, k>>].day = rows[<<i, k>>].day
      <4> TAKE k \in Children(rows, i)
      <4>1. rows[<<i, k>>].status # "absent"
        BY DEF Children
      <4> QED BY <1>1, <1>3, <3>2, <4>1
    <3>6. \A k \in Children(new, i) :
             k \notin Children(rows, i) =>
                k = r[2] /\ ~IsRoot(r) /\ new[<<i, k>>].day = today
      <4> TAKE k \in Children(new, i)
      <4> HAVE k \notin Children(rows, i)
      <4>1. r = <<i, k>> /\ k # 0
        BY <3>1 DEF Children
      <4>2. ~IsRoot(r)
        BY <4>1 DEF IsRoot
      <4> QED BY <1>1, <1>3, <4>1, <4>2
    <3> HIDE DEF today
    <3>7. \A k \in Children(new, i) : items[i].day < new[<<i, k>>].day /\ new[<<i, k>>].day <= today
      <4> TAKE k \in Children(new, i)
      <4>1. CASE k \in Children(rows, i)
        BY <2>1, <2>3, <3>5, <4>1 DEF today
      <4>2. CASE k \notin Children(rows, i)
        BY <1>1, <3>4, <3>6, <4>2 DEF today
      <4> QED BY <4>1, <4>2
    <3>8. \A a, b \in Children(new, i) : a < b => new[<<i, a>>].day < new[<<i, b>>].day
      <4> TAKE a, b \in Children(new, i)
      <4> HAVE a < b
      <4>1. CASE a \in Children(rows, i) /\ b \in Children(rows, i)
        BY <2>1, <2>3, <3>5, <4>1
      <4>2. CASE a \in Children(rows, i) /\ b \notin Children(rows, i)
        <5>1. rows[<<i, a>>].day # today
          BY <3>1, <3>6, <4>2 DEF today
        <5>2. rows[<<i, a>>].day <= today
          BY <2>1, <2>3, <4>2 DEF today
        <5> QED BY <3>2, <3>4, <3>5, <3>6, <4>2, <5>1, <5>2
      <4>3. CASE a \notin Children(rows, i) /\ b \in Children(rows, i)
        <5>1. a = r[2] /\ ~IsRoot(r)
          BY <3>6, <4>3
        <5>2. b < a
          BY <3>1, <4>3, <5>1
        <5> QED BY <3>2, <4>3, <5>2
      <4>4. CASE a \notin Children(rows, i) /\ b \notin Children(rows, i)
        BY <3>2, <3>6, <4>4
      <4> QED BY <4>1, <4>2, <4>3, <4>4
    <3>9. new[<<i, 0>>].status # "absent" \/ Children(new, i) = {}
      <4>1. <<i, 0>> \in Runs
        BY RunPairs, BoundsAreNaturals
      <4>2. CASE IsRoot(r)
        BY <1>1, <1>3, <4>2 DEF RootRun
      <4>3. CASE ~IsRoot(r)
        BY <1>1, <1>3, <4>1, <4>3 DEF RootRun, IsRoot
      <4> QED BY <4>2, <4>3
    <3>10. after[i].state # "absent" /\ after[i].day = items[i].day
      BY <1>2
    <3>11. items[i].day \in Days
      BY <2>1, <2>3
    <3> QED BY <2>3, <3>1, <3>4, <3>7, <3>8, <3>9, <3>10, <3>11 DEF today
  <2> QED BY <2>2, <2>3
<1>10. Sound(new, after, t)
  BY <1>2, <1>3, <1>5, <1>6, <1>7, <1>8, <1>9 DEF Sound
<1> QED BY <1>10 DEF new, after, row

-----------------------------------------------------------------------------
(* Steps. *)

\* What the action properties say of one step.
ChargedStep ==
    \A r \in Runs : run'[r].status = "running" /\ run'[r].owner # run[r].owner =>
        (IF IsRoot(r) THEN work[r[1]].day ELSE run'[r].day) = Today(now)

HoldStep ==
    \A i \in Roots :
        work[i].state = "paid_identity_hold" /\ work'[i].state # "paid_identity_hold"
            => work'[i].nudged /\ work'[i].due = now

StepOK == QueueInv' /\ ChargedStep /\ HoldStep

\* Claims that are kept or dropped stay claims while attempts are only added.
LEMMA ClaimsShrink ==
    ASSUME QueueInv, run' \in [Runs -> Row],
           claim' \in [Workers -> Claim \cup {NoClaim}],
           \A w \in Workers : claim'[w] \in {claim[w], NoClaim},
           \A r \in Runs : Len(run'[r].attempts) >= Len(run[r].attempts)
    PROVE  ClaimsOK'
<1>1. \A w \in Workers : claim[w] # NoClaim => claim[w].run \in Runs /\ claim[w].attempt \in Nat
  BY DEF QueueInv, ClaimsOK, Claim
<1>2. \A r \in Runs : Len(run[r].attempts) \in Nat /\ Len(run'[r].attempts) \in Nat
  BY RowAttempts DEF QueueInv, Sound
<1>3. ASSUME NEW w \in Workers, claim'[w] # NoClaim
      PROVE  claim'[w].attempt \in 1..Len(run'[claim'[w].run].attempts)
  <2>1. claim'[w] = claim[w] /\ claim[w] # NoClaim
    BY <1>3
  <2>2. claim[w].attempt \in 1..Len(run[claim[w].run].attempts)
    BY <2>1 DEF QueueInv, ClaimsOK
  <2> DEFINE r == claim[w].run
  <2>3. r \in Runs
    BY <1>1, <2>1
  <2>4. Len(run'[r].attempts) >= Len(run[r].attempts)
    BY <2>3
  <2> QED BY <1>1, <1>2, <2>1, <2>2, <2>3, <2>4
<1>4. ClaimsDiffer'
  <2>1. ClaimsDiffer
    BY DEF QueueInv, ClaimsOK
  <2> SUFFICES ASSUME NEW v \in Workers, NEW w \in Workers, v # w, claim'[v] # NoClaim,
                      claim'[v].run = claim'[w].run
               PROVE  claim'[v].attempt # claim'[w].attempt
    BY DEF ClaimsDiffer
  <2>2. claim'[v] = claim[v]
    OBVIOUS
  <2>3. claim'[w] = claim[w] \/ claim'[w] = NoClaim
    OBVIOUS
  <2>4. CASE claim'[w] = claim[w]
    BY <2>1, <2>2, <2>4 DEF ClaimsDiffer
  <2>5. CASE claim'[w] = NoClaim
    <3>1. claim[v].attempt \in 1..Len(run[claim[v].run].attempts)
      BY <2>2 DEF QueueInv, ClaimsOK
    <3>2. claim[v].attempt # 0
      BY <1>1, <1>2, <2>2, <3>1
    <3> QED BY <2>2, <2>5, <3>2 DEF NoClaim
  <2> QED BY <2>3, <2>4, <2>5
<1> QED BY <1>3, <1>4 DEF ClaimsOK

\* A new claim is a new attempt, so nobody else holds it.
LEMMA ClaimsGrow ==
    ASSUME QueueInv, run' \in [Runs -> Row],
           \A r \in Runs : Len(run'[r].attempts) >= Len(run[r].attempts),
           NEW w \in Workers, claim[w] = NoClaim, NEW r \in Runs, NEW n \in Nat,
           n > Len(run[r].attempts), n <= Len(run'[r].attempts),
           claim' = [claim EXCEPT ![w] = [run |-> r, attempt |-> n, identity |-> Scope]]
    PROVE  ClaimsOK'
<1> DEFINE c == [run |-> r, attempt |-> n, identity |-> Scope]
<1>1. c \in Claim /\ c.run = r /\ c.attempt = n
  BY QueueConstants DEF Claim
<1>2. /\ \A v \in Workers : claim'[v] = IF v = w THEN c ELSE claim[v]
      /\ claim \in [Workers -> Claim \cup {NoClaim}]
  BY DEF QueueInv, ClaimsOK
<1>3. claim' \in [Workers -> Claim \cup {NoClaim}]
  BY <1>1, <1>2
<1> HIDE DEF c
<1>4. \A v \in Workers : claim[v] # NoClaim =>
         /\ claim[v].run \in Runs /\ claim[v].attempt \in Nat
         /\ claim[v].attempt \in 1..Len(run[claim[v].run].attempts)
  BY DEF QueueInv, ClaimsOK, Claim
<1>5. \A q \in Runs : Len(run[q].attempts) \in Nat /\ Len(run'[q].attempts) \in Nat
  BY RowAttempts DEF QueueInv, Sound
<1>6. ASSUME NEW v \in Workers, claim'[v] # NoClaim
      PROVE  claim'[v].attempt \in 1..Len(run'[claim'[v].run].attempts)
  <2>1. CASE v = w
    <3>1. n \in 1..Len(run'[r].attempts)
      BY <1>5
    <3> QED BY <1>1, <1>2, <2>1, <3>1
  <2>2. CASE v # w
    <3> DEFINE q == claim[v].run
    <3>1. claim'[v] = claim[v]
      BY <1>2, <2>2
    <3>2. q \in Runs /\ claim[v].attempt \in Nat /\ claim[v].attempt \in 1..Len(run[q].attempts)
      BY <1>4, <1>6, <3>1
    <3>3. Len(run'[q].attempts) >= Len(run[q].attempts)
      BY <3>2
    <3> HIDE DEF q
    <3>4. claim[v].attempt \in 1..Len(run'[q].attempts)
      BY <1>5, <3>2, <3>3
    <3> QED BY <3>1, <3>4 DEF q
  <2> QED BY <2>1, <2>2
<1>7. ClaimsDiffer'
  <2>1. ClaimsDiffer
    BY DEF QueueInv, ClaimsOK
  <2> SUFFICES ASSUME NEW u \in Workers, NEW v \in Workers, u # v, claim'[u] # NoClaim,
                      claim'[u].run = claim'[v].run, claim'[u].attempt = claim'[v].attempt
               PROVE  FALSE
    BY DEF ClaimsDiffer
  <2>2. CASE u # w /\ v # w
    BY <1>2, <2>1, <2>2 DEF ClaimsDiffer
  <2>3. \A x \in Workers : x # w /\ claim[x] # NoClaim =>
            ~(claim[x].run = r /\ claim[x].attempt = n)
    BY <1>4, <1>5
  <2>4. claim[v] = NoClaim => claim[v].attempt # n /\ claim[v].attempt = 0
    <3>1. n # 0
      BY <1>5
    <3> QED BY <3>1 DEF NoClaim
  <2>5. CASE u = w
    <3>1. claim[v].run = r /\ claim[v].attempt = n
      BY <1>1, <1>2, <2>5
    <3> QED BY <2>3, <2>4, <2>5, <3>1
  <2>6. CASE v = w
    <3>1. claim[u].run = r /\ claim[u].attempt = n /\ claim[u] # NoClaim
      BY <1>1, <1>2, <2>6
    <3> QED BY <2>3, <2>6, <3>1
  <2> QED BY <2>2, <2>5, <2>6
<1> QED BY <1>3, <1>6, <1>7 DEF ClaimsOK

\* A step that claims nothing: its two tables are sound, no run starts to run.
LEMMA NoClaimStep ==
    ASSUME QueueInv, Sound(run', work', now), view' = view, now' = now,
           claim' \in [Workers -> Claim \cup {NoClaim}],
           \A w \in Workers : claim'[w] \in {claim[w], NoClaim},
           \A r \in Runs : /\ Len(run'[r].attempts) >= Len(run[r].attempts)
                           /\ run'[r].status = "running" => run'[r].owner = run[r].owner,
           HoldStep
    PROVE  StepOK
<1>1. run' \in [Runs -> Row]
  BY DEF Sound
<1>2. ClaimsOK'
  BY <1>1, ClaimsShrink
<1>3. ChargedStep
  BY DEF ChargedStep
<1> QED BY <1>2, <1>3 DEF StepOK, QueueInv

\* A step of the items alone.
LEMMA ItemsStep ==
    ASSUME QueueInv, UNCHANGED <<run, claim, view, now>>,
           work' \in [Roots -> Item],
           \A i \in Roots : work'[i] # work[i] =>
              /\ work[i].state \notin {"running", "terminal"}
              /\ Dated(work[i], work'[i], now),
           HoldStep
    PROVE  StepOK
<1>1. ASSUME NEW i \in Roots, work'[i] # work[i]
      PROVE  Moves(run, i, work[i], work'[i], now)
  BY <1>1, HeldOrQuiet DEF QueueInv, Sound, Moves
<1>2. Sound(run, work', now)
  BY <1>1, SoundItems, TodayIsDay DEF QueueInv
<1>3. Sound(run', work', now)
  BY <1>2
<1>4. \A r \in Runs : Len(run[r].attempts) >= Len(run[r].attempts)
  BY RowAttempts DEF QueueInv, Sound
<1> QED BY <1>3, <1>4, NoClaimStep DEF QueueInv, ClaimsOK

\* The pair of tables a dispatch starts from, after its recovery.
Reached(rows, items) ==
    /\ Sound(rows, items, now)
    /\ \A r \in Runs : Kept(run[r], rows[r])
    /\ \A i \in Roots : \/ items[i] = work[i]
                        \/ work[i].state = "running" /\ items[i].day = work[i].day

LEMMA ReachedNow == ASSUME QueueInv PROVE Reached(run, work)
BY KeptSame DEF QueueInv, Sound, Reached

LEMMA ReachedRecovered ==
    ASSUME QueueInv, NEW at
    PROVE  LET rows == RecoveredRows(run, Runs, at)
           IN  Reached(rows, RecoveredItems(work, rows, at))
<1> DEFINE rows == RecoveredRows(run, Runs, at)
<1> DEFINE items == RecoveredItems(work, rows, at)
<1>1. Sound(rows, items, now)
  BY SoundRecovered DEF QueueInv
<1>2. \A r \in Runs : Kept(run[r], rows[r])
  BY RecoveredKeeps DEF QueueInv, Sound
<1> HIDE DEF rows
<1>3. ASSUME NEW i \in Roots, items[i] # work[i]
      PROVE  work[i].state = "running" /\ items[i].day = work[i].day
  <2>1. StaleItem(work[i], rows, at)
    BY <1>3 DEF RecoveredItems
  <2>2. items[i] = [work[i] EXCEPT !.state = "runnable", !.owner = NoOwner]
    BY <2>1 DEF RecoveredItems
  <2>3. work[i] \in Item
    BY DEF QueueInv, Sound
  <2> HIDE DEF items
  <2> QED BY <2>1, <2>2, <2>3 DEF StaleItem, Item
<1> HIDE DEF items
<1>4. Reached(rows, items)
  BY <1>1, <1>2, <1>3 DEF Reached
<1> QED BY <1>4 DEF rows, items

\* A dispatch that claims nothing, from its recovery to what it leaves.
LEMMA QuietDispatch ==
    ASSUME QueueInv, NEW rows, NEW items, Reached(rows, items),
           NEW new, NEW after, Sound(new, after, now),
           \A r \in Runs : \/ new[r] = rows[r]
                           \/ /\ new[r].status # "running"
                              /\ Len(new[r].attempts) >= Len(rows[r].attempts),
           \A i \in Roots : after[i] = items[i] \/ items[i].state = "runnable",
           run' = new, work' = after, UNCHANGED <<claim, view, now>>
    PROVE  StepOK
<1>1. \A r \in Runs : /\ Kept(run[r], rows[r])
                      /\ Len(run[r].attempts) \in Nat /\ Len(rows[r].attempts) \in Nat
                      /\ Len(new[r].attempts) \in Nat
  BY RowAttempts DEF Reached, QueueInv, Sound
<1>2. \A r \in Runs : /\ Len(new[r].attempts) >= Len(run[r].attempts)
                      /\ new[r].status = "running" => new[r].owner = run[r].owner
  BY <1>1 DEF Kept
<1>3. HoldStep
  <2> SUFFICES ASSUME NEW i \in Roots, work[i].state = "paid_identity_hold",
                      work'[i].state # "paid_identity_hold"
               PROVE  FALSE
    BY DEF HoldStep
  <2>1. items[i] = work[i]
    BY DEF Reached
  <2> QED BY <2>1
<1>4. claim' \in [Workers -> Claim \cup {NoClaim}]
  BY DEF QueueInv, ClaimsOK
<1>5. Sound(run', work', now)
  OBVIOUS
<1> QED BY <1>2, <1>3, <1>4, <1>5, NoClaimStep

\* An item that _readiness refused, or that ended before any claim.
LEMMA ItemsOfDispatch ==
    ASSUME QueueInv, NEW rows, NEW items, Sound(rows, items, now), NEW i \in Roots,
           items[i].state = "runnable", NEW item \in Item, item.day = items[i].day,
           item.state # "absent"
    PROVE  Sound(rows, [items EXCEPT ![i] = item], now)
<1> DEFINE after == [items EXCEPT ![i] = item]
<1>1. /\ after \in [Roots -> Item] /\ after[i] = item
      /\ \A j \in Roots : j # i => after[j] = items[j]
  BY DEF Sound
<1> HIDE DEF after
<1>2. Quiet(rows, i)
  BY HeldOrQuiet DEF Sound
<1>3. Moves(rows, i, items[i], after[i], now)
  BY <1>1, <1>2 DEF Moves, Dated
<1>4. Today(now) \in Days /\ Today(now) \in Nat
  BY TodayIsDay DEF QueueInv
<1>5. \A j \in Roots : after[j] = items[j] \/ Moves(rows, j, items[j], after[j], now)
  BY <1>1, <1>3
<1>6. Sound(rows, after, now)
  BY <1>1, <1>4, <1>5, SoundItems
<1> QED BY <1>6 DEF after

LEMMA BlockedItemIs ==
    ASSUME QueueInv, NEW item \in Item, NEW verdict \in Verdicts
    PROVE  LET new == BlockedItem(item, verdict, now)
           IN  new \in Item /\ new.state = verdict /\ new.day = item.day
<1>1. now + RetryBase \in Nat
  BY QueueConstants, BoundsAreNaturals DEF QueueInv
<1>2. verdict \in ItemState
  BY DEF Verdicts, Waiting, ItemState
<1> DEFINE due == IF verdict \in Waiting THEN now + RetryBase ELSE item.due
<1>3. due \in Nat
  BY <1>1 DEF Item
<1>4. BlockedItem(item, verdict, now) = [item EXCEPT !.state = verdict, !.due = due]
  BY DEF BlockedItem, Item
<1> HIDE DEF due
<1> QED BY <1>2, <1>3, <1>4 DEF Item

LEMMA AnchoredNow ==
    ASSUME QueueInv, NEW rows, NEW items, Reached(rows, items), NEW i \in Roots,
           items[i].state = "runnable"
    PROVE  LET new == Anchored(rows, i, items[i].day, now)
           IN  /\ Sound(new, items, now)
               /\ Today(now) # items[i].day => new[RootRun(i)].status # "absent"
               /\ \A q \in Runs : new[q] = rows[q]
                                    \/ (new[q] = AnchorRow(now) /\ rows[q] = AbsentRow)
<1>1. now \in 0..MaxNow /\ Sound(rows, items, now)
  BY DEF QueueInv, Reached
<1> DEFINE t == now
<1> HIDE DEF t
<1>2. t \in 0..MaxNow /\ Sound(rows, items, t)
  BY <1>1 DEF t
<1> DEFINE new == Anchored(rows, i, items[i].day, t)
<1>3. /\ Sound(new, items, t) /\ Quiet(new, i)
      /\ Today(t) # items[i].day => new[RootRun(i)].status # "absent"
      /\ \A r \in Runs : \/ new[r] = rows[r]
                         \/ /\ r = RootRun(i) /\ new[r] = AnchorRow(t)
                            /\ rows[r] = AbsentRow
  BY <1>2, SoundAnchored
<1> HIDE DEF new
<1>4. \A q \in Runs : new[q] = rows[q] \/ (new[q] = AnchorRow(t) /\ rows[q] = AbsentRow)
  BY <1>3
<1> QED BY <1>3, <1>4 DEF t, new

\* A dispatch that claims run r of item i.
LEMMA StartedStep ==
    ASSUME QueueInv, NEW w \in Workers, claim[w] = NoClaim,
           NEW rows, NEW items, Reached(rows, items),
           NEW i \in Roots, items[i].state = "runnable", NEW r \in Runs,
           r = RunFor(Anchored(rows, i, items[i].day, now), i, items[i].day, now),
           Claimable(Anchored(rows, i, items[i].day, now), r, now),
           StartExecution(w, r,
               Claimed(RowToClaim(Anchored(rows, i, items[i].day, now), r, now), now),
               Anchored(rows, i, items[i].day, now), items),
           UNCHANGED <<view, now>>
    PROVE  StepOK
<1> DEFINE anchored == Anchored(rows, i, items[i].day, now)
<1> DEFINE row == Claimed(RowToClaim(anchored, r, now), now)
<1>1. /\ Sound(anchored, items, now)
      /\ Today(now) # items[i].day => anchored[RootRun(i)].status # "absent"
      /\ \A q \in Runs : anchored[q] = rows[q]
                            \/ (anchored[q] = AnchorRow(now) /\ rows[q] = AbsentRow)
  BY AnchoredNow
<1>2. now \in 0..MaxNow /\ now \in Nat /\ now + LeaseSeconds \in Nat
  BY BoundsAreNaturals DEF QueueInv
<1>3. anchored \in [Runs -> Row] /\ items \in [Roots -> Item]
  BY <1>1 DEF Sound
<1> HIDE DEF anchored
<1>4. /\ r = RunFor(anchored, i, items[i].day, now) /\ Claimable(anchored, r, now)
      /\ StartExecution(w, r, row, anchored, items)
  BY DEF anchored
<1>5. /\ row \in Row /\ RowOK(row) /\ row.status = "running"
      /\ row.owner = Len(anchored[r].attempts) + 1 /\ Len(row.attempts) = row.owner
      /\ row.owner \in Nat /\ row.identity = Scope
      /\ r[1] = i
      /\ IF IsRoot(r) THEN items[i].day = Today(now) /\ r = RootRun(i)
         ELSE row.day = Today(now) /\ items[i].day # Today(now)
  BY <1>1, <1>2, <1>3, <1>4, StartedRow
<1>6. LET new == [anchored EXCEPT ![r] = row]
          after == [items EXCEPT ![i] = StartedItem(@, <<r, row.owner>>, now + LeaseSeconds)]
      IN  Sound(new, after, now)
  BY <1>1, <1>2, <1>3, <1>4, SoundStarted
<1> HIDE DEF row
<1>7. run' = [anchored EXCEPT ![r] = row]
  BY <1>4 DEF StartExecution
<1>8. work' = [items EXCEPT ![i] = StartedItem(@, <<r, row.owner>>, now + LeaseSeconds)]
  BY <1>4, <1>5 DEF StartExecution, StartedItem
<1>9. claim' = [claim EXCEPT ![w] = [run |-> r, attempt |-> row.owner, identity |-> Scope]]
  BY <1>4, <1>5 DEF StartExecution
<1>10. Sound(run', work', now)
  BY <1>6, <1>7, <1>8
<1>11. /\ run' \in [Runs -> Row] /\ run'[r] = row
       /\ \A q \in Runs : q # r => run'[q] = anchored[q]
  BY <1>3, <1>5, <1>7
<1>12. \A q \in Runs : /\ Kept(run[q], rows[q]) /\ rows[q] \in Row /\ run[q] \in Row
                       /\ Len(run[q].attempts) \in Nat /\ Len(rows[q].attempts) \in Nat
                       /\ Len(anchored[q].attempts) \in Nat
  BY <1>3, RowAttempts DEF Reached, QueueInv, Sound
<1>13. \A q \in Runs : Len(anchored[q].attempts) >= Len(run[q].attempts)
  <2> TAKE q \in Runs
  <2>1. CASE anchored[q] = rows[q]
    BY <1>12, <2>1 DEF Kept
  <2>2. CASE anchored[q] = AnchorRow(now) /\ rows[q] = AbsentRow
    <3>1. rows[q].attempts = <<>>
      BY <2>2 DEF AbsentRow
    <3>2. Len(rows[q].attempts) = 0
      BY <3>1
    <3>3. Len(run[q].attempts) = 0
      BY <1>12, <3>2 DEF Kept
    <3> QED BY <1>12, <3>3
  <2>3. anchored[q] = rows[q] \/ (anchored[q] = AnchorRow(now) /\ rows[q] = AbsentRow)
    BY <1>1
  <2> QED BY <2>1, <2>2, <2>3
<1>a. /\ Len(anchored[r].attempts) \in Nat /\ Len(run[r].attempts) \in Nat
      /\ Len(anchored[r].attempts) >= Len(run[r].attempts)
  BY <1>12, <1>13
<1>15. row.owner > Len(run[r].attempts) /\ row.owner <= Len(run'[r].attempts)
  <2>1. Len(row.attempts) = Len(anchored[r].attempts) + 1 /\ row.owner = Len(row.attempts)
    BY <1>5
  <2>2. run'[r] = row
    BY <1>11
  <2> QED BY <1>a, <2>1, <2>2
<1>14. \A q \in Runs : Len(run'[q].attempts) >= Len(run[q].attempts)
  <2> TAKE q \in Runs
  <2>1. Len(run'[r].attempts) >= Len(run[r].attempts)
    <3>1. Len(row.attempts) \in Nat /\ run'[r] = row
      BY <1>5, <1>11
    <3>2. row.owner \in Nat
      BY <1>5
    <3> QED BY <1>a, <1>15, <3>1, <3>2
  <2>2. CASE q = r
    BY <2>1, <2>2
  <2>3. CASE q # r
    BY <1>11, <1>13, <2>3
  <2> QED BY <2>2, <2>3
<1>16. ClaimsOK'
  BY <1>5, <1>9, <1>11, <1>14, <1>15, ClaimsGrow
<1>17. ChargedStep
  <2> SUFFICES ASSUME NEW q \in Runs, run'[q].status = "running", run'[q].owner # run[q].owner
               PROVE  (IF IsRoot(q) THEN work[q[1]].day ELSE run'[q].day) = Today(now)
    BY DEF ChargedStep
  <2>1. CASE q = r
    <3>1. items[i].day = work[i].day
      BY DEF Reached
    <3> QED BY <1>5, <1>11, <2>1, <3>1
  <2>2. CASE q # r
    <3>1. run'[q] = anchored[q]
      BY <1>11, <2>2
    <3>2. anchored[q] = rows[q]
      BY <1>1, <1>2, <3>1, AnchorRowIs
    <3> QED BY <1>12, <3>1, <3>2 DEF Kept
  <2> QED BY <2>1, <2>2
<1>18. HoldStep
  <2> SUFFICES ASSUME NEW j \in Roots, work[j].state = "paid_identity_hold",
                      work'[j].state # "paid_identity_hold"
               PROVE  FALSE
    BY DEF HoldStep
  <2>1. items[j] = work[j]
    BY DEF Reached
  <2>2. j # i
    BY <2>1
  <2>3. work'[j] = items[j]
    BY <1>3, <1>8, <2>2
  <2> QED BY <2>1, <2>3
<1>19. view' = view /\ now' = now
  OBVIOUS
<1> QED BY <1>10, <1>16, <1>17, <1>18, <1>19 DEF StepOK, QueueInv

\* The whole of a dispatch, from whatever its recovery left.
LEMMA DispatchStep ==
    ASSUME QueueInv, NEW w \in Workers, claim[w] = NoClaim,
           NEW rows, NEW items, Reached(rows, items), NEW at,
           (\E i \in Roots : DispatchTo(w, i, rows, items, at)) \/ DispatchIdle(rows, items, at),
           UNCHANGED <<view, now>>
    PROVE  StepOK
<1>1. \A r \in Runs : Len(rows[r].attempts) >= Len(rows[r].attempts)
  BY RowAttempts DEF Reached, Sound
<1>2. Sound(rows, items, now)
  BY DEF Reached
<1>3. CASE DispatchIdle(rows, items, at)
  BY <1>2, <1>3, QuietDispatch DEF DispatchIdle
<1>4. ASSUME NEW i \in Roots, DispatchTo(w, i, rows, items, at) PROVE StepOK
  <2>1. items[i].state = "runnable" /\ items[i] \in Item
    BY <1>2, <1>4 DEF DispatchTo, Sound
  <2>2. ASSUME NEW item \in Item, item.day = items[i].day, item.state # "absent",
               work' = [items EXCEPT ![i] = item], run' = rows, UNCHANGED claim
        PROVE  StepOK
    <3> DEFINE after == [items EXCEPT ![i] = item]
    <3>1. Sound(rows, after, now)
      BY <1>2, <2>1, <2>2, ItemsOfDispatch
    <3>2. \A j \in Roots : after[j] = items[j] \/ items[j].state = "runnable"
      BY <1>2, <2>1 DEF Sound
    <3> HIDE DEF after
    <3>3. work' = after
      BY <2>2 DEF after
    <3> QED BY <2>2, <3>1, <3>2, <3>3, QuietDispatch
  <2>3. ASSUME NEW verdict \in Verdicts,
               work' = [items EXCEPT ![i] = BlockedItem(@, verdict, now)],
               run' = rows, UNCHANGED claim
        PROVE  StepOK
    <3> DEFINE item == BlockedItem(items[i], verdict, now)
    <3>1. item \in Item /\ item.state = verdict /\ item.day = items[i].day
      BY <2>1, BlockedItemIs
    <3>2. work' = [items EXCEPT ![i] = item]
      BY <2>3
    <3> HIDE DEF item
    <3>3. item.state # "absent"
      BY <3>1 DEF Verdicts, Waiting
    <3> QED BY <2>2, <2>3, <3>1, <3>2, <3>3
  <2>4. CASE work' = [items EXCEPT ![i].state = "terminal"] /\ run' = rows /\ UNCHANGED claim
    <3> DEFINE item == [items[i] EXCEPT !.state = "terminal"]
    <3>1. item \in Item /\ item.state = "terminal" /\ item.day = items[i].day
      BY <2>1 DEF Item, ItemState
    <3>2. work' = [items EXCEPT ![i] = item]
      BY <2>4
    <3> HIDE DEF item
    <3> QED BY <2>2, <2>4, <3>1, <3>2
  <2> DEFINE anchored == Anchored(rows, i, items[i].day, now)
  <2>5. ASSUME NEW r \in Runs, r = RunFor(anchored, i, items[i].day, now),
               Claimable(anchored, r, now),
               StartExecution(w, r, Claimed(RowToClaim(anchored, r, now), now), anchored, items)
        PROVE  StepOK
    BY <2>1, <2>5, StartedStep
  <2>6. CASE run' = anchored /\ work' = items /\ UNCHANGED claim
    <3>1. /\ Sound(anchored, items, now)
          /\ \A q \in Runs : anchored[q] = rows[q]
                                \/ (anchored[q] = AnchorRow(now) /\ rows[q] = AbsentRow)
      BY <2>1, AnchoredNow
    <3>2. \A q \in Runs : \/ anchored[q] = rows[q]
                           \/ /\ anchored[q].status # "running"
                              /\ Len(anchored[q].attempts) >= Len(rows[q].attempts)
      <4> TAKE q \in Runs
      <4>1. CASE anchored[q] = AnchorRow(now) /\ rows[q] = AbsentRow
        <5>1. now \in Nat
          BY BoundsAreNaturals DEF QueueInv
        <5>2. AnchorRow(now).status = "partial" /\ Len(AnchorRow(now).attempts) = 1
          BY <5>1, AnchorRowIs
        <5>3. rows[q].attempts = <<>>
          BY <4>1 DEF AbsentRow
        <5>4. Len(rows[q].attempts) = 0
          BY <5>3
        <5> HIDE DEF anchored
        <5> QED BY <4>1, <5>2, <5>4
      <4> QED BY <3>1, <4>1
    <3> HIDE DEF anchored
    <3> QED BY <2>6, <3>1, <3>2, QuietDispatch
  <2> QED BY <1>4, <2>3, <2>4, <2>5, <2>6 DEF DispatchTo
<1> QED BY <1>3, <1>4

\* A settlement ends the running run of an item and moves the item with it.
LEMMA SoundSettled ==
    ASSUME NEW rows \in [Runs -> Row], NEW items \in [Roots -> Item], NEW t \in 0..MaxNow,
           Sound(rows, items, t), NEW i \in Roots, NEW r \in Runs, r[1] = i,
           items[i].state = "running", items[i].owner[1] = r,
           NEW row \in Row, RowOK(row), row.status \notin {"running", "absent"},
           rows[r].status # "absent", row.day = rows[r].day, row.identity = rows[r].identity,
           NEW item \in Item, item.day = items[i].day, item.state # "absent",
           row.complete => item.state = "terminal"
    PROVE  Sound([rows EXCEPT ![r] = row], [items EXCEPT ![i] = item], t)
<1> DEFINE new == [rows EXCEPT ![r] = row]
<1> DEFINE after == [items EXCEPT ![i] = item]
<1>1. /\ new \in [Runs -> Row] /\ new[r] = row /\ \A q \in Runs : q # r => new[q] = rows[q]
      /\ after \in [Roots -> Item] /\ after[i] = item
      /\ \A j \in Roots : j # i => after[j] = items[j]
  OBVIOUS
<1> HIDE DEF new, after
<1>2. \A q \in Runs : RowOK(new[q])
  BY <1>1 DEF Sound
<1>3. Holds(new, after)
  <2> SUFFICES ASSUME NEW q \in Runs, new[q].status = "running"
               PROVE  after[q[1]].state = "running" /\ after[q[1]].owner = <<q, new[q].owner>>
    BY DEF Holds
  <2>1. q # r /\ new[q] = rows[q] /\ q[1] \in Roots
    BY <1>1, RunPairs
  <2>2. items[q[1]].state = "running" /\ items[q[1]].owner = <<q, rows[q].owner>>
    BY <2>1 DEF Sound, Holds
  <2>3. q[1] # i
    BY <2>1, <2>2
  <2> QED BY <1>1, <2>1, <2>2, <2>3
<1>4. Completed(new, after)
  <2> SUFFICES ASSUME NEW q \in Runs, new[q].complete PROVE after[q[1]].state = "terminal"
    BY DEF Completed
  <2>1. CASE q = r
    BY <1>1, <2>1
  <2>2. CASE q # r
    <3>1. items[q[1]].state = "terminal" /\ q[1] \in Roots
      BY <1>1, <2>2, RunPairs DEF Sound, Completed
    <3>2. q[1] # i
      BY <3>1
    <3> QED BY <1>1, <3>1, <3>2
  <2> QED BY <2>1, <2>2
<1>5. Scoped(new)
  <2>1. \A q \in Runs : rows[q].status # "absent" => rows[q].identity = Scope
    BY DEF Sound, Scoped
  <2>2. \A q \in Runs : new[q].status # "absent" => new[q].identity = Scope
    BY <1>1, <2>1
  <2> QED BY <2>2 DEF Scoped
<1>6. Calendar(new, items, t)
  <2>1. \A q \in Runs : /\ new[q].day = rows[q].day
                        /\ new[q].status = "absent" <=> rows[q].status = "absent"
    BY <1>1
  <2> QED BY <2>1, CalendarRows DEF Sound
<1>7. Calendar(new, after, t)
  <2>1. \A j \in Roots : after[j] = items[j] \/ Dated(items[j], after[j], t)
    BY <1>1 DEF Dated
  <2> QED BY <1>6, <2>1, CalendarItems, TodayIsDay
<1>8. Sound(new, after, t)
  BY <1>1, <1>2, <1>3, <1>4, <1>5, <1>7 DEF Sound
<1> QED BY <1>8 DEF new, after

\* The row a settlement writes.
LEMMA SettledRow ==
    ASSUME NEW row \in Row, RowOK(row), NEW n \in RunningAttempts(row), NEW t \in Nat,
           NEW complete \in BOOLEAN, NEW status \in TerminalStatus, NEW at \in Nat
    PROVE  LET new == Finished(Checkpointed(Renewed(row, n, t), row.items, complete),
                               n, status, at)
           IN  /\ new \in Row /\ RowOK(new) /\ new.status = status
               /\ new.day = row.day /\ new.identity = row.identity
               /\ new.complete = complete /\ Len(new.attempts) = Len(row.attempts)
<1> DEFINE a == Renewed(row, n, t)
<1> DEFINE b == Checkpointed(a, row.items, complete)
<1> DEFINE c == Finished(b, n, status, at)
<1>1. row.status # "absent" /\ row.items \in Nat
  BY DEF RowOK, Row
<1>2. /\ RowOK(a) /\ a.status = row.status /\ Len(a.attempts) = Len(row.attempts)
      /\ RunningAttempts(a) = RunningAttempts(row) /\ a.identity = row.identity
      /\ a.day = row.day
  BY RenewedRow, RowFields
<1> HIDE DEF a
<1>3. a \in Row
  BY <1>2 DEF RowOK
<1>4. /\ RowOK(b) /\ b.attempts = a.attempts /\ RunningAttempts(b) = RunningAttempts(a)
      /\ b.complete = complete /\ b.identity = a.identity
  BY <1>1, <1>2, CheckpointedRow
<1>5. b.day = a.day
  BY <1>3, RowFields
<1> HIDE DEF b
<1>6. b \in Row /\ n \in RunningAttempts(b)
  BY <1>2, <1>4 DEF RowOK
<1>7. /\ RowOK(c) /\ c.status = status /\ Len(c.attempts) = Len(b.attempts)
      /\ c.complete = b.complete /\ c.identity = b.identity
  BY <1>4, <1>6, FinishedRow
<1>8. c.day = b.day
  BY <1>6, RowFields
<1> HIDE DEF c
<1>9. c \in Row
  BY <1>7 DEF RowOK
<1> QED BY <1>2, <1>4, <1>5, <1>7, <1>8, <1>9 DEF a, b, c

\* The item a settlement leaves.
SettledItem(item, outcome, backoff) ==
    [item EXCEPT !.state = ItemAfter(outcome), !.owner = NoOwner,
                 !.due = DueAfter(item, outcome, backoff)]

LEMMA SettledItemIs ==
    ASSUME QueueInv, NEW item \in Item, NEW outcome \in Outcomes, NEW backoff \in ResumeDelays
    PROVE  LET new == SettledItem(item, outcome, backoff)
           IN  /\ new \in Item /\ new.day = item.day /\ new.state # "absent"
               /\ outcome = "complete" => new.state = "terminal"
<1> DEFINE due == DueAfter(item, outcome, backoff)
<1> DEFINE state == ItemAfter(outcome)
<1>1. now + RetryBase \in Nat /\ now + backoff \in Nat /\ item.due \in Nat
  BY QueueConstants, BoundsAreNaturals DEF QueueInv, Item
<1>2. due \in Nat
  BY <1>1 DEF DueAfter, Outcomes
<1>3. /\ state \in ItemState /\ state # "absent"
      /\ outcome = "complete" => state = "terminal"
  BY DEF ItemAfter, Outcomes, Waiting, ItemState
<1>4. NoOwner \in (Runs \X Nat) \cup {NoOwner}
  OBVIOUS
<1>5. SettledItem(item, outcome, backoff)
        = [item EXCEPT !.state = state, !.owner = NoOwner, !.due = due]
  BY DEF SettledItem
<1> HIDE DEF due, state
<1> DEFINE new == SettledItem(item, outcome, backoff)
<1>6. new = [item EXCEPT !.state = state, !.owner = NoOwner, !.due = due]
  BY <1>5
<1> HIDE DEF new
<1>7. new \in Item /\ new.day = item.day /\ new.state = state
  BY <1>2, <1>3, <1>4, <1>6 DEF Item
<1> QED BY <1>3, <1>7 DEF new

\* What the two fences tell of a worker's run and item.
LEMMA FencedRow ==
    ASSUME QueueInv, NEW w \in Workers, BothFencesHold(w)
    PROVE  /\ claim[w].run \in Runs /\ claim[w].run[1] \in Roots
           /\ run[claim[w].run] \in Row /\ RowOK(run[claim[w].run])
           /\ claim[w].attempt \in RunningAttempts(run[claim[w].run])
           /\ run[claim[w].run].status = "running"
           /\ work[claim[w].run[1]] \in Item
           /\ work[claim[w].run[1]].state = "running"
           /\ work[claim[w].run[1]].owner = <<claim[w].run, claim[w].attempt>>
<1>1. claim[w] # NoClaim /\ claim[w] \in Claim
  BY DEF BothFencesHold, QueueInv, ClaimsOK
<1>2. claim[w].run \in Runs
  BY <1>1 DEF Claim
<1> DEFINE r == claim[w].run
<1>3. r[1] \in Roots /\ run[r] \in Row /\ RowOK(run[r])
  BY <1>2, RunPairs DEF QueueInv, Sound
<1>4. work[r[1]] \in Item
  BY <1>3 DEF QueueInv, Sound
<1> QED BY <1>2, <1>3, <1>4 DEF BothFencesHold, AssertOwner, ItemLeaseHeld

\* Dropping a claim leaves every view unread.
LEMMA DropViews ==
    ASSUME QueueInv, NEW w \in Workers, Drop(w)
    PROVE  /\ view' = view /\ claim' \in [Workers -> Claim \cup {NoClaim}]
           /\ \A v \in Workers : claim'[v] \in {claim[v], NoClaim}
BY DEF QueueInv, ClaimsOK, Drop

LEMMA SettleStep ==
    ASSUME QueueInv, NEW w \in Workers, NEW outcome \in Outcomes, NEW backoff \in ResumeDelays,
           Settle(w, outcome, backoff)
    PROVE  StepOK
<1> DEFINE r == claim[w].run
<1> DEFINE i == r[1]
<1> DEFINE n == claim[w].attempt
<1> DEFINE complete == (outcome = "complete")
<1> DEFINE at == ResumeAfter(outcome, backoff)
<1> DEFINE row == Finished(Checkpointed(Renewed(run[r], n, now), run[r].items, complete),
                          n, StatusAfter(outcome), at)
<1> DEFINE item == SettledItem(work[i], outcome, backoff)
<1>1. /\ BothFencesHold(w) /\ Drop(w) /\ now' = now
      /\ run' = [run EXCEPT ![r] = row] /\ work' = [work EXCEPT ![i] = item]
  BY DEF Settle, SettledItem
<1>2. /\ r \in Runs /\ i \in Roots /\ run[r] \in Row /\ RowOK(run[r])
      /\ n \in RunningAttempts(run[r]) /\ run[r].status = "running"
      /\ work[i] \in Item /\ work[i].state = "running" /\ work[i].owner = <<r, n>>
  BY <1>1, FencedRow
<1>3. now \in Nat /\ at \in Nat /\ complete \in BOOLEAN /\ StatusAfter(outcome) \in TerminalStatus
  BY QueueConstants, BoundsAreNaturals DEF QueueInv, ResumeAfter, StatusAfter, TerminalStatus
<1> HIDE DEF at, complete, n, r
<1>4. /\ row \in Row /\ RowOK(row) /\ row.status = StatusAfter(outcome)
      /\ row.day = run[r].day /\ row.identity = run[r].identity
      /\ row.complete = complete /\ Len(row.attempts) = Len(run[r].attempts)
  BY <1>2, <1>3, SettledRow
<1>5. /\ item \in Item /\ item.day = work[i].day /\ item.state # "absent"
      /\ outcome = "complete" => item.state = "terminal"
  BY <1>2, SettledItemIs
<1> HIDE DEF row, item
<1>6. row.status \notin {"running", "absent"}
  BY <1>3, <1>4 DEF TerminalStatus
<1>7. row.complete => item.state = "terminal"
  BY <1>4, <1>5 DEF complete
<1>8. /\ work[i].owner[1] = r /\ run[r].status # "absent"
      /\ run \in [Runs -> Row] /\ work \in [Roots -> Item] /\ now \in 0..MaxNow
      /\ Sound(run, work, now)
  BY <1>2 DEF QueueInv, Sound
<1> DEFINE j == i
<1>9. r[1] = j /\ j = i
  OBVIOUS
<1> HIDE DEF j
<1>10. Sound([run EXCEPT ![r] = row], [work EXCEPT ![j] = item], now)
  BY <1>2, <1>4, <1>5, <1>6, <1>7, <1>8, <1>9, SoundSettled
<1>11. Sound(run', work', now)
  BY <1>1, <1>9, <1>10
<1>12. \A q \in Runs : /\ Len(run'[q].attempts) >= Len(run[q].attempts)
                       /\ run'[q].status = "running" => run'[q].owner = run[q].owner
  <2> TAKE q \in Runs
  <2>1. Len(run[q].attempts) \in Nat
    BY <1>8, RowAttempts
  <2>2. CASE q = r
    BY <1>1, <1>2, <1>4, <1>6, <1>8, <2>1, <2>2
  <2>3. CASE q # r
    BY <1>1, <1>8, <2>1, <2>3
  <2> QED BY <2>2, <2>3
<1>13. HoldStep
  BY <1>1, <1>2, <1>8 DEF HoldStep
<1>14. /\ view' = view /\ claim' \in [Workers -> Claim \cup {NoClaim}]
       /\ \A v \in Workers : claim'[v] \in {claim[v], NoClaim}
  BY <1>1, DropViews
<1> QED BY <1>1, <1>11, <1>12, <1>13, <1>14, NoClaimStep

LEMMA RenewStep ==
    ASSUME QueueInv, NEW w \in Workers, RenewWorkLease(w)
    PROVE  StepOK
<1> DEFINE r == claim[w].run
<1> DEFINE i == r[1]
<1> DEFINE row == Renewed(run[r], claim[w].attempt, now)
<1> DEFINE item == [work[i] EXCEPT !.lease = now + LeaseSeconds]
<1>1. /\ BothFencesHold(w) /\ UNCHANGED <<claim, view, now>>
      /\ run' = [run EXCEPT ![r] = row] /\ work' = [work EXCEPT ![i] = item]
  BY DEF RenewWorkLease
<1>2. /\ r \in Runs /\ i \in Roots /\ run[r] \in Row /\ RowOK(run[r])
      /\ claim[w].attempt \in RunningAttempts(run[r])
      /\ work[i] \in Item /\ work[i].state = "running"
  BY <1>1, FencedRow
<1>3. now \in Nat /\ now + LeaseSeconds \in Nat
  BY BoundsAreNaturals DEF QueueInv
<1> HIDE DEF r
<1>4. Kept(run[r], row)
  BY <1>2, <1>3, KeptRenewed
<1>5. item \in Item /\ item.state = work[i].state /\ item.owner = work[i].owner
      /\ item.day = work[i].day
  BY <1>2, <1>3 DEF Item
<1> HIDE DEF row, item, i
<1>6. run \in [Runs -> Row] /\ work \in [Roots -> Item] /\ Sound(run, work, now)
  BY DEF QueueInv, Sound
<1>7. /\ run' \in [Runs -> Row] /\ \A q \in Runs : Kept(run[q], run'[q])
  <2>1. \A q \in Runs : Kept(run[q], run[q])
    BY KeptSame DEF QueueInv, Sound
  <2> QED BY <1>1, <1>2, <1>4, <1>6, <2>1 DEF Kept
<1>8. Sound(run', work, now)
  BY <1>6, <1>7, SoundRows
<1>9. /\ work' \in [Roots -> Item]
      /\ \A j \in Roots : /\ work'[j].state = work[j].state
                          /\ work'[j].owner = work[j].owner /\ work'[j].day = work[j].day
  BY <1>1, <1>2, <1>5, <1>6
<1>10. Sound(run', work', now)
  <2>1. Holds(run', work') /\ Completed(run', work')
    BY <1>8, <1>9, RunPairs DEF Sound, Holds, Completed
  <2>2. Calendar(run', work', now)
    BY <1>8, <1>9 DEF Sound, Calendar
  <2> QED BY <1>8, <1>9, <2>1, <2>2 DEF Sound
<1>11. \A q \in Runs : /\ Len(run'[q].attempts) >= Len(run[q].attempts)
                       /\ run'[q].status = "running" => run'[q].owner = run[q].owner
  BY <1>6, <1>7, RowAttempts DEF Kept
<1>12. HoldStep
  BY <1>9 DEF HoldStep
<1>13. claim' \in [Workers -> Claim \cup {NoClaim}]
  BY <1>1 DEF QueueInv, ClaimsOK
<1> QED BY <1>1, <1>10, <1>11, <1>12, <1>13, NoClaimStep

LEMMA AbandonWorkStep ==
    ASSUME QueueInv, NEW w \in Workers, AbandonWork(w)
    PROVE  StepOK
<1>1. Drop(w) /\ UNCHANGED <<run, now, work>>
  BY DEF AbandonWork, Abandon
<1>2. /\ view' = view /\ claim' \in [Workers -> Claim \cup {NoClaim}]
      /\ \A v \in Workers : claim'[v] \in {claim[v], NoClaim}
  BY <1>1, DropViews
<1>3. \A r \in Runs : Len(run[r].attempts) >= Len(run[r].attempts)
  BY RowAttempts DEF QueueInv, Sound
<1>4. Sound(run', work', now)
  BY <1>1 DEF QueueInv
<1>5. HoldStep
  BY <1>1 DEF HoldStep
<1> QED BY <1>1, <1>2, <1>3, <1>4, <1>5, NoClaimStep

LEMMA RenewAttemptStep ==
    ASSUME QueueInv, NEW w \in Workers, RenewAttempt(w)
    PROVE  StepOK
<1> DEFINE r == claim[w].run
<1> DEFINE row == Renewed(run[r], claim[w].attempt, now)
<1>1. /\ claim[w] # NoClaim /\ claim[w].attempt \in RunningAttempts(run[r])
      /\ run' = [run EXCEPT ![r] = row] /\ UNCHANGED <<claim, view, now, work>>
  BY DEF RenewAttempt, AssertOwner
<1>2. /\ r \in Runs /\ now \in Nat /\ run \in [Runs -> Row]
      /\ \A q \in Runs : RowOK(run[q])
  BY <1>1, BoundsAreNaturals DEF QueueInv, Sound, ClaimsOK, Claim
<1> HIDE DEF r
<1>3. Kept(run[r], row)
  BY <1>1, <1>2, KeptRenewed
<1> HIDE DEF row
<1>4. run' \in [Runs -> Row] /\ \A q \in Runs : Kept(run[q], run'[q])
  <2>1. \A q \in Runs : Kept(run[q], run[q])
    BY <1>2, KeptSame
  <2> QED BY <1>1, <1>2, <1>3, <2>1 DEF Kept
<1>5. Sound(run', work', now)
  BY <1>1, <1>4, SoundRows DEF QueueInv
<1>6. \A q \in Runs : /\ Len(run'[q].attempts) >= Len(run[q].attempts)
                      /\ run'[q].status = "running" => run'[q].owner = run[q].owner
  BY <1>2, <1>4, RowAttempts DEF Kept
<1>7. HoldStep
  BY <1>1 DEF HoldStep
<1>8. claim' \in [Workers -> Claim \cup {NoClaim}] /\ \A v \in Workers : claim'[v] \in {claim[v], NoClaim}
  BY <1>1 DEF QueueInv, ClaimsOK
<1> QED BY <1>1, <1>5, <1>6, <1>7, <1>8, NoClaimStep

\* A restart keeps every row, and the rows that ran are interrupted.
LEMMA InterruptedKeeps ==
    ASSUME NEW rows \in [Runs -> Row], \A r \in Runs : RowOK(rows[r])
    PROVE  /\ InterruptedRows(rows) \in [Runs -> Row]
           /\ \A r \in Runs :
                 /\ Kept(rows[r], InterruptedRows(rows)[r])
                 /\ InterruptedRows(rows)[r] = rows[r] \/ InterruptedRows(rows)[r].status = "interrupted"
<1> SUFFICES ASSUME NEW r \in Runs
             PROVE  /\ Kept(rows[r], InterruptedRows(rows)[r])
                    /\ InterruptedRows(rows)[r] = rows[r] \/ InterruptedRows(rows)[r].status = "interrupted"
  BY DEF InterruptedRows, Kept
<1>1. CASE RunningAttempts(rows[r]) # {}
  <2> DEFINE n == CHOOSE n \in RunningAttempts(rows[r]) : TRUE
  <2>1. n \in RunningAttempts(rows[r])
    BY <1>1
  <2>2. InterruptedRows(rows)[r] = Recovered(rows[r], n)
    BY <1>1 DEF InterruptedRows
  <2> HIDE DEF n
  <2> QED BY <2>1, <2>2, KeptRecovered
<1>2. CASE RunningAttempts(rows[r]) = {}
  <2>1. InterruptedRows(rows)[r] = rows[r]
    BY <1>2 DEF InterruptedRows
  <2> QED BY <2>1, KeptSame
<1> QED BY <1>1, <1>2

LEMMA RestartWriterStep ==
    ASSUME QueueInv, RestartWriter
    PROVE  StepOK
<1> DEFINE rows == InterruptedRows(run)
<1>1. rows \in [Runs -> Row] /\ \A r \in Runs : Kept(run[r], rows[r])
  BY InterruptedKeeps DEF QueueInv, Sound
<1>2. run' = rows /\ UNCHANGED <<view, now, work>> /\ claim' = [w \in Workers |-> NoClaim]
  BY DEF RestartWriter
<1> HIDE DEF rows
<1>3. Sound(run', work', now)
  BY <1>1, <1>2, SoundRows DEF QueueInv
<1>4. \A r \in Runs : /\ Len(run'[r].attempts) >= Len(run[r].attempts)
                      /\ run'[r].status = "running" => run'[r].owner = run[r].owner
  BY <1>1, <1>2, RowAttempts DEF Kept, QueueInv, Sound
<1>5. HoldStep
  BY <1>2 DEF HoldStep
<1>6. claim' \in [Workers -> Claim \cup {NoClaim}] /\ \A w \in Workers : claim'[w] \in {claim[w], NoClaim}
  BY <1>2
<1> QED BY <1>2, <1>3, <1>4, <1>5, <1>6, NoClaimStep

LEMMA RecoverAttemptsStep ==
    ASSUME QueueInv, RecoverAttempts
    PROVE  StepOK
<1> DEFINE rows == RecoveredRows(run, Runs, now)
<1>1. Sound(rows, work, now)
  BY SoundRecovered DEF QueueInv
<1>2. \A r \in Runs : Kept(run[r], rows[r])
  BY RecoveredKeeps DEF QueueInv, Sound
<1>3. run' = rows /\ UNCHANGED <<claim, view, now, work>>
  BY DEF RecoverAttempts
<1> HIDE DEF rows
<1>4. \A r \in Runs : /\ Len(run'[r].attempts) >= Len(run[r].attempts)
                      /\ run'[r].status = "running" => run'[r].owner = run[r].owner
  BY <1>2, <1>3, RowAttempts DEF Kept, QueueInv, Sound
<1>5. HoldStep
  BY <1>3 DEF HoldStep
<1>6. claim' \in [Workers -> Claim \cup {NoClaim}] /\ \A w \in Workers : claim'[w] \in {claim[w], NoClaim}
  BY <1>3 DEF QueueInv, ClaimsOK
<1> QED BY <1>1, <1>3, <1>4, <1>5, <1>6, NoClaimStep

\* The planner and the commands move items that neither run nor have ended.
LEMMA EnqueueStep ==
    ASSUME QueueInv, NEW i \in Roots, NEW verdict \in Verdicts \cup {"runnable"},
           Enqueue(i, verdict)
    PROVE  StepOK
<1> DEFINE item == [AbsentItem EXCEPT !.state = verdict, !.due = now, !.day = Today(now)]
<1>1. now \in Nat /\ Today(now) \in Days
  BY TodayIsDay, BoundsAreNaturals DEF QueueInv
<1>2. verdict \in ItemState /\ verdict \notin {"absent", "running", "terminal"}
  BY DEF Verdicts, Waiting, ItemState
<1>3. AbsentItem \in Item
  BY DEF AbsentItem, Item, ItemState
<1>4. item \in Item /\ item.state = verdict /\ item.day = Today(now)
  <2>1. \A x \in Item : LET y == [x EXCEPT !.state = verdict, !.due = now, !.day = Today(now)]
                        IN  y \in Item /\ y.state = verdict /\ y.day = Today(now)
    BY <1>1, <1>2 DEF Item
  <2> QED BY <1>3, <2>1
<1>5. work[i].state = "absent" /\ work' = [work EXCEPT ![i] = item]
      /\ UNCHANGED <<run, claim, view, now>>
  BY DEF Enqueue
<1> HIDE DEF item
<1>6. work \in [Roots -> Item]
  BY DEF QueueInv, Sound
<1>7. /\ work' \in [Roots -> Item]
      /\ \A j \in Roots : work'[j] # work[j] =>
            /\ work[j].state \notin {"running", "terminal"}
            /\ Dated(work[j], work'[j], now)
  BY <1>2, <1>4, <1>5, <1>6 DEF Dated
<1>8. HoldStep
  BY <1>5, <1>6 DEF HoldStep
<1> QED BY <1>5, <1>7, <1>8, ItemsStep

LEMMA ReconsiderStep ==
    ASSUME QueueInv, NEW i \in Roots, Reconsider(i)
    PROVE  StepOK
<1>1. work \in [Roots -> Item] /\ work[i] \in Item /\ work[i].state \in Waiting
      /\ UNCHANGED <<run, claim, view, now>>
  BY DEF QueueInv, Sound, Reconsider
<1>2. PICK item \in Item : /\ item.day = work[i].day
                           /\ item.state \notin {"absent"}
                           /\ work' = [work EXCEPT ![i] = item]
  <2>1. CASE work' = [work EXCEPT ![i].state = "runnable"]
    <3> DEFINE item == [work[i] EXCEPT !.state = "runnable"]
    <3>1. item \in Item /\ item.state = "runnable" /\ item.day = work[i].day
      BY <1>1 DEF Item, ItemState
    <3>2. work' = [work EXCEPT ![i] = item]
      BY <2>1
    <3> HIDE DEF item
    <3> QED BY <3>1, <3>2
  <2>2. ASSUME NEW verdict \in Verdicts,
               work' = [work EXCEPT ![i] = BlockedItem(@, verdict, now)]
        PROVE  \E item \in Item : /\ item.day = work[i].day
                                  /\ item.state \notin {"absent"}
                                  /\ work' = [work EXCEPT ![i] = item]
    <3> DEFINE item == BlockedItem(work[i], verdict, now)
    <3>1. item \in Item /\ item.state = verdict /\ item.day = work[i].day
      BY <1>1, BlockedItemIs
    <3>2. work' = [work EXCEPT ![i] = item] /\ verdict # "absent"
      BY <2>2 DEF Verdicts, Waiting
    <3> HIDE DEF item
    <3> QED BY <3>1, <3>2
  <2> QED BY <2>1, <2>2 DEF Reconsider
<1>3. /\ work' \in [Roots -> Item]
      /\ \A j \in Roots : work'[j] # work[j] =>
            /\ work[j].state \notin {"running", "terminal"}
            /\ Dated(work[j], work'[j], now)
  BY <1>1, <1>2 DEF Dated, Waiting
<1>4. HoldStep
  BY <1>1, <1>2 DEF HoldStep, Waiting
<1> QED BY <1>1, <1>3, <1>4, ItemsStep

LEMMA NudgedIs ==
    ASSUME QueueInv, NEW item \in Item, NEW state \in ItemState
    PROVE  LET new == Nudged(item, state)
           IN  /\ new \in Item /\ new.state = state /\ new.day = item.day
               /\ new.nudged /\ new.due = now
<1>1. now \in Nat
  BY BoundsAreNaturals DEF QueueInv
<1> QED BY <1>1 DEF Nudged, Item

\* Commands and wake-ups: some items that wait are due now.
LEMMA NudgeStep ==
    ASSUME QueueInv, UNCHANGED <<run, claim, view, now>>,
           NEW S \in SUBSET Roots, NEW state \in ItemState \ {"absent"},
           \A i \in S : work[i].state \in {"paid_identity_hold", "runnable"} \cup Waiting,
           work' = [i \in Roots |-> IF i \in S THEN Nudged(work[i], state) ELSE work[i]]
    PROVE  StepOK
<1>1. work \in [Roots -> Item] /\ \A i \in Roots : work[i] \in Item
  BY DEF QueueInv, Sound
<1>2. \A i \in S : /\ work'[i] \in Item /\ work'[i].state = state /\ work'[i].day = work[i].day
                   /\ work'[i].nudged /\ work'[i].due = now
  BY <1>1, NudgedIs
<1>3. \A i \in Roots : i \notin S => work'[i] = work[i]
  OBVIOUS
<1>4. work' \in [Roots -> Item]
  <2> SUFFICES \A i \in Roots : (IF i \in S THEN Nudged(work[i], state) ELSE work[i]) \in Item
    OBVIOUS
  <2> QED BY <1>1, NudgedIs
<1>5. \A i \in Roots : work'[i] # work[i] =>
         /\ work[i].state \notin {"running", "terminal"}
         /\ Dated(work[i], work'[i], now)
  BY <1>2, <1>3 DEF Dated, Waiting
<1>6. HoldStep
  BY <1>2, <1>3 DEF HoldStep
<1> QED BY <1>4, <1>5, <1>6, ItemsStep

LEMMA CommandStep ==
    ASSUME QueueInv,
           \/ \E i \in Roots : \/ \E verdict \in Verdicts \cup {"runnable"} : EnqueueManual(i, verdict)
                               \/ EnqueueCompensation(i)
           \/ \E S \in SUBSET Roots : WakeConsumers(S)
    PROVE  StepOK
<1>1. work \in [Roots -> Item]
  BY DEF QueueInv, Sound
<1>2. \A state : \A i \in Roots : [work EXCEPT ![i] = Nudged(@, state)]
          = [j \in Roots |-> IF j \in {i} THEN Nudged(work[j], state) ELSE work[j]]
  BY <1>1
<1>3. ASSUME NEW i \in Roots, NEW verdict \in Verdicts \cup {"runnable"}, EnqueueManual(i, verdict)
      PROVE  StepOK
  <2>1. verdict \in ItemState \ {"absent"}
    BY DEF Verdicts, Waiting, ItemState
  <2>2. /\ UNCHANGED <<run, claim, view, now>>
        /\ work[i].state \in {"paid_identity_hold", "runnable"} \cup Waiting
        /\ work' = [work EXCEPT ![i] = Nudged(@, verdict)]
    BY <1>3 DEF EnqueueManual
  <2>3. work' = [j \in Roots |-> IF j \in {i} THEN Nudged(work[j], verdict) ELSE work[j]]
    BY <1>2, <2>2
  <2> QED BY <2>1, <2>2, <2>3, NudgeStep
<1>4. ASSUME NEW i \in Roots, EnqueueCompensation(i)
      PROVE  StepOK
  <2>1. "runnable" \in ItemState \ {"absent"}
    BY DEF ItemState
  <2>2. /\ UNCHANGED <<run, claim, view, now>>
        /\ work[i].state \in {"paid_identity_hold", "runnable"} \cup Waiting
        /\ work' = [work EXCEPT ![i] = Nudged(@, "runnable")]
    BY <1>4 DEF EnqueueCompensation
  <2>3. work' = [j \in Roots |-> IF j \in {i} THEN Nudged(work[j], "runnable") ELSE work[j]]
    BY <1>2, <2>2
  <2> QED BY <2>1, <2>2, <2>3, NudgeStep
<1>5. ASSUME NEW S \in SUBSET Roots, WakeConsumers(S)
      PROVE  StepOK
  <2>1. "runnable" \in ItemState \ {"absent"}
    BY DEF ItemState
  <2>2. /\ UNCHANGED <<run, claim, view, now>>
        /\ \A i \in S : work[i].state \in {"paid_identity_hold", "runnable"} \cup Waiting
        /\ work' = [i \in Roots |-> IF i \in S THEN Nudged(work[i], "runnable") ELSE work[i]]
    BY <1>5 DEF WakeConsumers, Waiting
  <2> QED BY <2>1, <2>2, NudgeStep
<1> QED BY <1>3, <1>4, <1>5

LEMMA TickStep ==
    ASSUME QueueInv, CaptureTick
    PROVE  StepOK
<1>1. /\ now \in 0..MaxNow /\ now < MaxNow /\ now' = now + 1
      /\ run' = run /\ claim' = claim /\ view' = view /\ work' = work
  BY DEF CaptureTick, Tick, QueueInv
<1>2. now \in Nat /\ now' \in 0..MaxNow
  BY <1>1, BoundsAreNaturals
<1>3. Today(now) <= Today(now + 1)
  BY <1>2, TodayMonotone
<1>4. Today(now) \in Int /\ Today(now') \in Int /\ Today(now) <= Today(now')
  BY <1>1, <1>2, <1>3, TodayIsDay
<1> DEFINE a == Today(now)
<1> DEFINE b == Today(now')
<1>5. a \in Int /\ b \in Int /\ a <= b
  BY <1>4
<1> HIDE DEF a, b
<1>6. Calendar(run, work, now')
  <2> SUFFICES ASSUME NEW i \in Roots
               PROVE  /\ \A k \in Children(run, i) : run[<<i, k>>].day <= b
                      /\ work[i].state # "absent" => work[i].day <= b
    BY DEF QueueInv, Sound, Calendar, b
  <2>1. \A k \in Children(run, i) : <<i, k>> \in Runs
    BY RunPairs, BoundsAreNaturals DEF Children
  <2>2. \A k \in Children(run, i) : run[<<i, k>>].day \in Int /\ run[<<i, k>>].day <= a
    BY <2>1, DaysAreInts DEF QueueInv, Sound, Calendar, a
  <2>3. work[i].state # "absent" => work[i].day \in Int /\ work[i].day <= a
    BY DaysAreInts DEF QueueInv, Sound, Calendar, a
  <2> QED BY <1>5, <2>2, <2>3
<1>7. Sound(run', work', now')
  BY <1>1, <1>6 DEF QueueInv, Sound
<1>8. ClaimsOK'
  BY <1>1 DEF QueueInv, ClaimsOK, ClaimsDiffer
<1>9. ChargedStep /\ HoldStep
  BY <1>1 DEF ChargedStep, HoldStep
<1> QED BY <1>1, <1>2, <1>7, <1>8, <1>9 DEF StepOK, QueueInv

LEMMA CaptureStep ==
    ASSUME QueueInv, [NextCapture]_captureVars
    PROVE  StepOK
<1>1. CASE UNCHANGED captureVars
  <2>1. run' = run /\ claim' = claim /\ view' = view /\ now' = now /\ work' = work
    BY <1>1 DEF captureVars
  <2>2. QueueInv'
    BY <2>1 DEF QueueInv, ClaimsOK, ClaimsDiffer
  <2> QED BY <2>1, <2>2 DEF StepOK, ChargedStep, HoldStep
<1>2. ASSUME NEW w \in Workers, Dispatch(w) PROVE StepOK
  <2>1. PICK at : \E rows \in {RecoveredRows(run, Runs, at)} :
                  \E items \in {RecoveredItems(work, rows, at)} : DispatchAt(w, rows, items, at)
    BY <1>2 DEF Dispatch
  <2> DEFINE rows == RecoveredRows(run, Runs, at)
  <2> DEFINE items == RecoveredItems(work, rows, at)
  <2>2. DispatchAt(w, rows, items, at)
    BY <2>1
  <2>3. Reached(rows, items)
    BY ReachedRecovered
  <2> HIDE DEF rows, items
  <2>4. /\ claim[w] = NoClaim /\ UNCHANGED <<view, now>>
        /\ (\E i \in Roots : DispatchTo(w, i, rows, items, at)) \/ DispatchIdle(rows, items, at)
    BY <2>2 DEF DispatchAt
  <2> QED BY <2>3, <2>4, DispatchStep
<1>3. ASSUME NEW w \in Workers, NEW i \in Roots, DispatchNamed(w, i) PROVE StepOK
  <2>1. /\ claim[w] = NoClaim /\ UNCHANGED <<view, now>>
        /\ DispatchTo(w, i, run, work, now)
    BY <1>3 DEF DispatchNamed
  <2>2. Reached(run, work)
    BY ReachedNow
  <2> QED BY <2>1, <2>2, DispatchStep
<1>4. ASSUME NEW w \in Workers, EndExecution(w) PROVE StepOK
  BY <1>4, SettleStep, AbandonWorkStep DEF EndExecution, SettleWork
<1> QED BY <1>1, <1>2, <1>3, <1>4, RenewStep, RenewAttemptStep, EnqueueStep, ReconsiderStep,
           CommandStep, RecoverAttemptsStep, RestartWriterStep, TickStep DEF NextCapture, QueueStep

LEMMA InitQueueInv == InitCapture => QueueInv
<1> SUFFICES ASSUME InitCapture PROVE QueueInv
  OBVIOUS
<1>1. /\ run = [r \in Runs |-> AbsentRow] /\ claim = [w \in Workers |-> NoClaim]
      /\ view = [w \in Workers |-> Unread] /\ now = 0
      /\ work = [i \in Roots |-> AbsentItem]
  BY DEF InitCapture, Init
<1>2. IInv
  BY InitIInv DEF InitCapture
<1>3. run \in [Runs -> Row] /\ \A r \in Runs : RowOK(run[r])
  BY <1>2 DEF IInv, TypeOK
<1>4. \A r \in Runs : run[r].status = "absent" /\ ~run[r].complete
  BY <1>1 DEF AbsentRow
<1>5. AbsentItem \in Item /\ AbsentItem.state = "absent"
  BY DEF AbsentItem, Item, ItemState
<1>6. work \in [Roots -> Item] /\ \A i \in Roots : work[i].state = "absent"
  BY <1>1, <1>5
<1>7. \A i \in Roots : Children(run, i) = {}
  BY <1>4, RunPairs, BoundsAreNaturals DEF Children
<1>8. Calendar(run, work, now)
  <2>1. Cardinality({}) = 0 /\ 1..0 = {}
    BY FS_EmptySet
  <2> QED BY <1>4, <1>6, <1>7, <2>1 DEF Calendar
<1>9. Sound(run, work, now)
  BY <1>3, <1>4, <1>6, <1>8 DEF Sound, Holds, Completed, Scoped
<1>10. ClaimsOK
  BY <1>1, <1>2 DEF ClaimsOK, IInv, TypeOK
<1>11. now \in 0..MaxNow
  BY <1>1, BoundsAreNaturals
<1> QED BY <1>1, <1>9, <1>10, <1>11 DEF QueueInv

-----------------------------------------------------------------------------
(* What the proofs establish. *)

\* Work items, durable runs and the claims that hold both agree after every
\* transaction (_run_single_prepared, _recover_work, durable_runs.py).
THEOREM QueueInductive == CaptureSpec => []QueueInv
<1>1. QueueInv /\ [NextCapture]_captureVars => QueueInv'
  BY CaptureStep DEF StepOK
<1> QED BY <1>1, InitQueueInv, PTL DEF CaptureSpec

\* Every variable of the queue always has its type.
THEOREM QueueTypeCorrect == CaptureSpec => []CaptureTypeOK
<1>1. QueueInv => CaptureTypeOK
  BY BoundsAreNaturals DEF QueueInv, Sound, ClaimsOK, CaptureTypeOK, TypeOK
<1> QED BY <1>1, QueueInductive, PTL

\* Whatever run of an item's family is running, the item is running and carries
\* that attempt's token: lease recovery never parts the two tables.
THEOREM TokensAgree == CaptureSpec => []AttemptHoldsItem
<1>1. QueueInv => AttemptHoldsItem
  BY DEF QueueInv, Sound, Holds, AttemptHoldsItem
<1> QED BY <1>1, QueueInductive, PTL

\* At most one worker may write for an item, over all the runs of its family.
THEOREM OneExecutorPerItem == CaptureSpec => []OneExecutor
<1>1. QueueInv => OneExecutor
  <2> SUFFICES ASSUME QueueInv, NEW v \in Workers, NEW w \in Workers, Owns(v), Owns(w),
                      claim[v].run[1] = claim[w].run[1], v # w
               PROVE  FALSE
    BY DEF OneExecutor
  <2>1. /\ claim[v] # NoClaim /\ claim[v].run \in Runs
        /\ claim[w] # NoClaim /\ claim[w].run \in Runs
    BY DEF Owns, QueueInv, ClaimsOK, Claim
  <2>2. /\ run[claim[v].run].status = "running" /\ run[claim[v].run].owner = claim[v].attempt
        /\ run[claim[w].run].status = "running" /\ run[claim[w].run].owner = claim[w].attempt
    BY DEF Owns, AssertOwner
  <2>3. /\ work[claim[v].run[1]].owner = <<claim[v].run, claim[v].attempt>>
        /\ work[claim[w].run[1]].owner = <<claim[w].run, claim[w].attempt>>
    BY <2>1, <2>2 DEF QueueInv, Sound, Holds
  <2>4. claim[v].run = claim[w].run /\ claim[v].attempt = claim[w].attempt
    BY <2>3
  <2> QED BY <2>1, <2>4 DEF QueueInv, ClaimsOK, ClaimsDiffer
<1> QED BY <1>1, QueueInductive, PTL

\* The item of a completed run has ended and never returns to the queue.
THEOREM CompletionIsFinal == CaptureSpec => []CompletedIsTerminal
<1>1. QueueInv => CompletedIsTerminal
  BY DEF QueueInv, Sound, Completed, CompletedIsTerminal
<1> QED BY <1>1, QueueInductive, PTL

\* One continuation of an item for each business day, in the order of the calendar.
THEOREM ContinuationsFollowDays == CaptureSpec => []OneContinuationPerDay
<1>1. QueueInv => OneContinuationPerDay
  BY DEF QueueInv, Sound, Calendar, OneContinuationPerDay
<1> QED BY <1>1, QueueInductive, PTL

\* The queue never leaves a gap in a family of runs, nor changes its frozen scope.
THEOREM ChainIsWhole == CaptureSpec => []ContinuationChain
<1>1. QueueInv => ContinuationChain
  <2> SUFFICES ASSUME QueueInv, NEW r \in Runs, ~IsRoot(r), run[r].status # "absent"
               PROVE  /\ run[Predecessor(r)].status # "absent"
                      /\ run[r].identity = run[RootOf(r)].identity
                      /\ ~IsRoot(Predecessor(r)) => run[Predecessor(r)].day <= run[r].day
    BY DEF ContinuationChain
  <2> DEFINE i == r[1]
  <2> DEFINE k == r[2]
  <2> DEFINE n == Cardinality(Children(run, i))
  <2>1. i \in Roots /\ r = <<i, k>> /\ k \in 1..MaxSeq
    BY RunPairs, BoundsAreNaturals DEF IsRoot
  <2>2. k \in Children(run, i)
    BY <2>1 DEF Children
  <2>3. /\ Children(run, i) = 1..n /\ n \in Nat
        /\ \A a, b \in Children(run, i) : a < b => run[<<i, a>>].day < run[<<i, b>>].day
        /\ run[<<i, 0>>].status # "absent"
    BY <2>1, <2>2, ChildrenCount DEF QueueInv, Sound, Calendar
  <2>4. Predecessor(r) = <<i, k - 1>> /\ RootOf(r) = <<i, 0>> /\ <<i, 0>> \in Runs
    BY <2>1, RunPairs, BoundsAreNaturals DEF Predecessor, RootOf
  <2>5. run[r].identity = Scope /\ run[<<i, 0>>].identity = Scope
    BY <2>3, <2>4 DEF QueueInv, Sound, Scoped
  <2> HIDE DEF k, n
  <2>6. CASE k = 1
    BY <2>3, <2>4, <2>5, <2>6 DEF IsRoot
  <2>7. CASE k # 1
    <3>1. k - 1 \in Children(run, i) /\ k - 1 < k
      BY <2>1, <2>2, <2>3, <2>7, BoundsAreNaturals
    <3>2. run[<<i, k - 1>>].status # "absent" /\ <<i, k - 1>> \in Runs
      BY <2>1, <3>1, RunPairs, BoundsAreNaturals DEF Children
    <3>3. run[<<i, k - 1>>].day < run[r].day
      BY <2>1, <2>2, <2>3, <3>1
    <3>4. run[<<i, k - 1>>].day \in Int /\ run[r].day \in Int
      BY <3>2, DaysAreInts DEF QueueInv, Sound
    <3> QED BY <2>4, <2>5, <3>2, <3>3, <3>4
  <2> QED BY <2>6, <2>7
<1> QED BY <1>1, QueueInductive, PTL

\* Every execution is charged to the business day it starts on.
THEOREM ChargesAreDated == CaptureSpec => ChargedOnItsDay
<1>1. QueueInv /\ [NextCapture]_captureVars =>
        [\A r \in Runs : run'[r].status = "running" /\ run'[r].owner # run[r].owner =>
          (IF IsRoot(r) THEN work[r[1]].day ELSE run'[r].day) = Today(now)]_captureVars
  BY CaptureStep DEF StepOK, ChargedStep
<1> QED BY <1>1, QueueInductive, PTL DEF CaptureSpec, ChargedOnItsDay

\* Only a command takes an item out of a paid identity hold.
THEOREM HoldsAreKept == CaptureSpec => HoldsAwaitCommand
<1>1. QueueInv /\ [NextCapture]_captureVars =>
        [\A i \in Roots :
          work[i].state = "paid_identity_hold" /\ work'[i].state # "paid_identity_hold"
              => work'[i].nudged /\ work'[i].due = now]_captureVars
  BY CaptureStep DEF StepOK, HoldStep
<1> QED BY <1>1, QueueInductive, PTL DEF CaptureSpec, HoldsAwaitCommand

-----------------------------------------------------------------------------
(* A due item can be claimed.  An item's due_at and its runs' next_resume_at *)
(* are in two tables, and which run counts changes at midnight.  What they   *)
(* agree on (Due) is said of the one run that is charged today: no dispatch  *)
(* of the day has left it unfinished later than the item is due.  It rests   *)
(* on the calendar of QueueInv, by which an item has one such run and a new  *)
(* day has none.                                                             *)

\* A dispatch may select it without a command having moved it forward.
Eager(item) == item.state \in {"runnable"} \cup Waiting /\ ~item.nudged

\* A run of an item that has not ended: its own end would have ended the item,
\* and a partial run that is charged today resumes by the time the item is due.
DueRun(row, root, item, t) ==
    item.state # "terminal" =>
        /\ row.status \notin {"succeeded", "failed"}
        /\ row.status = "partial" /\ (IF root THEN item.day ELSE row.day) = Today(t) =>
              /\ item.state # "running"
              /\ Eager(item) => row.resumeAt \in Nat /\ row.resumeAt <= item.due

Due(rows, items, t) == \A r \in Runs : DueRun(rows[r], IsRoot(r), items[r[1]], t)

DueInv == QueueInv /\ Due(run, work, now)

-----------------------------------------------------------------------------
(* Parts of a step.                                                        *)

\* A run that runs or was interrupted holds nothing back.
LEMMA DueUnlessPartial ==
    ASSUME NEW row, NEW root, NEW item, NEW t, row.status \in {"absent", "running", "interrupted"}
    PROVE  DueRun(row, root, item, t)
BY DEF DueRun

\* An item moves: its end is final, and it is never due earlier than it was.
Later(item, new) ==
    /\ item.due \in Nat /\ new.due \in Nat
    /\ item.state = "terminal" => new.state = "terminal"
    /\ new.state # "running"
    /\ new.day = item.day
    /\ \/ item.state = "running"
       \/ ~Eager(new)
       \/ Eager(item) /\ item.due <= new.due

LEMMA DueLater ==
    ASSUME NEW row, NEW root, NEW item, NEW new, NEW t,
           DueRun(row, root, item, t), Later(item, new)
    PROVE  DueRun(row, root, new, t)
<1> SUFFICES ASSUME new.state # "terminal"
             PROVE  /\ row.status \notin {"succeeded", "failed"}
                    /\ row.status = "partial" /\ (IF root THEN new.day ELSE row.day) = Today(t) =>
                          /\ new.state # "running"
                          /\ Eager(new) => row.resumeAt \in Nat /\ row.resumeAt <= new.due
  BY DEF DueRun
<1>1. item.state # "terminal" /\ new.day = item.day /\ new.state # "running"
  BY DEF Later
<1>2. row.status \notin {"succeeded", "failed"}
  BY <1>1 DEF DueRun
<1>3. ASSUME row.status = "partial", (IF root THEN new.day ELSE row.day) = Today(t), Eager(new)
      PROVE  row.resumeAt \in Nat /\ row.resumeAt <= new.due
  <2>1. /\ item.state # "running"
        /\ Eager(item) => row.resumeAt \in Nat /\ row.resumeAt <= item.due
    BY <1>1, <1>3 DEF DueRun
  <2>2. Eager(item) /\ item.due <= new.due /\ item.due \in Nat /\ new.due \in Nat
    BY <1>3, <2>1 DEF Later
  <2> QED BY <2>1, <2>2
<1> QED BY <1>1, <1>2, <1>3

\* Recovery interrupts rows and leaves the others alone.
LEMMA RecoveredRow ==
    ASSUME NEW rows \in [Runs -> Row], \A r \in Runs : RowOK(rows[r]), NEW at, NEW r \in Runs
    PROVE  LET new == RecoveredRows(rows, Runs, at)[r]
           IN  new = rows[r] \/ new.status = "interrupted"
<1>1. CASE Expired(rows[r], at) # {}
  <2> DEFINE n == CHOOSE n \in Expired(rows[r], at) : TRUE
  <2>1. n \in RunningAttempts(rows[r])
    BY <1>1 DEF Expired
  <2>2. RecoveredRows(rows, Runs, at)[r] = Recovered(rows[r], n)
    BY <1>1 DEF RecoveredRows
  <2> HIDE DEF n
  <2> QED BY <2>1, <2>2, KeptRecovered
<1>2. CASE Expired(rows[r], at) = {}
  BY <1>2 DEF RecoveredRows
<1> QED BY <1>1, <1>2

LEMMA DueRecovered ==
    ASSUME NEW rows, NEW items, NEW t, NEW at, Sound(rows, items, t), Due(rows, items, t)
    PROVE  LET new == RecoveredRows(rows, Runs, at)
           IN  Due(new, items, t) /\ Due(new, RecoveredItems(items, new, at), t)
<1> DEFINE new == RecoveredRows(rows, Runs, at)
<1> DEFINE after == RecoveredItems(items, new, at)
<1>1. \A r \in Runs : new[r] = rows[r] \/ new[r].status = "interrupted"
  BY RecoveredRow DEF Sound
<1> HIDE DEF new
<1>2. Due(new, items, t)
  BY <1>1, DueUnlessPartial DEF Due
<1>3. ASSUME NEW i \in Roots PROVE after[i] = items[i] \/ Later(items[i], after[i])
  <2>1. items[i] \in Item
    BY DEF Sound
  <2>2. CASE StaleItem(items[i], new, at)
    <3>1. after[i] = [items[i] EXCEPT !.state = "runnable", !.owner = NoOwner]
      BY <2>2 DEF RecoveredItems
    <3>2. items[i].state = "running"
      BY <2>2 DEF StaleItem
    <3>3. after[i].due = items[i].due /\ after[i].day = items[i].day
          /\ after[i].state = "runnable" /\ items[i].due \in Nat
      BY <2>1, <3>1 DEF Item
    <3> QED BY <3>2, <3>3 DEF Later
  <2>3. CASE ~StaleItem(items[i], new, at)
    BY <2>3 DEF RecoveredItems
  <2> QED BY <2>2, <2>3
<1> HIDE DEF after
<1>4. Due(new, after, t)
  <2> SUFFICES ASSUME NEW r \in Runs PROVE DueRun(new[r], IsRoot(r), after[r[1]], t)
    BY DEF Due
  <2>1. DueRun(new[r], IsRoot(r), items[r[1]], t) /\ r[1] \in Roots
    BY <1>2, RunPairs DEF Due
  <2> QED BY <1>3, <2>1, DueLater
<1> QED BY <1>2, <1>4 DEF new, after

\* Items that move while the runs stay.
LEMMA DueItems ==
    ASSUME NEW rows, NEW items, NEW t, NEW new, Due(rows, items, t),
           \A i \in Roots : new[i] = items[i] \/ Later(items[i], new[i])
    PROVE  Due(rows, new, t)
<1> SUFFICES ASSUME NEW r \in Runs PROVE DueRun(rows[r], IsRoot(r), new[r[1]], t)
  BY DEF Due
<1>1. DueRun(rows[r], IsRoot(r), items[r[1]], t) /\ r[1] \in Roots
  BY RunPairs DEF Due
<1> QED BY <1>1, DueLater

\* The root that is born to yield is not charged today.
LEMMA DueAnchored ==
    ASSUME NEW rows, NEW items, NEW t \in 0..MaxNow, NEW i \in Roots,
           Sound(rows, items, t), items[i].state = "runnable", Due(rows, items, t)
    PROVE  Due(Anchored(rows, i, items[i].day, t), items, t)
<1> DEFINE day == items[i].day
<1> DEFINE new == Anchored(rows, i, day, t)
<1>1. \A r \in Runs : \/ new[r] = rows[r]
                      \/ r = RootRun(i) /\ new[r] = AnchorRow(t) /\ Today(t) # day
  BY DEF Anchored, AnchorRow
<1>2. AnchorRow(t).status = "partial"
  <2>1. t \in Nat
    BY BoundsAreNaturals
  <2> QED BY <2>1, AnchorRowIs
<1> HIDE DEF new
<1> SUFFICES ASSUME NEW r \in Runs PROVE DueRun(new[r], IsRoot(r), items[r[1]], t)
  BY DEF Due, new
<1>3. CASE new[r] = rows[r]
  BY <1>3 DEF Due
<1>4. CASE r = RootRun(i) /\ new[r] = AnchorRow(t) /\ Today(t) # day
  <2>1. IsRoot(r) /\ r[1] = i
    BY <1>4 DEF RootRun, IsRoot
  <2> QED BY <1>2, <1>4, <2>1 DEF DueRun
<1> QED BY <1>1, <1>3, <1>4

\* The claimed run is the only one of its item that is charged today.
LEMMA DueStarted ==
    ASSUME NEW rows, NEW items, NEW new, NEW after, NEW t \in 0..MaxNow,
           NEW i \in Roots, NEW r \in Runs,
           Due(rows, items, t), Sound(new, after, t),
           r[1] = i, new[r].status = "running",
           IF IsRoot(r) THEN after[i].day = Today(t) ELSE new[r].day = Today(t),
           \A q \in Runs : q # r => new[q] = rows[q],
           after[i].state = "running", after[i].day = items[i].day,
           items[i].state = "runnable",
           \A j \in Roots : j # i => after[j] = items[j]
    PROVE  Due(new, after, t)
<1> SUFFICES ASSUME NEW q \in Runs PROVE DueRun(new[q], IsRoot(q), after[q[1]], t)
  BY DEF Due
<1>1. q[1] \in Roots /\ DueRun(rows[q], IsRoot(q), items[q[1]], t)
  BY RunPairs DEF Due
<1>2. CASE q = r
  BY <1>2, DueUnlessPartial
<1>3. CASE q[1] # i
  BY <1>1, <1>3
<1>4. CASE q # r /\ q[1] = i
  <2> DEFINE j == q[2]
  <2> DEFINE k == r[2]
  <2>1. q = <<i, j>> /\ r = <<i, k>> /\ j # k /\ j \in Int /\ k \in Int
        /\ j \in 0..MaxSeq /\ k \in 0..MaxSeq
    BY <1>4, RunPairs, BoundsAreNaturals
  <2>2. new[q] = rows[q] /\ new[q].status \notin {"succeeded", "failed"}
    BY <1>1, <1>4 DEF DueRun
  <2>3. ASSUME new[q].status = "partial"
        PROVE  (IF IsRoot(q) THEN after[i].day ELSE new[q].day) # Today(t)
    <3>1. /\ \A a, b \in Children(new, i) : a < b => new[<<i, a>>].day < new[<<i, b>>].day
          /\ \A a \in Children(new, i) : after[i].day < new[<<i, a>>].day
          /\ after[i].day \in Days
      BY DEF Sound, Calendar
    <3>2. ~IsRoot(q) => j \in Children(new, i)
      BY <2>1, <2>3, BoundsAreNaturals DEF Children, IsRoot
    <3>3. ~IsRoot(r) => k \in Children(new, i)
      BY <2>1, BoundsAreNaturals DEF Children, IsRoot
    <3>4. new[q].day \in Int /\ new[r].day \in Int /\ after[i].day \in Int
      BY <3>1, DaysAreInts DEF Sound
    <3>5. CASE IsRoot(q)
      <4>1. ~IsRoot(r)
        BY <2>1, <3>5 DEF IsRoot
      <4>2. after[i].day < new[r].day
        BY <2>1, <3>1, <3>3, <4>1
      <4>3. after[i].day # new[r].day
        BY <3>4, <4>2
      <4> QED BY <3>5, <4>1, <4>3
    <3>6. CASE ~IsRoot(q) /\ IsRoot(r)
      <4>1. after[i].day < new[q].day
        BY <2>1, <3>1, <3>2, <3>6
      <4>2. after[i].day # new[q].day
        BY <3>4, <4>1
      <4> QED BY <3>6, <4>2
    <3>7. CASE ~IsRoot(q) /\ ~IsRoot(r)
      <4>1. j < k \/ k < j
        BY <2>1
      <4>2. new[q].day < new[r].day \/ new[r].day < new[q].day
        BY <2>1, <3>1, <3>2, <3>3, <3>7, <4>1
      <4>3. new[q].day # new[r].day
        BY <3>4, <4>2
      <4> QED BY <3>7, <4>3
    <3> QED BY <3>5, <3>6, <3>7
  <2> HIDE DEF j, k
  <2> QED BY <1>4, <2>2, <2>3 DEF DueRun
<1> QED BY <1>2, <1>3, <1>4

-----------------------------------------------------------------------------
(* Steps. *)

\* A dispatch from the tables its recovery left.
LEMMA DueDispatch ==
    ASSUME QueueInv, QueueInv', NEW w \in Workers, NEW rows, NEW items, Reached(rows, items),
           Due(rows, items, now), NEW at \in 0..now,
           (\E i \in Roots : DispatchTo(w, i, rows, items, at)) \/ DispatchIdle(rows, items, at),
           UNCHANGED <<view, now>>
    PROVE  Due(run', work', now)
<1>1. Sound(rows, items, now) /\ now \in 0..MaxNow /\ now \in Nat /\ Sound(run', work', now)
  BY BoundsAreNaturals DEF Reached, QueueInv
<1>2. CASE DispatchIdle(rows, items, at)
  BY <1>2 DEF DispatchIdle
<1>3. ASSUME NEW i \in Roots, DispatchTo(w, i, rows, items, at) PROVE Due(run', work', now)
  <2>1. /\ items[i].state = "runnable" /\ items[i] \in Item /\ items[i].due <= at
        /\ items[i].due \in Nat /\ items \in [Roots -> Item]
    BY <1>1, <1>3 DEF DispatchTo, Sound, Item
  <2>2. ASSUME NEW item, Later(items[i], item), work' = [items EXCEPT ![i] = item], run' = rows
        PROVE  Due(run', work', now)
    <3>1. \A j \in Roots : work'[j] = items[j] \/ Later(items[j], work'[j])
      BY <2>1, <2>2
    <3> QED BY <2>2, <3>1, DueItems
  <2>3. ASSUME NEW verdict \in Verdicts,
               work' = [items EXCEPT ![i] = BlockedItem(@, verdict, now)], run' = rows
        PROVE  Due(run', work', now)
    <3> DEFINE item == BlockedItem(items[i], verdict, now)
    <3> DEFINE due == IF verdict \in Waiting THEN now + RetryBase ELSE items[i].due
    <3>1. now + RetryBase \in Nat /\ items[i].due <= now + RetryBase
      BY <1>1, <2>1, QueueConstants
    <3>2. due \in Nat /\ items[i].due <= due
      BY <2>1, <3>1
    <3>3. item = [items[i] EXCEPT !.state = verdict, !.due = due]
      BY <2>1 DEF BlockedItem, Item
    <3> HIDE DEF due
    <3>4. item.due = due /\ item.day = items[i].day /\ item.state = verdict
          /\ item.nudged = items[i].nudged
      BY <2>1, <3>3 DEF Item
    <3>5. work' = [items EXCEPT ![i] = item]
      BY <2>3
    <3> HIDE DEF item
    <3>6. verdict # "running"
      BY DEF Verdicts, Waiting
    <3>7. Later(items[i], item)
      BY <2>1, <3>2, <3>4, <3>6 DEF Later, Eager
    <3> QED BY <2>2, <2>3, <3>5, <3>7
  <2>4. CASE work' = [items EXCEPT ![i].state = "terminal"] /\ run' = rows
    <3> DEFINE item == [items[i] EXCEPT !.state = "terminal"]
    <3>1. item.due = items[i].due /\ item.day = items[i].day /\ item.state = "terminal"
      BY <2>1 DEF Item
    <3>2. work' = [items EXCEPT ![i] = item]
      BY <2>4
    <3> HIDE DEF item
    <3>3. Later(items[i], item)
      BY <2>1, <3>1 DEF Later, Eager, Waiting
    <3> QED BY <2>2, <2>4, <3>2, <3>3
  <2> DEFINE anchored == Anchored(rows, i, items[i].day, now)
  <2>5. Due(anchored, items, now)
    <3> DEFINE t == now
    <3> HIDE DEF t
    <3>1. t \in 0..MaxNow /\ Sound(rows, items, t) /\ Due(rows, items, t)
      BY <1>1 DEF t
    <3>2. Due(Anchored(rows, i, items[i].day, t), items, t)
      BY <2>1, <3>1, DueAnchored
    <3> QED BY <3>2 DEF t
  <2>6. ASSUME NEW r \in Runs, r = RunFor(anchored, i, items[i].day, now),
               Claimable(anchored, r, now),
               StartExecution(w, r, Claimed(RowToClaim(anchored, r, now), now), anchored, items)
        PROVE  Due(run', work', now)
    <3> DEFINE row == Claimed(RowToClaim(anchored, r, now), now)
    <3>1. Sound(anchored, items, now) /\ anchored \in [Runs -> Row]
      BY <2>1, AnchoredNow DEF Sound
    <3>2. run' = [anchored EXCEPT ![r] = row]
          /\ work' = [items EXCEPT ![i] = [@ EXCEPT !.state = "running", !.owner = <<r, row.owner>>,
                                       !.lease = now + LeaseSeconds, !.nudged = FALSE]]
      <4>1. r[1] = i
        BY <2>6 DEF RunFor, RootRun
      <4> QED BY <2>6, <4>1 DEF StartExecution
    <3> HIDE DEF anchored
    <3>3. /\ row \in Row /\ row.status = "running" /\ r[1] = i
          /\ IF IsRoot(r) THEN items[i].day = Today(now) /\ r = RootRun(i)
             ELSE row.day = Today(now) /\ items[i].day # Today(now)
      BY <1>1, <2>1, <2>6, <3>1, StartedRow
    <3> HIDE DEF row
    <3>4. /\ run'[r] = row /\ \A q \in Runs : q # r => run'[q] = anchored[q]
      BY <3>1, <3>2
    <3>5. /\ work'[i].state = "running" /\ work'[i].day = items[i].day
          /\ \A j \in Roots : j # i => work'[j] = items[j]
      BY <2>1, <3>2 DEF Item
    <3> QED BY <1>1, <2>1, <2>5, <3>3, <3>4, <3>5, DueStarted
  <2>7. CASE run' = anchored /\ work' = items
    BY <2>5, <2>7
  <2> QED BY <1>3, <2>3, <2>4, <2>6, <2>7 DEF DispatchTo
<1> QED BY <1>2, <1>3

\* When the row a settlement writes may be claimed again.
LEMMA SettledResume ==
    ASSUME NEW row \in Row, RowOK(row), NEW n \in RunningAttempts(row), NEW t \in Nat,
           NEW complete \in BOOLEAN, NEW status \in TerminalStatus, NEW at \in Nat
    PROVE  LET new == Finished(Checkpointed(Renewed(row, n, t), row.items, complete),
                               n, status, at)
           IN  status = "partial" => new.resumeAt = at
<1> DEFINE a == Renewed(row, n, t)
<1> DEFINE b == Checkpointed(a, row.items, complete)
<1>1. row.status # "absent" /\ row.items \in Nat
  BY DEF RowOK, Row
<1>2. RowOK(a) /\ a.status = row.status
  BY RenewedRow
<1> HIDE DEF a
<1>3. RowOK(b)
  BY <1>1, <1>2, CheckpointedRow
<1> HIDE DEF b
<1>4. Finished(b, n, status, at).resumeAt = IF status = "partial" THEN at ELSE NoTime
  BY <1>3, RowFields DEF RowOK
<1> QED BY <1>4 DEF a, b

\* due_at and next_resume_at are set together.
LEMMA DueSettled ==
    ASSUME DueInv, NEW w \in Workers, NEW outcome \in Outcomes, NEW backoff \in ResumeDelays,
           Settle(w, outcome, backoff)
    PROVE  Due(run', work', now')
<1> DEFINE r == claim[w].run
<1> DEFINE i == r[1]
<1> DEFINE n == claim[w].attempt
<1> DEFINE complete == (outcome = "complete")
<1> DEFINE at == ResumeAfter(outcome, backoff)
<1> DEFINE row == Finished(Checkpointed(Renewed(run[r], n, now), run[r].items, complete),
                          n, StatusAfter(outcome), at)
<1> DEFINE due == DueAfter(work[i], outcome, backoff)
<1> DEFINE item == [work[i] EXCEPT !.state = ItemAfter(outcome), !.owner = NoOwner, !.due = due]
<1>1. /\ BothFencesHold(w) /\ now' = now
      /\ run' = [run EXCEPT ![r] = row] /\ work' = [work EXCEPT ![i] = item]
  BY DEF Settle
<1>2. /\ r \in Runs /\ i \in Roots /\ run[r] \in Row /\ RowOK(run[r])
      /\ n \in RunningAttempts(run[r])
      /\ work[i] \in Item /\ work[i].state = "running"
  BY <1>1, FencedRow DEF DueInv
<1>3. /\ now \in Nat /\ at \in Nat /\ complete \in BOOLEAN
      /\ StatusAfter(outcome) \in TerminalStatus /\ work[i].due \in Nat
      /\ now + RetryBase \in Nat /\ now + backoff \in Nat
  BY <1>2, QueueConstants, BoundsAreNaturals
     DEF DueInv, QueueInv, ResumeAfter, StatusAfter, TerminalStatus, Item
<1>4. ASSUME outcome \in {"continuation"} \cup Waiting PROVE due = at
  BY <1>4 DEF DueAfter, ResumeAfter, Waiting
<1>5. /\ ItemAfter(outcome) # "running"
      /\ ItemAfter(outcome) # "terminal" => StatusAfter(outcome) = "partial"
      /\ ItemAfter(outcome) \in {"runnable"} \cup Waiting => outcome \in {"continuation"} \cup Waiting
  BY DEF ItemAfter, StatusAfter, Outcomes, Waiting
<1>6. due \in Nat
  BY <1>3 DEF DueAfter
<1> HIDE DEF at, due, complete, n, r
<1>7. row.status = StatusAfter(outcome)
  BY <1>2, <1>3, SettledRow
<1>8. StatusAfter(outcome) = "partial" => row.resumeAt = at
  BY <1>2, <1>3, SettledResume
<1>9. item.state = ItemAfter(outcome) /\ item.due = due /\ item.day = work[i].day
  BY <1>2 DEF Item
<1> HIDE DEF row, item
<1>10. /\ run \in [Runs -> Row] /\ work \in [Roots -> Item]
       /\ \A q \in Runs : DueRun(run[q], IsRoot(q), work[q[1]], now)
  BY DEF DueInv, QueueInv, Sound, Due
<1> SUFFICES ASSUME NEW q \in Runs PROVE DueRun(run'[q], IsRoot(q), work'[q[1]], now)
  BY <1>1 DEF Due
<1>11. q[1] \in Roots
  BY RunPairs
<1>12. CASE q = r
  <2>1. run'[q] = row /\ work'[q[1]] = item
    BY <1>1, <1>2, <1>10, <1>12
  <2>2. at \in Nat /\ at <= at
    BY <1>3
  <2>3. ItemAfter(outcome) \in {"runnable"} \cup Waiting => due = at
    BY <1>4, <1>5
  <2> QED BY <1>5, <1>7, <1>8, <1>9, <2>1, <2>2, <2>3 DEF DueRun, Eager
<1>13. CASE q # r /\ q[1] = i
  <2>1. run'[q] = run[q] /\ work'[q[1]] = item
    BY <1>1, <1>2, <1>10, <1>13
  <2>2. Later(work[i], item)
    BY <1>2, <1>3, <1>5, <1>6, <1>9 DEF Later
  <2> QED BY <1>10, <1>13, <2>1, <2>2, DueLater
<1>14. CASE q[1] # i
  <2>1. run'[q] = run[q] /\ work'[q[1]] = work[q[1]]
    BY <1>1, <1>2, <1>10, <1>11, <1>14
  <2> QED BY <1>10, <2>1
<1> QED BY <1>12, <1>13, <1>14

LEMMA DueRenewed ==
    ASSUME DueInv, NEW w \in Workers, RenewWorkLease(w)
    PROVE  Due(run', work', now')
<1> DEFINE r == claim[w].run
<1> DEFINE i == r[1]
<1> DEFINE row == Renewed(run[r], claim[w].attempt, now)
<1> DEFINE item == [work[i] EXCEPT !.lease = now + LeaseSeconds]
<1>1. /\ BothFencesHold(w) /\ now' = now
      /\ run' = [run EXCEPT ![r] = row] /\ work' = [work EXCEPT ![i] = item]
  BY DEF RenewWorkLease
<1>2. /\ r \in Runs /\ i \in Roots /\ run[r] \in Row /\ RowOK(run[r])
      /\ run[r].status = "running" /\ claim[w].attempt \in RunningAttempts(run[r])
      /\ work[i] \in Item /\ now \in Nat
  BY <1>1, FencedRow, BoundsAreNaturals DEF DueInv, QueueInv
<1> HIDE DEF r
<1>3. row.status = "running"
  BY <1>2, RenewedRow
<1>4. /\ item.state = work[i].state /\ item.due = work[i].due /\ item.day = work[i].day
      /\ item.nudged = work[i].nudged
  BY <1>2 DEF Item
<1> HIDE DEF row, item, i
<1>5. run \in [Runs -> Row] /\ work \in [Roots -> Item]
  BY DEF DueInv, QueueInv, Sound
<1> SUFFICES ASSUME NEW q \in Runs PROVE DueRun(run'[q], IsRoot(q), work'[q[1]], now)
  BY <1>1 DEF Due
<1>6. q[1] \in Roots /\ DueRun(run[q], IsRoot(q), work[q[1]], now)
  BY RunPairs DEF DueInv, Due
<1>7. CASE q = r
  <2>1. run'[q].status = "running"
    BY <1>1, <1>3, <1>5, <1>7
  <2> QED BY <2>1, DueUnlessPartial
<1>8. CASE q # r
  <2>1. run'[q] = run[q]
    BY <1>1, <1>5, <1>8
  <2>2. /\ work'[q[1]].state = work[q[1]].state /\ work'[q[1]].due = work[q[1]].due
        /\ work'[q[1]].day = work[q[1]].day /\ work'[q[1]].nudged = work[q[1]].nudged
    BY <1>1, <1>2, <1>4, <1>5, <1>6
  <2> QED BY <1>6, <2>1, <2>2 DEF DueRun, Eager
<1> QED BY <1>7, <1>8

LEMMA DueAttemptRenewed ==
    ASSUME DueInv, NEW w \in Workers, RenewAttempt(w)
    PROVE  Due(run', work', now')
<1> DEFINE r == claim[w].run
<1>1. /\ claim[w] # NoClaim /\ claim[w].attempt \in RunningAttempts(run[r])
      /\ run' = [run EXCEPT ![r] = Renewed(@, claim[w].attempt, now)] /\ UNCHANGED <<now, work>>
      /\ run[r].status = "running"
  BY DEF RenewAttempt, AssertOwner
<1>2. r \in Runs /\ now \in Nat /\ run \in [Runs -> Row] /\ RowOK(run[r])
  BY <1>1, BoundsAreNaturals DEF DueInv, QueueInv, Sound, ClaimsOK, Claim
<1> HIDE DEF r
<1>3. Renewed(run[r], claim[w].attempt, now).status = "running"
  BY <1>1, <1>2, RenewedRow
<1>4. \A q \in Runs : run'[q] = run[q] \/ run'[q].status = "running"
  BY <1>1, <1>2, <1>3
<1> QED BY <1>1, <1>4, DueUnlessPartial DEF DueInv, Due

LEMMA DueRestarted ==
    ASSUME DueInv, RestartWriter
    PROVE  Due(run', work', now')
<1>1. run' = InterruptedRows(run) /\ UNCHANGED <<now, work>>
  BY DEF RestartWriter
<1>2. \A r \in Runs : InterruptedRows(run)[r] = run[r] \/ InterruptedRows(run)[r].status = "interrupted"
  BY InterruptedKeeps DEF DueInv, QueueInv, Sound
<1> QED BY <1>1, <1>2, DueUnlessPartial DEF DueInv, Due

\* A new day has no run of its own yet.
LEMMA DueTick ==
    ASSUME DueInv, CaptureTick
    PROVE  Due(run', work', now')
<1>1. /\ now \in 0..MaxNow /\ now' \in 0..MaxNow /\ now' = now + 1
      /\ run' = run /\ work' = work /\ Calendar(run, work, now)
  BY BoundsAreNaturals DEF DueInv, QueueInv, Sound, CaptureTick, Tick
<1> DEFINE a == Today(now)
<1> DEFINE b == Today(now')
<1>2. a \in Int /\ b \in Int /\ a <= b
  <2>1. now \in Nat
    BY <1>1, BoundsAreNaturals
  <2> QED BY <1>1, <2>1, TodayMonotone, TodayIsDay
<1> SUFFICES ASSUME NEW r \in Runs PROVE DueRun(run[r], IsRoot(r), work[r[1]], now')
  BY <1>1 DEF Due
<1>3. DueRun(run[r], IsRoot(r), work[r[1]], now)
  BY DEF DueInv, Due
<1> DEFINE day == IF IsRoot(r) THEN work[r[1]].day ELSE run[r].day
<1>4. ASSUME run[r].status = "partial" PROVE day \in Int /\ day <= a
  <2>1. r = <<r[1], r[2]>> /\ r[1] \in Roots /\ r[2] \in 0..MaxSeq
    BY RunPairs
  <2>2. CASE IsRoot(r)
    <3>1. work[r[1]].state # "absent"
      BY <1>1, <1>4, <2>1 DEF Calendar
    <3>2. work[r[1]].day \in Days /\ work[r[1]].day <= a
      BY <1>1, <2>1, <3>1 DEF Calendar
    <3> QED BY <2>2, <3>2, DaysAreInts
  <2>3. CASE ~IsRoot(r)
    <3>1. r[2] \in Children(run, r[1])
      BY <1>4, <2>1, <2>3, BoundsAreNaturals DEF Children, IsRoot
    <3>2. run[<<r[1], r[2]>>].day <= a
      BY <1>1, <2>1, <3>1 DEF Calendar
    <3>3. run[r].day \in Int
      BY DaysAreInts DEF DueInv, QueueInv, Sound
    <3> QED BY <2>1, <2>3, <3>2, <3>3
  <2> QED BY <2>2, <2>3
<1> HIDE DEF a, b, day
<1>5. run[r].status = "partial" /\ day = b => day = a
  BY <1>2, <1>4
<1> QED BY <1>3, <1>5 DEF DueRun, a, b, day

\* An item that enters the queue has no runs yet.
LEMMA DueEnqueued ==
    ASSUME DueInv, NEW i \in Roots, NEW verdict \in Verdicts \cup {"runnable"},
           Enqueue(i, verdict)
    PROVE  Due(run', work', now')
<1>1. /\ work[i].state = "absent" /\ run' = run /\ now' = now
      /\ \A j \in Roots : j # i => work'[j] = work[j]
  BY DEF Enqueue, DueInv, QueueInv, Sound
<1> SUFFICES ASSUME NEW r \in Runs PROVE DueRun(run[r], IsRoot(r), work'[r[1]], now)
  BY <1>1 DEF Due
<1>2. CASE r[1] = i
  <2>1. run[r].status = "absent"
    BY <1>1, <1>2 DEF DueInv, QueueInv, Sound, Calendar
  <2> QED BY <2>1, DueUnlessPartial
<1>3. CASE r[1] # i
  BY <1>1, <1>3, RunPairs DEF DueInv, Due
<1> QED BY <1>2, <1>3

\* The planner asks again only about items that are due.
LEMMA DueReconsidered ==
    ASSUME DueInv, NEW i \in Roots, Reconsider(i)
    PROVE  Due(run', work', now')
<1>1. /\ work[i].state \in Waiting /\ work[i].due <= now /\ run' = run /\ now' = now
      /\ work[i] \in Item /\ work[i].due \in Nat /\ work \in [Roots -> Item] /\ now \in Nat
  BY BoundsAreNaturals DEF Reconsider, DueInv, QueueInv, Sound, Item
<1>2. ASSUME NEW item, Later(work[i], item), work' = [work EXCEPT ![i] = item]
      PROVE  Due(run', work', now')
  <2>1. \A j \in Roots : work'[j] = work[j] \/ Later(work[j], work'[j])
    BY <1>1, <1>2
  <2>2. Due(run, work, now)
    BY DEF DueInv
  <2>3. Due(run, work', now)
    BY <2>1, <2>2, DueItems
  <2> QED BY <1>1, <2>3
<1>3. CASE work' = [work EXCEPT ![i].state = "runnable"]
  <2> DEFINE item == [work[i] EXCEPT !.state = "runnable"]
  <2>1. /\ item.state = "runnable" /\ item.due = work[i].due /\ item.day = work[i].day
        /\ item.nudged = work[i].nudged
    BY <1>1 DEF Item
  <2>2. work' = [work EXCEPT ![i] = item]
    BY <1>3
  <2> HIDE DEF item
  <2>3. item.due \in Nat /\ work[i].due <= item.due
    BY <1>1, <2>1
  <2>4. Later(work[i], item)
    BY <1>1, <2>1, <2>3 DEF Later, Eager, Waiting
  <2> QED BY <1>2, <2>2, <2>4
<1>4. ASSUME NEW verdict \in Verdicts, work' = [work EXCEPT ![i] = BlockedItem(@, verdict, now)]
      PROVE  Due(run', work', now')
  <2> DEFINE due == IF verdict \in Waiting THEN now + RetryBase ELSE work[i].due
  <2> DEFINE item == BlockedItem(work[i], verdict, now)
  <2>1. now + RetryBase \in Nat /\ work[i].due <= now + RetryBase
    BY <1>1, QueueConstants
  <2>2. due \in Nat /\ work[i].due <= due
    BY <1>1, <2>1
  <2>3. item = [work[i] EXCEPT !.state = verdict, !.due = due]
    BY <1>1 DEF BlockedItem, Item
  <2> HIDE DEF due
  <2>4. /\ item.due = due /\ item.day = work[i].day /\ item.state = verdict
        /\ item.nudged = work[i].nudged
    BY <1>1, <2>3 DEF Item
  <2>5. work' = [work EXCEPT ![i] = item]
    BY <1>4
  <2> HIDE DEF item
  <2>6. Later(work[i], item)
    BY <1>1, <2>2, <2>4 DEF Later, Eager, Verdicts, Waiting
  <2> QED BY <1>2, <2>5, <2>6
<1> QED BY <1>3, <1>4 DEF Reconsider

\* What a command has moved forward is exempt.
LEMMA DueNudged ==
    ASSUME DueInv, UNCHANGED <<run, now>>,
           \A i \in Roots : \/ work'[i] = work[i]
                            \/ \E state \in Verdicts \cup {"runnable"} :
                                  /\ work[i].state \notin {"running", "terminal"}
                                  /\ work'[i] = Nudged(work[i], state)
    PROVE  Due(run', work', now')
<1>1. now \in Nat
  BY BoundsAreNaturals DEF DueInv, QueueInv
<1>2. ASSUME NEW i \in Roots, work'[i] # work[i] PROVE Later(work[i], work'[i])
  <2>1. PICK state \in Verdicts \cup {"runnable"} :
            /\ work[i].state \notin {"running", "terminal"} /\ work'[i] = Nudged(work[i], state)
    BY <1>2
  <2>2. work[i] \in Item
    BY DEF DueInv, QueueInv, Sound
  <2>3. /\ work'[i].state = state /\ work'[i].due = now /\ work'[i].nudged
        /\ work'[i].day = work[i].day /\ work[i].due \in Nat
    BY <2>1, <2>2 DEF Nudged, Item
  <2>4. state # "running"
    BY DEF Verdicts, Waiting
  <2> QED BY <1>1, <2>1, <2>3, <2>4 DEF Later, Eager
<1>3. Due(run, work, now)
  BY DEF DueInv
<1>4. Due(run, work', now)
  BY <1>2, <1>3, DueItems
<1> QED BY <1>4

LEMMA DueCommand ==
    ASSUME DueInv,
           \/ \E i \in Roots : \/ \E verdict \in Verdicts \cup {"runnable"} : EnqueueManual(i, verdict)
                               \/ EnqueueCompensation(i)
           \/ \E S \in SUBSET Roots : WakeConsumers(S)
    PROVE  Due(run', work', now')
<1>1. work \in [Roots -> Item]
  BY DEF DueInv, QueueInv, Sound
<1>2. ASSUME NEW i \in Roots, NEW verdict \in Verdicts \cup {"runnable"}, EnqueueManual(i, verdict)
      PROVE  Due(run', work', now')
  <2>1. /\ UNCHANGED <<run, now>> /\ work[i].state \notin {"running", "terminal"}
        /\ work' = [work EXCEPT ![i] = Nudged(@, verdict)]
    BY <1>2 DEF EnqueueManual, Waiting
  <2>2. \A j \in Roots : work'[j] = IF j = i THEN Nudged(work[j], verdict) ELSE work[j]
    BY <1>1, <2>1
  <2> QED BY <2>1, <2>2, DueNudged
<1>3. ASSUME NEW i \in Roots, EnqueueCompensation(i) PROVE Due(run', work', now')
  <2>1. /\ UNCHANGED <<run, now>> /\ work[i].state \notin {"running", "terminal"}
        /\ work' = [work EXCEPT ![i] = Nudged(@, "runnable")]
    BY <1>3 DEF EnqueueCompensation, Waiting
  <2>2. \A j \in Roots : work'[j] = IF j = i THEN Nudged(work[j], "runnable") ELSE work[j]
    BY <1>1, <2>1
  <2> QED BY <2>1, <2>2, DueNudged
<1>4. ASSUME NEW S \in SUBSET Roots, WakeConsumers(S) PROVE Due(run', work', now')
  <2>1. /\ UNCHANGED <<run, now>> /\ \A i \in S : work[i].state \notin {"running", "terminal"}
        /\ work' = [i \in Roots |-> IF i \in S THEN Nudged(work[i], "runnable") ELSE work[i]]
    BY <1>4 DEF WakeConsumers
  <2>2. \A j \in Roots : work'[j] = IF j \in S THEN Nudged(work[j], "runnable") ELSE work[j]
    BY <2>1
  <2> QED BY <2>1, <2>2, DueNudged
<1> QED BY <1>2, <1>3, <1>4

LEMMA DueStep ==
    ASSUME DueInv, QueueInv', [NextCapture]_captureVars
    PROVE  Due(run', work', now')
<1> USE DEF DueInv
<1>1. CASE UNCHANGED <<run, work, now>>
  BY <1>1
<1>2. ASSUME NEW w \in Workers, Dispatch(w) PROVE Due(run', work', now')
  <2>1. PICK at \in 0..now : \E rows \in {RecoveredRows(run, Runs, at)} :
                  \E items \in {RecoveredItems(work, rows, at)} : DispatchAt(w, rows, items, at)
    BY <1>2 DEF Dispatch
  <2> DEFINE rows == RecoveredRows(run, Runs, at)
  <2> DEFINE items == RecoveredItems(work, rows, at)
  <2>2. DispatchAt(w, rows, items, at)
    BY <2>1
  <2>3. Reached(rows, items)
    BY ReachedRecovered
  <2>4. Due(rows, items, now)
    BY DueRecovered DEF QueueInv
  <2> HIDE DEF rows, items
  <2>5. /\ UNCHANGED <<view, now>>
        /\ (\E i \in Roots : DispatchTo(w, i, rows, items, at)) \/ DispatchIdle(rows, items, at)
    BY <2>2 DEF DispatchAt
  <2>6. Due(run', work', now)
    BY <2>3, <2>4, <2>5, DueDispatch
  <2> QED BY <2>5, <2>6
<1>3. ASSUME NEW w \in Workers, NEW i \in Roots, DispatchNamed(w, i)
      PROVE  Due(run', work', now')
  <2>1. UNCHANGED <<view, now>> /\ DispatchTo(w, i, run, work, now)
    BY <1>3 DEF DispatchNamed
  <2>2. Reached(run, work) /\ now \in 0..now
    BY ReachedNow, BoundsAreNaturals DEF QueueInv
  <2>3. Due(run', work', now)
    BY <2>1, <2>2, DueDispatch
  <2> QED BY <2>1, <2>3
<1>4. CASE RecoverAttempts
  <2>1. run' = RecoveredRows(run, Runs, now) /\ UNCHANGED <<work, now>>
    BY <1>4 DEF RecoverAttempts
  <2>2. Due(RecoveredRows(run, Runs, now), work, now)
    BY DueRecovered DEF QueueInv
  <2> QED BY <2>1, <2>2
<1>5. ASSUME NEW w \in Workers, AbandonWork(w) PROVE Due(run', work', now')
  <2>1. UNCHANGED <<run, work, now>>
    BY <1>5 DEF AbandonWork, Abandon
  <2> QED BY <1>1, <2>1
<1>6. CASE UNCHANGED captureVars
  BY <1>1, <1>6 DEF captureVars
<1> QED BY <1>2, <1>3, <1>4, <1>5, <1>6, DueSettled, DueRenewed, DueAttemptRenewed, DueTick,
           DueRestarted, DueEnqueued, DueReconsidered, DueCommand
       DEF NextCapture, QueueStep, EndExecution, SettleWork

-----------------------------------------------------------------------------
(* What follows for a due item. *)

LEMMA DueRootClaimable ==
    ASSUME NEW row \in Row, NEW item, NEW t \in Nat, DueRun(row, TRUE, item, t),
           Eager(item), item.state # "terminal", item.day = Today(t),
           item.due \in Nat, item.due <= t, row.status # "running", row.complete = FALSE
    PROVE  row.status = "absent" \/ RootClaimable(row, t)
<1>1. row.status \in {"absent", "partial", "interrupted"}
  BY DEF DueRun, Row, RunStatus
<1>2. CASE row.status = "partial"
  <2>1. row.resumeAt \in Nat /\ row.resumeAt <= item.due
    BY <1>2 DEF DueRun
  <2>2. t >= row.resumeAt /\ row.resumeAt # NoTime
    BY <2>1 DEF NoTime
  <2> QED BY <1>2, <2>2 DEF RootClaimable
<1> QED BY <1>1, <1>2 DEF RootClaimable

LEMMA DueChildClaimable ==
    ASSUME NEW row \in Row, NEW item, NEW t \in Nat, DueRun(row, FALSE, item, t),
           Eager(item), item.state # "terminal", row.day = Today(t),
           item.due \in Nat, item.due <= t, row.status \notin {"absent", "running"},
           row.complete = FALSE
    PROVE  ChildClaimable(row, t)
<1>1. row.status \in {"partial", "interrupted"}
  BY DEF DueRun, Row, RunStatus
<1>2. row.status = "partial" => row.resumeAt <= t
  <2> SUFFICES ASSUME row.status = "partial" PROVE row.resumeAt <= t
    OBVIOUS
  <2>1. row.resumeAt \in Nat /\ row.resumeAt <= item.due
    BY DEF DueRun
  <2> QED BY <2>1
<1> QED BY <1>1, <1>2 DEF ChildClaimable

LEMMA DueImplies == DueInv => DueIsClaimable
<1> SUFFICES ASSUME DueInv, NEW i \in Roots, work[i].state = "runnable", work[i].due <= now,
                    ~work[i].nudged,
                    RunFor(Anchored(run, i, work[i].day, now), i, work[i].day, now) \in Runs
             PROVE  Claimable(Anchored(run, i, work[i].day, now),
                              RunFor(Anchored(run, i, work[i].day, now), i, work[i].day, now), now)
  BY DEF DueIsClaimable
<1> DEFINE t == now
<1> DEFINE day == work[i].day
<1> DEFINE rows == Anchored(run, i, day, t)
<1> DEFINE r == RunFor(rows, i, day, t)
<1>1. /\ t \in 0..MaxNow /\ t \in Nat /\ work[i] \in Item /\ work[i].due \in Nat
      /\ Sound(run, work, t) /\ Due(run, work, t)
  BY BoundsAreNaturals DEF DueInv, QueueInv, Sound, Item
<1> HIDE DEF t
<1>2. /\ Sound(rows, work, t) /\ Quiet(rows, i)
      /\ Today(t) # day => rows[RootRun(i)].status # "absent"
  BY <1>1, SoundAnchored
<1>3. Due(rows, work, t)
  BY <1>1, DueAnchored
<1> HIDE DEF rows
<1>4. \A q \in Runs : q[1] = i =>
         /\ rows[q] \in Row /\ DueRun(rows[q], IsRoot(q), work[i], t)
         /\ rows[q].status # "running" /\ rows[q].complete = FALSE
  <2> TAKE q \in Runs
  <2> HAVE q[1] = i
  <2>1. rows[q] \in Row /\ rows[q].complete \in BOOLEAN
    BY <1>2 DEF Sound, Row
  <2>2. ~rows[q].complete
    BY <1>2 DEF Sound, Completed
  <2> QED BY <1>2, <1>3, <2>1, <2>2 DEF Due, Quiet
<1>5. Eager(work[i]) /\ work[i].state # "terminal" /\ work[i].due <= t
  BY DEF Eager, t
<1>6. r \in Runs
  BY DEF r, rows, t
<1>7. CASE Today(t) = day
  <2>1. r = RootRun(i) /\ IsRoot(r) /\ r[1] = i
    BY <1>7 DEF RunFor, RootRun, IsRoot
  <2>2. rows[r].status = "absent" \/ RootClaimable(rows[r], t)
    <3>1. DueRun(rows[r], TRUE, work[i], t) /\ rows[r] \in Row
          /\ rows[r].status # "running" /\ rows[r].complete = FALSE
      BY <1>4, <1>6, <2>1, Zenon
    <3> QED BY <1>1, <1>5, <1>7, <3>1, DueRootClaimable
  <2> QED BY <2>1, <2>2 DEF Claimable, r, rows, t
<1>8. CASE Today(t) # day
  <2> DEFINE k == ContinuationFor(rows, i, Today(t))
  <2> DEFINE n == Cardinality(Children(rows, i))
  <2>1. r = <<i, k>>
    BY <1>8 DEF RunFor
  <2>2. \/ k \in Children(rows, i) /\ rows[<<i, k>>].day = Today(t)
        \/ k = n + 1
    <3>1. rows \in [Runs -> Row] /\ Calendar(rows, work, t)
      BY <1>2 DEF Sound
    <3> QED BY <3>1, ContinuationIs
  <2>3. n \in Nat /\ Children(rows, i) = 1..n /\ Children(rows, i) \subseteq 1..MaxSeq
    <3>1. n \in Nat
      BY ChildrenCount
    <3>2. Children(rows, i) = 1..n
      BY <1>2 DEF Sound, Calendar
    <3>3. Children(rows, i) \subseteq 1..MaxSeq
      BY DEF Children
    <3> QED BY <3>1, <3>2, <3>3
  <2>4. k \in 0..MaxSeq
    BY <1>6, <2>1, RunPairs
  <2> HIDE DEF k, n
  <2>5. k # 0 /\ k \in Nat
    BY <2>2, <2>3, <2>4, BoundsAreNaturals
  <2>6. ~IsRoot(r) /\ RootOf(r) = RootRun(i) /\ RootRun(i) \in Runs /\ RootRun(i)[1] = i
    BY <2>1, <2>5, RunPairs, BoundsAreNaturals DEF IsRoot, RootOf, RootRun
  <2>7. RootYielded(rows, r)
    BY <1>2, <1>4, <1>8, <2>6 DEF RootYielded
  <2>8. ChildBirth(rows, r, Today(t)) \/ ChildClaimable(rows[r], t)
    <3>1. CASE k \in Children(rows, i) /\ rows[<<i, k>>].day = Today(t)
      <4>1. rows[r].status # "absent" /\ rows[r].day = Today(t) /\ r[1] = i
        BY <2>1, <3>1 DEF Children
      <4>2. DueRun(rows[r], FALSE, work[i], t) /\ rows[r] \in Row
            /\ rows[r].status # "running" /\ rows[r].complete = FALSE
        <5>1. IsRoot(r) = FALSE
          BY <2>6 DEF IsRoot
        <5>2. /\ DueRun(rows[r], IsRoot(r), work[i], t) /\ rows[r] \in Row
              /\ rows[r].status # "running" /\ rows[r].complete = FALSE
          BY <1>4, <1>6, <4>1, Zenon
        <5> QED BY <5>1, <5>2
      <4>3. rows[r].status \notin {"absent", "running"}
        BY <4>1, <4>2
      <4> QED BY <1>1, <1>5, <4>1, <4>2, <4>3, DueChildClaimable
    <3>2. CASE k = n + 1
      <4>1. rows[r].status = "absent"
        <5>1. k \in 1..MaxSeq /\ k \notin 1..n
          BY <2>3, <2>4, <2>5, <3>2, BoundsAreNaturals
        <5>2. k \notin Children(rows, i)
          BY <2>3, <5>1
        <5> QED BY <2>1, <5>1, <5>2 DEF Children
      <4>2. Predecessor(r) = <<i, n>> /\ n \in 0..MaxSeq
        <5>1. k - 1 = n /\ n \in 0..MaxSeq
          BY <2>3, <2>4, <3>2, BoundsAreNaturals
        <5> QED BY <2>1, <5>1 DEF Predecessor
      <4>3. <<i, n>> \in Runs
        BY <4>2, RunPairs
      <4>4. ~rows[<<i, n>>].complete /\ rows[<<i, n>>].status # "running"
        BY <1>4, <4>3
      <4>5. CASE n = 0
        <5>1. rows[<<i, n>>].status # "absent" /\ IsRoot(Predecessor(r))
          BY <1>2, <1>8, <4>2, <4>5 DEF RootRun, IsRoot
        <5> QED BY <4>1, <4>2, <4>4, <5>1 DEF ChildBirth
      <4>6. CASE n # 0
        <5>1. n \in Children(rows, i)
          BY <2>3, <4>6
        <5>2. rows[<<i, n>>].status # "absent" /\ rows[<<i, n>>].day <= Today(t)
          BY <1>2, <5>1 DEF Sound, Calendar, Children
        <5> QED BY <4>1, <4>2, <4>4, <5>2 DEF ChildBirth
      <4> QED BY <4>5, <4>6
    <3> QED BY <2>2, <3>1, <3>2
  <2> QED BY <2>6, <2>7, <2>8 DEF Claimable, r, rows, t
<1> QED BY <1>7, <1>8

LEMMA InitDueInv == InitCapture => DueInv
<1> SUFFICES ASSUME InitCapture PROVE DueInv
  OBVIOUS
<1>1. QueueInv
  BY InitQueueInv
<1>2. \A r \in Runs : run[r].status = "absent"
  BY DEF InitCapture, Init, AbsentRow
<1>3. Due(run, work, now)
  BY <1>2, DueUnlessPartial DEF Due
<1> QED BY <1>1, <1>3 DEF DueInv

\* What the run charged today and its item hold against each other agrees after
\* every transaction, for every item, day and delay (_run_single_prepared).
THEOREM DueInductive == CaptureSpec => []DueInv
<1>1. DueInv /\ [NextCapture]_captureVars => DueInv'
  <2> SUFFICES ASSUME DueInv, [NextCapture]_captureVars PROVE DueInv'
    OBVIOUS
  <2>1. QueueInv'
    BY CaptureStep DEF DueInv, StepOK
  <2>2. Due(run', work', now')
    BY <2>1, DueStep
  <2> QED BY <2>1, <2>2 DEF DueInv, Due
<1> QED BY <1>1, InitDueInv, PTL DEF CaptureSpec

\* A due item that no command moved forward can be claimed, on the day of its data
\* and on every later one: due_at and next_resume_at agree across midnight.
THEOREM DueItemsAreClaimable == CaptureSpec => []DueIsClaimable
<1>1. DueInv => DueIsClaimable
  BY DueImplies
<1> QED BY <1>1, DueInductive, PTL

-----------------------------------------------------------------------------
(* What a step of the queue may do to an attempt.                          *)

\* At time t: attempts are added, one that does not run never runs again, and one that
\* runs keeps its lease or has it renewed while it holds.
Ages(old, new, t) ==
    /\ Len(new.attempts) >= Len(old.attempts)
    /\ \A n \in 1..Len(old.attempts) : n \in RunningAttempts(new) =>
          /\ n \in RunningAttempts(old)
          /\ \/ new.attempts[n].lease = old.attempts[n].lease
             \/ new.attempts[n].lease >= t /\ old.attempts[n].lease >= t

AllAge == \A r \in Runs : Ages(run[r], run'[r], now)

LEMMA AgesSame == ASSUME NEW row \in Row, NEW t PROVE Ages(row, row, t)
BY RowAttempts DEF Ages

LEMMA AgesOn ==
    ASSUME NEW a \in Row, NEW b \in Row, NEW c \in Row, NEW t,
           Ages(a, b, t), Ages(b, c, t)
    PROVE  Ages(a, c, t)
<1>1. Len(a.attempts) \in Nat /\ Len(b.attempts) \in Nat /\ Len(c.attempts) \in Nat
  BY RowAttempts
<1>2. Len(c.attempts) >= Len(a.attempts) /\ 1..Len(a.attempts) \subseteq 1..Len(b.attempts)
  BY <1>1 DEF Ages
<1> QED BY <1>2 DEF Ages

LEMMA AgesClosed ==
    ASSUME NEW row \in Row, RowOK(row), NEW n \in RunningAttempts(row),
           NEW status \in TerminalStatus, NEW t
    PROVE  /\ Ages(row, Closed(row, n, status), t)
           /\ RunningAttempts(Closed(row, n, status)) = {}
<1> DEFINE new == Closed(row, n, status)
<1>1. RowOK(new) /\ new.status = status /\ Len(new.attempts) = Len(row.attempts)
  BY ClosedRow
<1> HIDE DEF new
<1>2. RunningAttempts(new) = {}
  BY <1>1 DEF RowOK, TerminalStatus
<1> QED BY <1>1, <1>2, RowAttempts DEF Ages, new

LEMMA AgesRenewed ==
    ASSUME NEW row \in Row, RowOK(row), NEW n \in RunningAttempts(row), NEW t \in Nat,
           row.attempts[n].lease >= t
    PROVE  /\ Ages(row, Renewed(row, n, t), t)
           /\ RunningAttempts(Renewed(row, n, t)) = RunningAttempts(row)
           /\ Renewed(row, n, t).attempts[n].lease >= t
           /\ \A m \in 1..Len(row.attempts) :
                 m # n => Renewed(row, n, t).attempts[m] = row.attempts[m]
<1> DEFINE new == Renewed(row, n, t)
<1>1. /\ RowOK(new) /\ Len(new.attempts) = Len(row.attempts)
      /\ RunningAttempts(new) = RunningAttempts(row)
      /\ \A m \in 1..Len(row.attempts) : m # n => new.attempts[m] = row.attempts[m]
  BY RenewedRow
<1>2. /\ Len(row.attempts) \in Nat /\ n \in DOMAIN row.attempts
      /\ row.attempts[n] \in Attempt /\ t + LeaseSeconds >= t
  BY RowAttempts, BoundsAreNaturals DEF RunningAttempts
<1>3. new.attempts[n].lease = t + LeaseSeconds
  BY <1>2 DEF Renewed, Row, Attempt
<1> HIDE DEF new
<1>4. Ages(row, new, t)
  BY <1>1, <1>2, <1>3 DEF Ages
<1> QED BY <1>1, <1>2, <1>3, <1>4 DEF new

LEMMA AgesRecovered ==
    ASSUME NEW rows \in [Runs -> Row], \A r \in Runs : RowOK(rows[r]), NEW at, NEW t
    PROVE  \A r \in Runs : Ages(rows[r], RecoveredRows(rows, Runs, at)[r], t)
<1> TAKE r \in Runs
<1>1. CASE Expired(rows[r], at) # {}
  <2> DEFINE n == CHOOSE n \in Expired(rows[r], at) : TRUE
  <2>1. n \in RunningAttempts(rows[r])
    BY <1>1 DEF Expired
  <2>2. RecoveredRows(rows, Runs, at)[r] = Recovered(rows[r], n)
    BY <1>1 DEF RecoveredRows
  <2> HIDE DEF n
  <2> QED BY <2>1, <2>2, AgesClosed DEF Recovered, TerminalStatus
<1>2. CASE Expired(rows[r], at) = {}
  BY <1>2, AgesSame DEF RecoveredRows
<1> QED BY <1>1, <1>2

\* The rows of a restarted writer: nothing runs any more.
LEMMA InterruptedAges ==
    ASSUME NEW rows \in [Runs -> Row], \A r \in Runs : RowOK(rows[r])
    PROVE  \A r \in Runs : RunningAttempts(InterruptedRows(rows)[r]) = {}
<1> TAKE r \in Runs
<1>1. CASE RunningAttempts(rows[r]) # {}
  <2> DEFINE n == CHOOSE n \in RunningAttempts(rows[r]) : TRUE
  <2>1. n \in RunningAttempts(rows[r])
    BY <1>1
  <2>2. InterruptedRows(rows)[r] = Recovered(rows[r], n)
    BY <1>1 DEF InterruptedRows
  <2> HIDE DEF n
  <2> QED BY <2>1, <2>2, AgesClosed DEF Recovered, TerminalStatus
<1>2. CASE RunningAttempts(rows[r]) = {}
  BY <1>2 DEF InterruptedRows
<1> QED BY <1>1, <1>2

\* A worker that claims takes an attempt nobody can have heard of.
FreshClaims ==
    \A v \in Workers :
        \/ claim'[v] = claim[v]
        \/ /\ claim[v] = NoClaim /\ claim'[v].run \in Runs
           /\ claim'[v].attempt > Len(run[claim'[v].run].attempts)

LEMMA AnchoredAges ==
    ASSUME QueueInv, NEW rows, NEW items, Reached(rows, items), NEW i \in Roots,
           items[i].state = "runnable"
    PROVE  LET new == Anchored(rows, i, items[i].day, now)
           IN  Sound(new, items, now) /\ \A q \in Runs : Ages(rows[q], new[q], now)
<1> DEFINE new == Anchored(rows, i, items[i].day, now)
<1>1. /\ Sound(new, items, now)
      /\ \A q \in Runs : new[q] = rows[q] \/ rows[q] = AbsentRow
  BY AnchoredNow
<1> HIDE DEF new
<1>2. \A q \in Runs : new[q] \in Row /\ rows[q] \in Row
  BY <1>1 DEF Sound, Reached
<1>3. ASSUME NEW q \in Runs PROVE Ages(rows[q], new[q], now)
  <2>1. CASE new[q] = rows[q]
    BY <1>2, <2>1, AgesSame
  <2>2. CASE rows[q] = AbsentRow
    <3>1. rows[q].attempts = <<>>
      BY <2>2 DEF AbsentRow
    <3>2. Len(rows[q].attempts) = 0 /\ Len(new[q].attempts) \in Nat
      BY <1>2, <3>1, RowAttempts
    <3> QED BY <3>2 DEF Ages
  <2> QED BY <1>1, <2>1, <2>2
<1> QED BY <1>1, <1>3 DEF new

LEMMA StartedAges ==
    ASSUME QueueInv, NEW w \in Workers, claim[w] = NoClaim,
           NEW rows, NEW items, Sound(rows, items, now),
           \A q \in Runs : Ages(run[q], rows[q], now),
           NEW i \in Roots, items[i].state = "runnable", NEW r \in Runs, r[1] = i,
           Claimable(rows, r, now),
           StartExecution(w, r, Claimed(RowToClaim(rows, r, now), now), rows, items)
    PROVE  AllAge /\ FreshClaims
<1> DEFINE base == RowToClaim(rows, r, now)
<1> DEFINE row == Claimed(base, now)
<1>1. now \in 0..MaxNow /\ now \in Nat /\ rows \in [Runs -> Row]
  BY BoundsAreNaturals DEF QueueInv, Sound
<1>2. /\ base \in Row /\ base.owner = Len(base.attempts) /\ RunningAttempts(base) = {}
      /\ base.identity = Scope /\ base.attempts = rows[r].attempts
  BY <1>1, BaseRow
<1> HIDE DEF base
<1>3. /\ RowOK(row) /\ row.owner = Len(rows[r].attempts) + 1
      /\ row.status = "running" /\ Len(row.attempts) = Len(rows[r].attempts) + 1
  BY <1>1, <1>2, ClaimedRow, QueueConstants
<1>4. run' = [rows EXCEPT ![r] = row]
  BY DEF StartExecution, base
<1>5. claim' = [claim EXCEPT ![w] = [run |-> r, attempt |-> row.owner, identity |-> row.identity]]
  BY DEF StartExecution, base
<1> HIDE DEF row
<1>6. /\ row \in Row /\ RunningAttempts(row) = {Len(rows[r].attempts) + 1}
      /\ \A q \in Runs : run[q] \in Row /\ rows[q] \in Row /\ run'[q] = IF q = r THEN row ELSE rows[q]
  BY <1>1, <1>3, <1>4 DEF RowOK, QueueInv, Sound
<1>7. \A q \in Runs : Len(run[q].attempts) \in Nat /\ Len(rows[q].attempts) \in Nat
  BY <1>6, RowAttempts
<1>8. Ages(rows[r], row, now)
  BY <1>3, <1>6, <1>7 DEF Ages
<1>9. AllAge
  BY <1>6, <1>8, AgesOn DEF AllAge
<1>10. row.owner > Len(run[r].attempts)
  BY <1>3, <1>7 DEF Ages
<1>11. FreshClaims
  <2> SUFFICES ASSUME NEW v \in Workers, claim'[v] # claim[v]
               PROVE  /\ claim[v] = NoClaim /\ claim'[v].run \in Runs
                      /\ claim'[v].attempt > Len(run[claim'[v].run].attempts)
    BY DEF FreshClaims
  <2>1. v = w /\ claim'[v] = [run |-> r, attempt |-> row.owner, identity |-> row.identity]
    BY <1>5 DEF QueueInv, ClaimsOK
  <2> QED BY <1>10, <2>1
<1> QED BY <1>9, <1>11

LEMMA DispatchAges ==
    ASSUME QueueInv, NEW w \in Workers, claim[w] = NoClaim,
           NEW rows, NEW items, Reached(rows, items), \A q \in Runs : Ages(run[q], rows[q], now),
           NEW at,
           (\E i \in Roots : DispatchTo(w, i, rows, items, at)) \/ DispatchIdle(rows, items, at)
    PROVE  AllAge /\ FreshClaims
<1>1. CASE run' = rows /\ UNCHANGED claim
  BY <1>1 DEF AllAge, FreshClaims
<1>2. ASSUME NEW i \in Roots, DispatchTo(w, i, rows, items, at), ~(run' = rows /\ UNCHANGED claim)
      PROVE  AllAge /\ FreshClaims
  <2> DEFINE anchored == Anchored(rows, i, items[i].day, now)
  <2>1. items[i].state = "runnable"
    BY <1>2 DEF DispatchTo
  <2>2. Sound(anchored, items, now) /\ \A q \in Runs : Ages(rows[q], anchored[q], now)
    BY <2>1, AnchoredAges
  <2> HIDE DEF anchored
  <2>3. \A q \in Runs : Ages(run[q], anchored[q], now)
    <3>1. \A q \in Runs : run[q] \in Row /\ rows[q] \in Row /\ anchored[q] \in Row
      BY <2>2 DEF QueueInv, Reached, Sound
    <3> QED BY <2>2, <3>1, AgesOn
  <2>4. CASE run' = anchored /\ UNCHANGED claim
    BY <2>3, <2>4 DEF AllAge, FreshClaims
  <2>5. ASSUME NEW r \in Runs, r = RunFor(anchored, i, items[i].day, now),
               Claimable(anchored, r, now),
               StartExecution(w, r, Claimed(RowToClaim(anchored, r, now), now), anchored, items)
        PROVE  AllAge /\ FreshClaims
    <3>1. r[1] = i
      BY <2>5 DEF RunFor, RootRun
    <3> QED BY <2>1, <2>2, <2>3, <2>5, <3>1, StartedAges
  <2> QED BY <1>2, <2>4, <2>5 DEF DispatchTo, anchored
<1> QED BY <1>1, <1>2 DEF DispatchIdle

LEMMA RenewedAges ==
    ASSUME QueueInv, NEW w \in Workers, claim[w] # NoClaim,
           claim[w].attempt \in RunningAttempts(run[claim[w].run]),
           run[claim[w].run].attempts[claim[w].attempt].lease >= now,
           run' = [run EXCEPT ![claim[w].run] = Renewed(@, claim[w].attempt, now)]
    PROVE  AllAge
<1> DEFINE r == claim[w].run
<1>1. /\ r \in Runs /\ now \in Nat /\ run \in [Runs -> Row]
      /\ \A q \in Runs : run[q] \in Row /\ RowOK(run[q])
  BY BoundsAreNaturals DEF QueueInv, Sound, ClaimsOK, Claim
<1> DEFINE row == Renewed(run[r], claim[w].attempt, now)
<1>2. run' = [run EXCEPT ![r] = row]
  OBVIOUS
<1> HIDE DEF r
<1>3. Ages(run[r], row, now)
  BY <1>1, AgesRenewed DEF r
<1> HIDE DEF row
<1> QED BY <1>1, <1>2, <1>3, AgesSame DEF AllAge

LEMMA SettledAges ==
    ASSUME QueueInv, NEW w \in Workers, SettleWork(w)
    PROVE  AllAge
<1>1. PICK outcome \in Outcomes, backoff \in ResumeDelays : Settle(w, outcome, backoff)
  BY DEF SettleWork
<1> DEFINE r == claim[w].run
<1> DEFINE n == claim[w].attempt
<1> DEFINE complete == (outcome = "complete")
<1> DEFINE at == ResumeAfter(outcome, backoff)
<1> DEFINE status == StatusAfter(outcome)
<1> DEFINE row == Finished(Checkpointed(Renewed(run[r], n, now), run[r].items, complete),
                          n, status, at)
<1>2. BothFencesHold(w) /\ run' = [run EXCEPT ![r] = row]
  BY <1>1 DEF Settle
<1>3. r \in Runs /\ run[r] \in Row /\ RowOK(run[r]) /\ n \in RunningAttempts(run[r])
  BY <1>2, FencedRow
<1>4. now \in Nat /\ at \in Nat /\ complete \in BOOLEAN /\ status \in TerminalStatus
  BY QueueConstants, BoundsAreNaturals DEF QueueInv, ResumeAfter, StatusAfter, TerminalStatus
<1> HIDE DEF at, complete, n, r, status
<1>5. /\ row \in Row /\ RowOK(row) /\ row.status = status
      /\ row.complete = complete /\ Len(row.attempts) = Len(run[r].attempts)
  <2> DEFINE old == run[r]
  <2>1. old \in Row /\ RowOK(old) /\ n \in RunningAttempts(old)
    BY <1>3
  <2>2. row = Finished(Checkpointed(Renewed(old, n, now), old.items, complete), n, status, at)
    OBVIOUS
  <2>3. Len(old.attempts) = Len(run[r].attempts)
    OBVIOUS
  <2> HIDE DEF old, row
  <2> QED BY <1>4, <2>1, <2>2, <2>3, SettledRow
<1> HIDE DEF row
<1>6. RunningAttempts(row) = {} /\ Len(run[r].attempts) \in Nat
  BY <1>3, <1>4, <1>5, RowAttempts DEF RowOK, TerminalStatus
<1>7. Ages(run[r], row, now)
  BY <1>5, <1>6 DEF Ages
<1>8. run \in [Runs -> Row]
  BY DEF QueueInv, Sound
<1> QED BY <1>2, <1>3, <1>7, <1>8, AgesSame DEF AllAge

LEMMA QueueAges ==
    ASSUME QueueInv, QueueStep
    PROVE  AllAge /\ FreshClaims /\ (now' = now \/ CaptureTick)
<1>1. \A q \in Runs : run[q] \in Row /\ RowOK(run[q])
  BY DEF QueueInv, Sound
<1>2. ASSUME run' = run, claim' = claim PROVE AllAge /\ FreshClaims
  BY <1>1, <1>2, AgesSame DEF AllAge, FreshClaims
<1>3. ASSUME NEW w \in Workers, Dispatch(w) PROVE AllAge /\ FreshClaims /\ now' = now
  <2>1. PICK at : \E rows \in {RecoveredRows(run, Runs, at)} :
                  \E items \in {RecoveredItems(work, rows, at)} : DispatchAt(w, rows, items, at)
    BY <1>3 DEF Dispatch
  <2> DEFINE rows == RecoveredRows(run, Runs, at)
  <2> DEFINE items == RecoveredItems(work, rows, at)
  <2>2. DispatchAt(w, rows, items, at)
    BY <2>1
  <2>3. Reached(rows, items)
    BY ReachedRecovered
  <2>4. \A q \in Runs : Ages(run[q], rows[q], now)
    BY AgesRecovered DEF QueueInv, Sound
  <2> HIDE DEF rows, items
  <2>5. /\ claim[w] = NoClaim /\ now' = now
        /\ (\E i \in Roots : DispatchTo(w, i, rows, items, at)) \/ DispatchIdle(rows, items, at)
    BY <2>2 DEF DispatchAt
  <2> QED BY <2>3, <2>4, <2>5, DispatchAges
<1>4. ASSUME NEW w \in Workers, NEW i \in Roots, DispatchNamed(w, i)
      PROVE  AllAge /\ FreshClaims /\ now' = now
  <2>1. claim[w] = NoClaim /\ now' = now /\ DispatchTo(w, i, run, work, now)
    BY <1>4 DEF DispatchNamed
  <2> QED BY <1>1, <2>1, ReachedNow, AgesSame, DispatchAges
<1>5. ASSUME NEW w \in Workers, RenewWorkLease(w) PROVE AllAge /\ FreshClaims /\ now' = now
  <2>1. AllAge
    BY <1>5, RenewedAges DEF RenewWorkLease, BothFencesHold, LeaseHeld
  <2> QED BY <1>5, <2>1 DEF RenewWorkLease, FreshClaims
<1>6. CASE RecoverAttempts
  <2>1. run' = RecoveredRows(run, Runs, now) /\ claim' = claim /\ now' = now
    BY <1>6 DEF RecoverAttempts
  <2>2. AllAge
    BY <2>1, AgesRecovered DEF AllAge, QueueInv, Sound
  <2> QED BY <2>1, <2>2 DEF FreshClaims
<1>7. CASE CaptureTick
  BY <1>2, <1>7 DEF CaptureTick, Tick
<1>8. ASSUME NEW i \in Roots, NEW verdict, Enqueue(i, verdict) \/ EnqueueManual(i, verdict)
      PROVE  AllAge /\ FreshClaims /\ now' = now
  BY <1>2, <1>8 DEF Enqueue, EnqueueManual
<1>9. ASSUME NEW i \in Roots, Reconsider(i) \/ EnqueueCompensation(i)
      PROVE  AllAge /\ FreshClaims /\ now' = now
  BY <1>2, <1>9 DEF Reconsider, EnqueueCompensation
<1>10. ASSUME NEW S \in SUBSET Roots, WakeConsumers(S)
       PROVE  AllAge /\ FreshClaims /\ now' = now
  BY <1>2, <1>10 DEF WakeConsumers
<1> QED BY <1>3, <1>4, <1>5, <1>6, <1>7, <1>8, <1>9, <1>10 DEF QueueStep

-----------------------------------------------------------------------------
(* PaidWork: the fetchers of the queue's workers.                          *)

\* A ticket's attempt is one of the runs of its item, and whoever fetches for it is
\* the worker of that attempt, which has one fetcher at most.
HoldersInv ==
    /\ holder \in [Tickets -> (Runs \X Nat) \cup {NoOwner}]
    /\ phase \in [Tickets -> P!Phase]
    /\ \A t \in Tickets : holder[t] # NoOwner =>
          /\ holder[t][1][1] = ItemOf[t[1]]
          /\ holder[t][2] \in 1..Len(run[holder[t][1]].attempts)
    /\ \A t \in Tickets : phase[t] # "gone" => \E w \in Workers : Carries(w, t)
    /\ \A w \in Workers, t, u \in Tickets : Carries(w, t) /\ Carries(w, u) => t = u

PaidInv == QueueInv /\ HoldersInv

LEMMA TicketsAre ==
    /\ P!Tickets = Tickets
    /\ \A t \in Tickets : t[1] \in Slots /\ ItemOf[t[1]] \in Roots
BY PaidWorkConstants DEF P!Tickets, P!TicketsOf, Tickets

LEMMA HolderIs ==
    ASSUME HoldersInv, NEW t \in Tickets, holder[t] # NoOwner
    PROVE  /\ holder[t] \in Runs \X Nat /\ holder[t][1] \in Runs /\ holder[t][2] \in Nat
           /\ holder[t] = <<holder[t][1], holder[t][2]>>
BY DEF HoldersInv

\* The owner of a ticket by cases.
LEMMA OwnerIs ==
    ASSUME NEW t \in Tickets
    PROVE  /\ Owners[t] \in {"live", "lapsed", "lost"}
           /\ Owners[t] = "lost" <=> ~TokenRuns(run, holder[t])
           /\ Owners[t] = "live" <=>
                 TokenRuns(run, holder[t])
                 /\ run[holder[t][1]].attempts[holder[t][2]].lease >= now
BY DEF Owners, OwnerOf

\* What the fetchers' invariant needs of a step that claims no ticket.
LEMMA HoldersStep ==
    ASSUME QueueInv, HoldersInv, AllAge, run' \in [Runs -> Row], holder' = holder,
           phase' \in [Tickets -> P!Phase],
           \A t \in Tickets : phase'[t] # "gone" => phase[t] # "gone",
           \A w \in Workers, t \in Tickets :
              Carries(w, t)' <=> Carries(w, t) /\ phase'[t] # "gone"
    PROVE  HoldersInv'
<1>1. ASSUME NEW t \in Tickets, holder[t] # NoOwner
      PROVE  holder[t][2] \in 1..Len(run'[holder[t][1]].attempts)
  <2> DEFINE r == holder[t][1]
  <2>1. r \in Runs /\ holder[t][2] \in 1..Len(run[r].attempts)
    BY <1>1, HolderIs DEF HoldersInv
  <2> HIDE DEF r
  <2>2. Ages(run[r], run'[r], now)
    BY <2>1 DEF AllAge
  <2>3. 1..Len(run[r].attempts) \subseteq 1..Len(run'[r].attempts)
    BY <2>1, <2>2, RowAttempts DEF Ages, QueueInv, Sound
  <2>4. holder[t][2] \in 1..Len(run'[r].attempts)
    BY <2>1, <2>3
  <2> QED BY <2>4 DEF r
<1>2. \A t \in Tickets : phase'[t] # "gone" => \E w \in Workers : Carries(w, t)'
  BY DEF HoldersInv
<1>3. \A w \in Workers, t, u \in Tickets : Carries(w, t)' /\ Carries(w, u)' => t = u
  BY DEF HoldersInv
<1> QED BY <1>1, <1>2, <1>3 DEF HoldersInv

\* While time stands still an owner stays what it is or is lost.
LEMMA OwnersAge ==
    ASSUME QueueInv, HoldersInv, AllAge, holder' = holder, now' = now
    PROVE  \A t \in Tickets : Owners'[t] \in {Owners[t], "lost"}
<1> TAKE t \in Tickets
<1> DEFINE h == holder[t]
<1>1. Owners'[t] = OwnerOf(run', holder, now, t) /\ Owners[t] = OwnerOf(run, holder, now, t)
  BY DEF Owners
<1>2. CASE ~TokenRuns(run', h)
  BY <1>1, <1>2 DEF OwnerOf
<1>3. CASE TokenRuns(run', h)
  <2>1. h # NoOwner /\ h[2] \in RunningAttempts(run'[h[1]])
    BY <1>3 DEF TokenRuns
  <2>2. /\ h[1] \in Runs /\ h[2] \in 1..Len(run[h[1]].attempts)
    BY <2>1, HolderIs DEF HoldersInv
  <2>3. /\ h[2] \in RunningAttempts(run[h[1]])
        /\ \/ run'[h[1]].attempts[h[2]].lease = run[h[1]].attempts[h[2]].lease
           \/ run'[h[1]].attempts[h[2]].lease >= now /\ run[h[1]].attempts[h[2]].lease >= now
    BY <2>1, <2>2 DEF AllAge, Ages
  <2>4. TokenRuns(run, h)
    BY <2>1, <2>3 DEF TokenRuns
  <2> QED BY <1>1, <1>3, <2>3, <2>4 DEF OwnerOf
<1> QED BY <1>2, <1>3

\* The tables of the paid path, and the fetchers, stay as they are.
LEMMA OwnersLost ==
    ASSUME \A t \in Tickets : Owners'[t] \in {Owners[t], "lost"}, UNCHANGED <<phase, tableVars>>
    PROVE  \E S \in SUBSET P!Tickets : P!Lose(S)
<1> DEFINE S == {t \in Tickets : Owners'[t] # Owners[t]}
<1>1. \A t \in S : Owners[t] # "lost"
  OBVIOUS
<1>2. Owners' = [t \in Tickets |-> IF t \in S THEN "lost" ELSE Owners[t]]
  <2>1. Owners' = [t \in Tickets |-> Owners'[t]]
    BY DEF Owners
  <2> QED BY <2>1
<1> HIDE DEF S
<1>3. P!Lose(S)
  BY <1>1, <1>2, TicketsAre DEF P!Lose, P!OwnersBecome, tableVars
<1>4. S \in SUBSET P!Tickets
  BY TicketsAre DEF S
<1> QED BY <1>3, <1>4

LEMMA SameOwners ==
    ASSUME UNCHANGED <<run, holder, now>>
    PROVE  Owners' = Owners
BY DEF Owners, OwnerOf, TokenRuns, RunningAttempts

\* No claim of the queue takes an attempt that already holds a ticket.
LEMMA CarriersKept ==
    ASSUME QueueInv, HoldersInv, FreshClaims, UNCHANGED <<holder, phase>>,
           NEW w \in Workers, NEW t \in Tickets
    PROVE  Carries(w, t)' <=> Carries(w, t)
<1>1. CASE claim'[w] = claim[w]
  BY <1>1 DEF Carries, AttemptOf
<1>2. CASE /\ claim[w] = NoClaim /\ claim'[w].run \in Runs
           /\ claim'[w].attempt > Len(run[claim'[w].run].attempts)
  <2> DEFINE r == claim'[w].run
  <2> DEFINE n == claim'[w].attempt
  <2> SUFFICES ASSUME holder[t] = <<r, n>> PROVE FALSE
    BY <1>2 DEF Carries, AttemptOf
  <2>1. r \in Runs /\ n > Len(run[r].attempts)
    BY <1>2
  <2> HIDE DEF r, n
  <2>2. holder[t] # NoOwner /\ holder[t][1] = r /\ holder[t][2] = n
    BY DEF NoOwner
  <2>3. n \in 1..Len(run[r].attempts)
    BY <2>2 DEF HoldersInv
  <2>4. Len(run[r].attempts) \in Nat
    BY <2>1, RowAttempts DEF QueueInv, Sound
  <2> QED BY <2>1, <2>3, <2>4
<1> QED BY <1>1, <1>2 DEF FreshClaims

-----------------------------------------------------------------------------
(* The steps of PaidWork.                                                  *)

\* What a step must do: keep the fetchers' invariant and be one of PaidFetch.
PaidOK == HoldersInv' /\ [P!NextFetch]_(P!fetchVars)

LEMMA QueueMovesOK ==
    ASSUME PaidInv, QueueInv', QueueMoves
    PROVE  PaidOK
<1>1. QueueInv /\ HoldersInv /\ QueueStep /\ UNCHANGED <<holder, phase, tableVars>>
  BY DEF PaidInv, QueueMoves
<1>2. AllAge /\ FreshClaims /\ (now' = now \/ CaptureTick)
  BY <1>1, QueueAges
<1>3. HoldersInv'
  <2>1. \A w \in Workers, t \in Tickets :
           Carries(w, t)' <=> Carries(w, t) /\ phase'[t] # "gone"
    BY <1>1, <1>2, CarriersKept DEF Carries
  <2>2. phase' \in [Tickets -> P!Phase] /\ run' \in [Runs -> Row]
    BY <1>1 DEF HoldersInv, QueueInv, Sound
  <2> QED BY <1>1, <1>2, <2>1, <2>2, HoldersStep
<1>4. CASE now' = now
  <2>1. \A t \in Tickets : Owners'[t] \in {Owners[t], "lost"}
    BY <1>1, <1>2, <1>4, OwnersAge
  <2>2. \E S \in SUBSET P!Tickets : P!Lose(S)
    BY <1>1, <2>1, OwnersLost
  <2> QED BY <1>3, <2>2 DEF PaidOK, P!NextFetch
<1>5. CASE CaptureTick
  <2>1. run' = run /\ now' = now + 1 /\ now \in Nat
    BY <1>1, <1>5, BoundsAreNaturals DEF CaptureTick, Tick, QueueInv
  <2> DEFINE S == {t \in Tickets : Owners'[t] # Owners[t]}
  <2>2. \A t \in Tickets : Owners'[t] # Owners[t] => Owners[t] = "live" /\ Owners'[t] = "lapsed"
    <3> TAKE t \in Tickets
    <3> DEFINE h == holder[t]
    <3>1. /\ Owners'[t] = OwnerOf(run, holder, now + 1, t)
          /\ Owners[t] = OwnerOf(run, holder, now, t)
      BY <1>1, <2>1 DEF Owners
    <3>2. CASE ~TokenRuns(run, h)
      BY <3>1, <3>2 DEF OwnerOf
    <3>3. CASE TokenRuns(run, h)
      <4>1. h # NoOwner
        BY <3>3 DEF TokenRuns
      <4>2. h[1] \in Runs /\ h[2] \in 1..Len(run[h[1]].attempts)
        BY <1>1, <4>1, HolderIs DEF HoldersInv
      <4>3. run[h[1]].attempts[h[2]].lease \in Nat
        BY <1>1, <4>2, RowAttempts DEF QueueInv, Sound, Attempt
      <4> QED BY <2>1, <3>1, <3>3, <4>3 DEF OwnerOf
    <3> QED BY <3>2, <3>3
  <2>3. Owners' = [t \in Tickets |-> IF t \in S THEN "lapsed" ELSE Owners[t]]
    <3>1. Owners' = [t \in Tickets |-> Owners'[t]]
      BY DEF Owners
    <3> QED BY <2>2, <3>1
  <2>4. \A t \in S : Owners[t] = "live"
    BY <2>2
  <2> HIDE DEF S
  <2>5. P!Lapse(S)
    BY <1>1, <2>3, <2>4, TicketsAre DEF P!Lapse, P!OwnersBecome, tableVars
  <2>6. S \in SUBSET P!Tickets
    BY TicketsAre DEF S
  <2> QED BY <1>3, <2>5, <2>6 DEF PaidOK, P!NextFetch
<1> QED BY <1>2, <1>4, <1>5

\* A renewal keeps every owner, and the renewed attempt is live.
LEMMA RenewedOwners ==
    ASSUME PaidInv, NEW w \in Workers, RenewAttempt(w)
    PROVE  /\ AllAge
           /\ \A t \in Tickets : OwnerOf(run', holder, now, t) = OwnerOf(run, holder, now, t)
           /\ \A holders, t : holders[t] = AttemptOf(w) => OwnerOf(run', holders, now, t) = "live"
<1> DEFINE r == claim[w].run
<1> DEFINE n == claim[w].attempt
<1> DEFINE row == Renewed(run[r], n, now)
<1>1. /\ claim[w] # NoClaim /\ n \in RunningAttempts(run[r]) /\ run[r].attempts[n].lease >= now
      /\ run' = [run EXCEPT ![r] = row] /\ now' = now
  BY DEF RenewAttempt, AssertOwner, LeaseHeld
<1>2. /\ r \in Runs /\ now \in Nat /\ run \in [Runs -> Row]
      /\ \A q \in Runs : run[q] \in Row /\ RowOK(run[q])
  BY <1>1, BoundsAreNaturals DEF PaidInv, QueueInv, Sound, ClaimsOK, Claim
<1>3. AllAge
  BY <1>1, RenewedAges DEF PaidInv
<1> HIDE DEF r, n
<1>4. /\ RunningAttempts(row) = RunningAttempts(run[r]) /\ row.attempts[n].lease >= now
      /\ \A m \in 1..Len(run[r].attempts) : m # n => row.attempts[m] = run[r].attempts[m]
  BY <1>1, <1>2, AgesRenewed
<1> HIDE DEF row
<1>5. ASSUME NEW t \in Tickets
      PROVE  OwnerOf(run', holder, now, t) = OwnerOf(run, holder, now, t)
  <2> DEFINE h == holder[t]
  <2>1. CASE h = NoOwner
    BY <2>1 DEF OwnerOf, TokenRuns
  <2>2. CASE h # NoOwner /\ h[1] # r
    <3>1. h[1] \in Runs
      BY <2>2, HolderIs DEF PaidInv
    <3>2. run'[h[1]] = run[h[1]]
      BY <1>1, <1>2, <2>2, <3>1
    <3> QED BY <3>2 DEF OwnerOf, TokenRuns
  <2>3. CASE h # NoOwner /\ h[1] = r
    <3>1. run'[r] = row
      BY <1>1, <1>2
    <3>2. h[2] \in 1..Len(run[r].attempts)
      BY <2>3 DEF PaidInv, HoldersInv
    <3>3. TokenRuns(run', h) <=> TokenRuns(run, h)
      BY <1>4, <2>3, <3>1 DEF TokenRuns
    <3>4. (row.attempts[h[2]].lease >= now) <=> (run[r].attempts[h[2]].lease >= now)
      BY <1>1, <1>4, <3>2
    <3> QED BY <2>3, <3>1, <3>3, <3>4 DEF OwnerOf
  <2> QED BY <2>1, <2>2, <2>3
<1>6. ASSUME NEW holders, NEW t, holders[t] = AttemptOf(w)
      PROVE  OwnerOf(run', holders, now, t) = "live"
  <2>1. run'[r] = row
    BY <1>1, <1>2
  <2>2. holders[t] # NoOwner /\ holders[t][1] = r /\ holders[t][2] = n
    BY <1>6 DEF AttemptOf, NoOwner, r, n
  <2> QED BY <1>1, <1>4, <2>1, <2>2 DEF OwnerOf, TokenRuns
<1> QED BY <1>3, <1>5, <1>6

\* A worker takes a ticket under its own attempt, which holds its lease.
LEMMA TicketClaimed ==
    ASSUME PaidInv, QueueInv', NEW w \in Workers, NEW t \in Tickets, MayClaimTicket(w, t),
           phase' = [phase EXCEPT ![t] = "claimed"]
    PROVE  HoldersInv' /\ Owners' = [Owners EXCEPT ![t] = "live"]
<1> DEFINE r == claim[w].run
<1> DEFINE n == claim[w].attempt
<1>1. /\ RenewAttempt(w) /\ claim[w] # NoClaim /\ ItemOf[t[1]] = r[1]
      /\ \A u \in Tickets : ~Carries(w, u)
      /\ holder' = [holder EXCEPT ![t] = <<r, n>>] /\ claim' = claim /\ now' = now
      /\ n \in RunningAttempts(run[r]) /\ run[r].attempts[n].lease >= now
      /\ run' = [run EXCEPT ![r] = Renewed(run[r], n, now)]
  BY DEF MayClaimTicket, RenewAttempt, AttemptOf, AssertOwner, LeaseHeld
<1>2. /\ r \in Runs /\ n \in Nat /\ n \in 1..Len(run[r].attempts) /\ now \in Nat
      /\ run \in [Runs -> Row] /\ \A q \in Runs : run[q] \in Row /\ RowOK(run[q])
  BY <1>1, BoundsAreNaturals DEF PaidInv, QueueInv, Sound, ClaimsOK, Claim
<1>3. AllAge
  BY <1>1, RenewedOwners
<1>4. /\ holder' \in [Tickets -> (Runs \X Nat) \cup {NoOwner}]
      /\ holder'[t] = <<r, n>> /\ \A u \in Tickets : u # t => holder'[u] = holder[u]
      /\ phase' \in [Tickets -> P!Phase]
      /\ phase'[t] # "gone" /\ \A u \in Tickets : u # t => phase'[u] = phase[u]
  BY <1>1, <1>2 DEF PaidInv, HoldersInv, P!Phase
<1>5. \A v \in Workers : claim[v] # NoClaim /\ claim[v].run = r /\ claim[v].attempt = n => v = w
  BY <1>1 DEF PaidInv, QueueInv, ClaimsOK, ClaimsDiffer
<1>6. /\ Carries(w, t)'
      /\ \A v \in Workers : Carries(v, t)' => v = w
      /\ \A v \in Workers, u \in Tickets : u # t => (Carries(v, u)' <=> Carries(v, u))
  BY <1>1, <1>4, <1>5 DEF Carries, AttemptOf
<1>7. HoldersInv'
  <2>1. ASSUME NEW u \in Tickets, holder'[u] # NoOwner
        PROVE  /\ holder'[u][1][1] = ItemOf[u[1]]
               /\ holder'[u][2] \in 1..Len(run'[holder'[u][1]].attempts)
    <3>1. /\ holder'[u][1] \in Runs /\ holder'[u][1][1] = ItemOf[u[1]]
          /\ holder'[u][2] \in 1..Len(run[holder'[u][1]].attempts)
      <4>1. CASE u = t
        BY <1>1, <1>2, <1>4, <4>1
      <4>2. CASE u # t
        BY <1>4, <2>1, <4>2, HolderIs DEF PaidInv, HoldersInv
      <4> QED BY <4>1, <4>2
    <3>2. /\ Len(run[holder'[u][1]].attempts) \in Nat /\ Len(run'[holder'[u][1]].attempts) \in Nat
          /\ Len(run'[holder'[u][1]].attempts) >= Len(run[holder'[u][1]].attempts)
      BY <1>2, <1>3, <3>1, RowAttempts DEF AllAge, Ages, QueueInv, Sound
    <3>3. \A a, b \in Nat : b >= a => 1..a \subseteq 1..b
      OBVIOUS
    <3> QED BY <3>1, <3>2, <3>3
  <2>2. ASSUME NEW u \in Tickets, phase'[u] # "gone" PROVE \E v \in Workers : Carries(v, u)'
    <3>1. CASE u = t
      BY <1>6, <3>1
    <3>2. CASE u # t
      <4>1. PICK v \in Workers : Carries(v, u)
        BY <1>4, <2>2, <3>2 DEF PaidInv, HoldersInv
      <4> QED BY <1>6, <3>2, <4>1
    <3> QED BY <3>1, <3>2
  <2>3. ASSUME NEW v \in Workers, NEW u \in Tickets, NEW x \in Tickets,
               Carries(v, u)', Carries(v, x)'
        PROVE  u = x
    <3>1. CASE u = t \/ x = t
      BY <1>1, <1>6, <2>3, <3>1
    <3>2. CASE u # t /\ x # t
      BY <1>6, <2>3, <3>2 DEF PaidInv, HoldersInv
    <3> QED BY <3>1, <3>2
  <2> QED BY <1>4, <2>1, <2>2, <2>3 DEF HoldersInv
<1>8. Owners' = [Owners EXCEPT ![t] = "live"]
  <2>a. holder'[t] = AttemptOf(w)
    BY <1>4 DEF AttemptOf
  <2>1. /\ \A u \in Tickets : OwnerOf(run', holder, now, u) = OwnerOf(run, holder, now, u)
        /\ OwnerOf(run', holder', now, t) = "live"
    BY <1>1, <2>a, RenewedOwners
  <2>2. \A u \in Tickets : u # t =>
           OwnerOf(run', holder', now, u) = OwnerOf(run', holder, now, u)
    BY <1>4 DEF OwnerOf
  <2> QED BY <1>1, <2>1, <2>2 DEF Owners
<1> QED BY <1>7, <1>8

\* A fetcher goes on, or fails: nothing of the queue moves but a lease that holds.
LEMMA FetcherStep ==
    ASSUME PaidInv, QueueInv', AllAge, Owners' = Owners, UNCHANGED <<holder, claim>>,
           phase' \in [Tickets -> P!Phase],
           \A t \in Tickets : phase'[t] # "gone" => phase[t] # "gone",
           P!TableStep
    PROVE  PaidOK
<1>1. \A w \in Workers, t \in Tickets : Carries(w, t)' <=> Carries(w, t) /\ phase'[t] # "gone"
  BY DEF Carries, AttemptOf
<1>2. HoldersInv'
  BY <1>1, HoldersStep DEF PaidInv, QueueInv, Sound
<1>3. P!NextFetch
  BY DEF P!NextFetch
<1> QED BY <1>2, <1>3 DEF PaidOK

\* The phases after a step of one fetcher.
LEMMA PhaseMoves ==
    ASSUME HoldersInv, NEW t \in Tickets, phase[t] # "gone", NEW next \in P!Phase,
           phase' = [phase EXCEPT ![t] = next]
    PROVE  /\ phase' \in [Tickets -> P!Phase]
           /\ \A u \in Tickets : phase'[u] # "gone" => phase[u] # "gone"
BY DEF HoldersInv

\* While the attempt of a ticket runs, its item carries that attempt's token.
LEMMA TokenIsHolder ==
    ASSUME PaidInv, NEW t \in Tickets, Owners[t] # "lost"
    PROVE  work[ItemOf[t[1]]].owner = holder[t]
<1> DEFINE r == holder[t][1]
<1>1. holder[t] # NoOwner /\ holder[t][2] \in RunningAttempts(run[r])
  BY OwnerIs DEF TokenRuns
<1>2. r \in Runs /\ r[1] = ItemOf[t[1]] /\ holder[t] = <<r, holder[t][2]>>
  BY <1>1, HolderIs DEF PaidInv, HoldersInv
<1> HIDE DEF r
<1>3. run[r].status = "running" /\ run[r].owner = holder[t][2]
  BY <1>1, <1>2 DEF PaidInv, QueueInv, Sound, RowOK
<1> QED BY <1>2, <1>3 DEF PaidInv, QueueInv, Sound, Holds

LEMMA ClaimFetchOK ==
    ASSUME PaidInv, QueueInv', NEW w \in Workers, NEW t \in Tickets,
           FirstFetch(w, t) \/ \E k \in 1..MaxSequence : CompensatingFetch(w, t, k)
    PROVE  PaidOK
<1>1. MayClaimTicket(w, t)
  BY DEF FirstFetch, CompensatingFetch
<1>2. phase' = [phase EXCEPT ![t] = "claimed"]
  BY DEF FirstFetch, CompensatingFetch, P!Claim, P!Compensation, P!Reserve
<1>3. HoldersInv' /\ Owners' = [Owners EXCEPT ![t] = "live"]
  BY <1>1, <1>2, TicketClaimed
<1>4. P!Claim(t) \/ \E k \in 1..MaxSequence : P!Compensate(t, k)
  <2>1. CASE FirstFetch(w, t)
    BY <2>1 DEF FirstFetch
  <2>2. ASSUME NEW k \in 1..MaxSequence, CompensatingFetch(w, t, k)
        PROVE  P!Compensate(t, k)
    <3>1. /\ P!Compensation(t, k)
          /\ work[ItemOf[t[1]]].owner = AttemptOf(w) /\ claim[w] # NoClaim
      BY <1>1, <2>2 DEF CompensatingFetch, MayClaimTicket, RenewAttempt
    <3>2. ASSUME NEW u \in P!TicketsOf(t[1]), phase[u] # "gone", Owners[u] # "lost"
          PROVE  FALSE
      <4>1. u \in Tickets /\ u[1] = t[1]
        BY TicketsAre DEF P!TicketsOf, Tickets
      <4>2. work[ItemOf[t[1]]].owner = holder[u]
        BY <3>2, <4>1, TokenIsHolder
      <4>3. Carries(w, u)
        BY <3>1, <3>2, <4>2 DEF Carries
      <4> QED BY <1>1, <4>1, <4>3 DEF MayClaimTicket
    <3> QED BY <3>1, <3>2 DEF P!Compensate
  <2> QED BY <2>1, <2>2
<1>5. P!ClaimFetch(t)
  BY <1>3, <1>4 DEF P!ClaimFetch
<1>6. P!NextFetch
  BY <1>5, TicketsAre DEF P!NextFetch
<1> QED BY <1>3, <1>6 DEF PaidOK

LEMMA SendFetchOK ==
    ASSUME PaidInv, QueueInv', NEW w \in Workers, NEW t \in Tickets, SendFetch(w, t)
    PROVE  PaidOK
<1>1. /\ Carries(w, t) /\ RenewAttempt(w) /\ P!Send(t) /\ holder' = holder
  BY DEF SendFetch
<1>2. claim' = claim /\ now' = now /\ phase[t] # "gone" /\ phase' = [phase EXCEPT ![t] = "sent"]
  BY <1>1 DEF RenewAttempt, P!Send, Carries
<1>3. AllAge /\ \A u \in Tickets : OwnerOf(run', holder, now, u) = OwnerOf(run, holder, now, u)
  BY <1>1, RenewedOwners
<1>4. Owners' = Owners
  BY <1>1, <1>2, <1>3 DEF Owners
<1>5. /\ phase' \in [Tickets -> P!Phase]
      /\ \A u \in Tickets : phase'[u] # "gone" => phase[u] # "gone"
  BY <1>2, PhaseMoves DEF PaidInv, P!Phase
<1>6. P!TableStep
  BY <1>1, TicketsAre DEF P!TableStep, P!Fetch
<1> QED BY <1>1, <1>2, <1>3, <1>4, <1>5, <1>6, FetcherStep

LEMMA FetchGoesOnOK ==
    ASSUME PaidInv, QueueInv', NEW w \in Workers, NEW t \in Tickets,
           FetchGoesOn(w, t) \/ FetchFails(w, t)
    PROVE  PaidOK
<1>1. Carries(w, t) /\ UNCHANGED <<captureVars, holder>>
  BY DEF FetchGoesOn, FetchFails
<1>2. UNCHANGED <<run, claim, holder, now>> /\ phase[t] # "gone"
  BY <1>1 DEF captureVars, Carries
<1>3. AllAge
  BY <1>2, AgesSame DEF AllAge, PaidInv, QueueInv, Sound
<1>4. Owners' = Owners
  BY <1>2, SameOwners
<1>5. PICK next \in P!Phase : phase' = [phase EXCEPT ![t] = next]
  BY DEF FetchGoesOn, FetchFails, P!Refusals, P!Phase, P!SendFailsLate, P!SendRefused,
         P!CleanUp, P!Call, P!AnswerOk, P!AnswerFailed, P!Answer, P!AbandonFetch
<1>6. /\ phase' \in [Tickets -> P!Phase]
      /\ \A u \in Tickets : phase'[u] # "gone" => phase[u] # "gone"
  BY <1>2, <1>5, PhaseMoves DEF PaidInv
<1>7. P!TableStep
  BY TicketsAre DEF FetchGoesOn, FetchFails, P!TableStep, P!Fetch
<1> QED BY <1>2, <1>3, <1>4, <1>6, <1>7, FetcherStep

LEMMA TablesMoveOK ==
    ASSUME PaidInv, QueueInv', TablesMove
    PROVE  PaidOK
<1>1. UNCHANGED <<run, claim, holder, now>>
  BY DEF TablesMove, captureVars
<1>2. phase' = phase
  BY DEF TablesMove, P!Recover, P!Settle, P!MarkTerminal
<1>3. AllAge
  BY <1>1, AgesSame DEF AllAge, PaidInv, QueueInv, Sound
<1>4. P!TableStep
  BY TicketsAre DEF TablesMove, P!TableStep
<1> QED BY <1>1, <1>2, <1>3, <1>4, SameOwners, FetcherStep DEF PaidInv, HoldersInv

LEMMA SettleExecutionOK ==
    ASSUME PaidInv, QueueInv', NEW w \in Workers, SettleExecution(w)
    PROVE  PaidOK
<1>1. /\ SettleWork(w) /\ \A t \in Tickets : ~Carries(w, t)
      /\ UNCHANGED <<holder, phase, tableVars>>
  BY DEF SettleExecution
<1>2. AllAge
  BY <1>1, SettledAges DEF PaidInv
<1>3. now' = now /\ claim' = [claim EXCEPT ![w] = NoClaim]
  BY <1>1 DEF SettleWork, Settle, Drop
<1>4. \A v \in Workers, t \in Tickets : Carries(v, t)' <=> Carries(v, t) /\ phase'[t] # "gone"
  BY <1>1, <1>3 DEF Carries, AttemptOf, PaidInv, QueueInv, ClaimsOK
<1>5. HoldersInv'
  BY <1>1, <1>2, <1>4, HoldersStep DEF PaidInv, HoldersInv, QueueInv, Sound
<1>6. \A t \in Tickets : Owners'[t] \in {Owners[t], "lost"}
  BY <1>1, <1>2, <1>3, OwnersAge DEF PaidInv
<1>7. \E S \in SUBSET P!Tickets : P!Lose(S)
  BY <1>1, <1>6, OwnersLost
<1> QED BY <1>5, <1>7 DEF PaidOK, P!NextFetch

LEMMA AbandonExecutionOK ==
    ASSUME PaidInv, QueueInv', NEW w \in Workers, AbandonExecution(w)
    PROVE  PaidOK
<1>1. /\ UNCHANGED <<run, now, holder, tableVars>> /\ claim' = [claim EXCEPT ![w] = NoClaim]
      /\ phase' = [t \in Tickets |-> IF Carries(w, t) THEN "gone" ELSE phase[t]]
  BY DEF AbandonExecution, AbandonWork, Abandon, Drop
<1>2. AllAge
  BY <1>1, AgesSame DEF AllAge, PaidInv, QueueInv, Sound
<1>3. /\ phase \in [Tickets -> P!Phase]
      /\ \A t, u \in Tickets : Carries(w, t) /\ Carries(w, u) => t = u
  BY DEF PaidInv, HoldersInv
<1>4. HoldersInv'
  <2>1. \A v \in Workers, t \in Tickets : Carries(v, t)' <=> Carries(v, t) /\ phase'[t] # "gone"
    BY <1>1 DEF Carries, AttemptOf, PaidInv, QueueInv, ClaimsOK
  <2>2. phase' \in [Tickets -> P!Phase]
    BY <1>1, <1>3 DEF P!Phase
  <2> QED BY <1>1, <1>2, <2>1, <2>2, HoldersStep DEF PaidInv, QueueInv, Sound
<1>5. Owners' = Owners
  BY <1>1, SameOwners
<1>6. CASE \A t \in Tickets : ~Carries(w, t)
  <2>1. phase' = phase
    BY <1>1, <1>3, <1>6
  <2> QED BY <1>1, <1>4, <1>5, <2>1 DEF PaidOK, P!fetchVars, tableVars
<1>7. ASSUME NEW t \in Tickets, Carries(w, t) PROVE PaidOK
  <2>1. phase' = [phase EXCEPT ![t] = "gone"]
    BY <1>1, <1>3, <1>7
  <2>2. P!AbandonFetch(t)
    BY <1>1, <1>7, <2>1 DEF P!AbandonFetch, tableVars, Carries
  <2>3. P!NextFetch
    BY <1>5, <2>2, TicketsAre DEF P!NextFetch, P!TableStep
  <2> QED BY <1>4, <2>3 DEF PaidOK
<1> QED BY <1>6, <1>7

LEMMA RestartAllOK ==
    ASSUME PaidInv, QueueInv', RestartAll
    PROVE  PaidOK
<1>1. /\ run' = InterruptedRows(run) /\ now' = now
      /\ phase' = [t \in Tickets |-> "gone"] /\ UNCHANGED <<holder, tableVars>>
  BY DEF RestartAll, RestartWriter
<1>2. \A r \in Runs : RunningAttempts(run'[r]) = {}
  BY <1>1, InterruptedAges DEF PaidInv, QueueInv, Sound
<1>3. AllAge
  <2>1. \A r \in Runs : Kept(run[r], run'[r])
    BY <1>1, InterruptedKeeps DEF PaidInv, QueueInv, Sound
  <2>2. \A r \in Runs : Len(run[r].attempts) \in Nat
    BY RowAttempts DEF PaidInv, QueueInv, Sound
  <2> QED BY <1>2, <2>1, <2>2 DEF AllAge, Ages, Kept
<1>4. HoldersInv'
  <2>1. phase' \in [Tickets -> P!Phase]
    BY <1>1 DEF P!Phase
  <2>2. \A v \in Workers, t \in Tickets : Carries(v, t)' <=> Carries(v, t) /\ phase'[t] # "gone"
    BY <1>1 DEF Carries
  <2> QED BY <1>1, <1>3, <2>1, <2>2, HoldersStep DEF PaidInv, QueueInv, Sound
<1>5. \A t \in Tickets : ~TokenRuns(run', holder[t])
  BY <1>2, HolderIs DEF TokenRuns, PaidInv
<1>6. Owners' = [t \in Tickets |-> "lost"]
  BY <1>1, <1>5 DEF Owners, OwnerOf
<1>7. P!Restart
  BY <1>1, <1>6, TicketsAre DEF P!Restart, tableVars
<1> QED BY <1>4, <1>7 DEF PaidOK, P!NextFetch

LEMMA PaidStep ==
    ASSUME PaidInv, QueueInv', [NextPaidWork]_paidWorkVars
    PROVE  PaidOK
<1>1. CASE UNCHANGED paidWorkVars
  <2>1. UNCHANGED <<run, claim, now, holder, phase, tableVars>>
    BY <1>1 DEF paidWorkVars, captureVars
  <2>2. HoldersInv'
    BY <2>1 DEF PaidInv, HoldersInv, Carries, AttemptOf
  <2>3. UNCHANGED P!fetchVars
    BY <2>1, SameOwners DEF P!fetchVars, tableVars
  <2> QED BY <2>2, <2>3 DEF PaidOK
<1>2. ASSUME NEW w \in Workers, NEW t \in Tickets,
             \/ FirstFetch(w, t) \/ FetchFails(w, t)
             \/ \E k \in 1..MaxSequence : CompensatingFetch(w, t, k)
             \/ SendFetch(w, t) \/ FetchGoesOn(w, t)
      PROVE  PaidOK
  BY <1>2, ClaimFetchOK, SendFetchOK, FetchGoesOnOK
<1>3. ASSUME NEW w \in Workers, EndPaidExecution(w) PROVE PaidOK
  BY <1>3, SettleExecutionOK, AbandonExecutionOK DEF EndPaidExecution
<1> QED BY <1>1, <1>2, <1>3, QueueMovesOK, TablesMoveOK, RestartAllOK
        DEF NextPaidWork, WorkerFetches

-----------------------------------------------------------------------------
(* What the composition establishes.                                       *)

\* Every step of PaidWork is one of the queue, or leaves it alone.
LEMMA PaidStepIsCapture ==
    ASSUME [NextPaidWork]_paidWorkVars
    PROVE  [NextCapture]_captureVars
<1>1. CASE UNCHANGED paidWorkVars
  BY <1>1 DEF paidWorkVars
<1>2. ASSUME NEW w \in Workers, NEW t \in Tickets,
             \/ FirstFetch(w, t) \/ SendFetch(w, t)
             \/ \E k \in 1..MaxSequence : CompensatingFetch(w, t, k)
      PROVE  NextCapture
  BY <1>2 DEF FirstFetch, CompensatingFetch, MayClaimTicket, SendFetch, NextCapture
<1>3. ASSUME NEW w \in Workers, NEW t \in Tickets, FetchGoesOn(w, t) \/ FetchFails(w, t)
      PROVE  UNCHANGED captureVars
  BY <1>3 DEF FetchGoesOn, FetchFails
<1>4. ASSUME NEW w \in Workers, EndPaidExecution(w) PROVE NextCapture
  BY <1>4 DEF EndPaidExecution, SettleExecution, AbandonExecution, EndExecution, NextCapture
<1>5. CASE QueueMoves \/ TablesMove \/ RestartAll
  BY <1>5 DEF QueueMoves, TablesMove, RestartAll, NextCapture
<1> QED BY <1>1, <1>2, <1>3, <1>4, <1>5 DEF NextPaidWork, WorkerFetches

LEMMA InitPaidInv == InitPaidWork => PaidInv
<1> SUFFICES ASSUME InitPaidWork PROVE PaidInv
  OBVIOUS
<1>1. InitCapture /\ holder = [t \in Tickets |-> NoOwner] /\ phase = [t \in Tickets |-> "gone"]
  BY TicketsAre DEF InitPaidWork, P!InitFetch
<1>2. HoldersInv
  BY <1>1 DEF HoldersInv, P!Phase, Carries
<1> QED BY <1>1, <1>2, InitQueueInv DEF PaidInv

\* Nothing a paid fetch does is new to the queue: it claims, renews and settles by
\* the queue's own transactions, so that all its theorems hold with fetchers too.
THEOREM PaidWorkIsCapture == PaidWorkSpec => CaptureSpec
<1>1. InitPaidWork => InitCapture
  BY DEF InitPaidWork
<1>2. [NextPaidWork]_paidWorkVars => [NextCapture]_captureVars
  BY PaidStepIsCapture
<1> QED BY <1>1, <1>2, PTL DEF PaidWorkSpec, CaptureSpec

\* Tickets, fetchers and workers agree after every step (capture.py:852-857).
THEOREM PaidInductive == PaidWorkSpec => []PaidInv
<1>1. PaidInv /\ [NextPaidWork]_paidWorkVars => PaidInv'
  <2> SUFFICES ASSUME PaidInv, [NextPaidWork]_paidWorkVars PROVE PaidInv'
    OBVIOUS
  <2>1. QueueInv'
    BY PaidStepIsCapture, CaptureStep DEF PaidInv, StepOK
  <2> QED BY <2>1, PaidStep DEF PaidInv, PaidOK
<1> QED BY <1>1, InitPaidInv, PTL DEF PaidWorkSpec

\* What PaidFetch assumes of its scheduler attempts is what the queue's fences do:
\* leases lapse and attempts end for good, tickets are claimed under live attempts,
\* and a compensation of an item meets no other fetcher that could still end a slot
\* (capture_runtime.py:1311-1331, capture_compensation.py:105-113).
THEOREM RefinesPaidFetch == PaidWorkSpec => ImplementsPaidFetch
<1>1. InitPaidWork => P!InitFetch
  BY DEF InitPaidWork
<1>2. PaidInv /\ PaidInv' /\ [NextPaidWork]_paidWorkVars => [P!NextFetch]_(P!fetchVars)
  BY PaidStep DEF PaidInv, PaidOK
<1> QED BY <1>1, <1>2, PaidInductive, PTL DEF PaidWorkSpec, ImplementsPaidFetch, P!FetchSpec

\* The item's token is one attempt's: at most one of its fetchers can end a slot.
THEOREM OneFetcherPerItem == PaidWorkSpec => []OneFetcher
<1>1. PaidInv => OneFetcher
  <2> SUFFICES ASSUME PaidInv, NEW t \in Tickets, NEW u \in Tickets,
                      phase[t] # "gone", phase[u] # "gone",
                      Owners[t] # "lost", Owners[u] # "lost",
                      ItemOf[t[1]] = ItemOf[u[1]]
               PROVE  t = u
    BY DEF OneFetcher
  <2>2. holder[t] = holder[u]
    BY TokenIsHolder
  <2>3. PICK w \in Workers : Carries(w, t)
    BY DEF PaidInv, HoldersInv
  <2>4. Carries(w, u)
    BY <2>2, <2>3 DEF Carries
  <2> QED BY <2>3, <2>4 DEF PaidInv, HoldersInv
<1> QED BY <1>1, PaidInductive, PTL


-----------------------------------------------------------------------------
(* What PaidFetch promises holds of the composition.                       *)

\* The theorems about PaidFetch, for the tickets' attempts in the queue.
F == INSTANCE PaidFetchProofs WITH Identities <- PaidIdentities, owner <- Owners

LEMMA SamePaidFetch ==
    /\ P!InitFetch <=> F!InitFetch
    /\ P!NextFetch <=> F!NextFetch
    /\ P!fetchVars = F!fetchVars /\ P!fetchVars' = F!fetchVars'
<1> USE DEF P!Tickets, F!Tickets, P!TicketsOf, F!TicketsOf, P!Keys, F!Keys, P!PaidKey, F!PaidKey,
            P!Open, F!Open, P!OpenEvent, F!OpenEvent, P!IsNext, F!IsNext
<1>1. P!fetchVars = F!fetchVars /\ P!fetchVars' = F!fetchVars'
  BY DEF P!fetchVars, F!fetchVars
<1>2. P!InitFetch <=> F!InitFetch
  BY DEF P!InitFetch, F!InitFetch, P!NoUsage, F!NoUsage
<1>3. ASSUME NEW t, NEW k
      PROVE  (P!Claim(t) <=> F!Claim(t)) /\ (P!Compensate(t, k) <=> F!Compensate(t, k))
  <2> USE DEF P!Reserve, F!Reserve, P!Reserved, F!Reserved
  <2>1. P!Claim(t) <=> F!Claim(t)
    BY DEF P!Claim, F!Claim
  <2>2. P!Compensate(t, k) <=> F!Compensate(t, k)
    BY DEF P!Compensate, F!Compensate, P!Compensation, F!Compensation, P!Authorized, F!Authorized
  <2> QED BY <2>1, <2>2
<1>4. ASSUME NEW t PROVE P!ClaimFetch(t) <=> F!ClaimFetch(t)
  BY <1>3 DEF P!ClaimFetch, F!ClaimFetch
<1>5. ASSUME NEW t PROVE P!Fetch(t) <=> F!Fetch(t)
  <2> USE DEF P!HoldsSlot, F!HoldsSlot, P!OwnsSlot, F!OwnsSlot, P!MaySend, F!MaySend
  <2>1. P!Send(t) <=> F!Send(t)
    BY DEF P!Send, F!Send
  <2>2. ASSUME NEW next
        PROVE  /\ P!SendFailsLate(t, next) <=> F!SendFailsLate(t, next)
               /\ P!SendRefused(t, next) <=> F!SendRefused(t, next)
    BY DEF P!SendFailsLate, F!SendFailsLate, P!SendRefused, F!SendRefused
  <2>3. P!CleanUp(t) <=> F!CleanUp(t)
    BY DEF P!CleanUp, F!CleanUp, P!Releasable, F!Releasable, P!Released, F!Released,
           P!Refunded, F!Refunded
  <2>4. P!Call(t) <=> F!Call(t)
    BY DEF P!Call, F!Call
  <2>5. ASSUME NEW ok, NEW billed, NEW status
        PROVE  P!Answer(t, ok, billed, status) <=> F!Answer(t, ok, billed, status)
    BY DEF P!Answer, F!Answer, P!Settled, F!Settled, P!FinishIfOpen, F!FinishIfOpen,
           P!Refunded, F!Refunded, P!AdmissionAfter, F!AdmissionAfter, P!SlotAfter, F!SlotAfter,
           P!Unresolved, F!Unresolved
  <2> QED BY <2>1, <2>2, <2>3, <2>4, <2>5
          DEF P!Fetch, F!Fetch, P!AnswerOk, F!AnswerOk, P!AnswerFailed, F!AnswerFailed,
              P!Refusals, F!Refusals
<1>6. ASSUME NEW S PROVE P!Recover(S) <=> F!Recover(S)
  <2>1. \A u : P!Recovered(u) = F!Recovered(u)
    BY DEF P!Recovered, F!Recovered, P!Releasable, F!Releasable, P!Released, F!Released,
           P!FinishIfOpen, F!FinishIfOpen
  <2>2. \A n : P!Refunded(n) = F!Refunded(n)
    BY DEF P!Refunded, F!Refunded
  <2>3. \A usages, s : P!Unresolved(usages, s) = F!Unresolved(usages, s)
    BY DEF P!Unresolved, F!Unresolved
  <2>4. \A T : P!Cardinality(T) = F!Cardinality(T)
    BY DEF P!Cardinality, F!Cardinality
  <2>5. P!Tickets = F!Tickets
    OBVIOUS
  <2> HIDE DEF P!Tickets, F!Tickets
  <2>6. [t \in P!Tickets |-> IF t[1] \in S THEN P!Recovered(usage[t]) ELSE usage[t]]
        = [t \in F!Tickets |-> IF t[1] \in S THEN F!Recovered(usage[t]) ELSE usage[t]]
    BY <2>1, <2>5
  <2>7. P!Refunded(P!Cardinality({t \in P!Tickets : usage[t].billed # usage'[t].billed}))
        = F!Refunded(F!Cardinality({t \in F!Tickets : usage[t].billed # usage'[t].billed}))
    BY <2>2, <2>4, <2>5
  <2>8. [s \in Slots |-> [slot[s] EXCEPT
               !.status = IF s \in S THEN "retryable_failed" ELSE @,
               !.guard = P!Unresolved(usage', s) \/ (s \notin S /\ @)]]
        = [s \in Slots |-> [slot[s] EXCEPT
               !.status = IF s \in S THEN "retryable_failed" ELSE @,
               !.guard = F!Unresolved(usage', s) \/ (s \notin S /\ @)]]
    BY DEF P!Unresolved, F!Unresolved
  <2> QED BY <2>6, <2>7, <2>8 DEF P!Recover, F!Recover
<1>7. P!Recoverable = F!Recoverable
  BY DEF P!Recoverable, F!Recoverable
<1>8. ASSUME NEW t
      PROVE  (P!AbandonFetch(t) <=> F!AbandonFetch(t)) /\ (P!Settle(t) <=> F!Settle(t))
  BY DEF P!AbandonFetch, F!AbandonFetch, P!Settle, F!Settle
<1>9. ASSUME NEW s PROVE P!MarkTerminal(s) <=> F!MarkTerminal(s)
  BY DEF P!MarkTerminal, F!MarkTerminal
<1>10. P!TableStep <=> F!TableStep
  BY <1>5, <1>6, <1>7, <1>8, <1>9 DEF P!TableStep, F!TableStep
<1>11. P!Restart <=> F!Restart
  BY DEF P!Restart, F!Restart
<1>12. ASSUME NEW S PROVE (P!Lapse(S) <=> F!Lapse(S)) /\ (P!Lose(S) <=> F!Lose(S))
  BY DEF P!Lapse, F!Lapse, P!Lose, F!Lose, P!OwnersBecome, F!OwnersBecome
<1>13. P!NextFetch <=> F!NextFetch
  BY <1>4, <1>10, <1>11, <1>12 DEF P!NextFetch, F!NextFetch
<1> QED BY <1>1, <1>2, <1>13

LEMMA PaidFetchTheorems ==
    /\ PaidWorkSpec => F!FetchSpec
    /\ F!FetchConstants
<1>1. F!FetchConstants
  BY PaidWorkConstants DEF F!FetchConstants, F!IsFiniteSet, IsFiniteSet
<1>2. P!InitFetch => F!InitFetch
  BY SamePaidFetch
<1>3. [P!NextFetch]_P!fetchVars => [F!NextFetch]_F!fetchVars
  BY SamePaidFetch
<1>4. P!FetchSpec => F!FetchSpec
  BY <1>2, <1>3, PTL DEF P!FetchSpec, F!FetchSpec
<1>5. PaidWorkSpec => P!FetchSpec
  BY RefinesPaidFetch DEF ImplementsPaidFetch
<1> QED BY <1>1, <1>4, <1>5

\* With the real leases, recoveries and restarts of the queue, no request is bought
\* twice, a reservation that was given back is never sent, and counter, usage, dispatch
\* chain, slot and admission row agree (capture.py:2047-3306 under
\* capture_runtime.py:1275-1423).
THEOREM PurchasesInQueue ==
    PaidWorkSpec => [](/\ P!BoughtOnce /\ P!ReleasedNeverCalls /\ P!BudgetBalanced
                       /\ P!OpenUsageHoldsSlot /\ P!AdmissionFollowsPurchase)
<1>1. F!FetchSpec => []F!BoughtOnce
  BY PaidFetchTheorems, F!PurchasesAreUnique
<1>2. F!FetchSpec => []F!ReleasedNeverCalls
  BY PaidFetchTheorems, F!ReleasedIsFinal
<1>3. F!FetchSpec => []F!BudgetBalanced
  BY PaidFetchTheorems, F!BudgetIsBalanced
<1>4. F!FetchSpec => []F!OpenUsageHoldsSlot
  BY PaidFetchTheorems, F!OpenHoldsSlot
<1>5. F!FetchSpec => []F!AdmissionFollowsPurchase
  BY PaidFetchTheorems, F!AdmissionFollows
<1>6. /\ F!BoughtOnce => P!BoughtOnce
      /\ F!ReleasedNeverCalls => P!ReleasedNeverCalls
      /\ F!BudgetBalanced => P!BudgetBalanced
      /\ F!OpenUsageHoldsSlot => P!OpenUsageHoldsSlot
      /\ F!AdmissionFollowsPurchase => P!AdmissionFollowsPurchase
  <2> USE DEF P!Tickets, F!Tickets, P!TicketsOf, F!TicketsOf, P!Open, F!Open
  <2>1. F!BoughtOnce => P!BoughtOnce
    BY DEF F!BoughtOnce, P!BoughtOnce
  <2>2. F!ReleasedNeverCalls => P!ReleasedNeverCalls
    BY DEF F!ReleasedNeverCalls, P!ReleasedNeverCalls
  <2>3. F!BudgetBalanced => P!BudgetBalanced
    <3>1. \A T : P!Cardinality(T) = F!Cardinality(T)
      BY DEF P!Cardinality, F!Cardinality
    <3> QED BY <3>1 DEF F!BudgetBalanced, P!BudgetBalanced
  <2>4. F!OpenUsageHoldsSlot => P!OpenUsageHoldsSlot
    BY DEF F!OpenUsageHoldsSlot, P!OpenUsageHoldsSlot, F!IsLatest, P!IsLatest,
           F!OpenEvent, P!OpenEvent
  <2>5. F!AdmissionFollowsPurchase => P!AdmissionFollowsPurchase
    BY DEF F!AdmissionFollowsPurchase, P!AdmissionFollowsPurchase
  <2> QED BY <2>1, <2>2, <2>3, <2>4, <2>5
<1>7. PaidWorkSpec => F!FetchSpec
  BY PaidFetchTheorems
<1> QED BY <1>1, <1>2, <1>3, <1>4, <1>5, <1>6, <1>7, PTL

\* An answer that comes after its attempt ended or lost its slot to a later claim
\* leaves the slot's status and attempt count alone, with the real attempts of the
\* queue (capture.py:2898, :3264-3299).
THEOREM LateAnswersInQueue == PaidWorkSpec => P!LateAnswersAreAudit
<1>1. PaidWorkSpec => F!LateAnswersAreAudit
  BY PaidFetchTheorems, F!LateIsAudit
<1>2. \A t : P!IsLatest(t) <=> F!IsLatest(t)
  BY DEF P!IsLatest, F!IsLatest
<1>3. P!Tickets = F!Tickets
  BY DEF P!Tickets, F!Tickets, P!TicketsOf, F!TicketsOf
<1>4. P!fetchVars = F!fetchVars /\ P!fetchVars' = F!fetchVars'
  BY SamePaidFetch
<1>5. [\A t \in F!Tickets :
          phase[t] = "called" /\ phase'[t] = "gone" /\ (Owners[t] = "lost" \/ ~F!IsLatest(t)) =>
              /\ slot'[t[1]].status = slot[t[1]].status
              /\ slot'[t[1]].count = slot[t[1]].count]_F!fetchVars
      => [\A t \in P!Tickets :
          phase[t] = "called" /\ phase'[t] = "gone" /\ (Owners[t] = "lost" \/ ~P!IsLatest(t)) =>
              /\ slot'[t[1]].status = slot[t[1]].status
              /\ slot'[t[1]].count = slot[t[1]].count]_P!fetchVars
  BY <1>2, <1>3, <1>4
<1> QED BY <1>1, <1>5, PTL DEF F!LateAnswersAreAudit, P!LateAnswersAreAudit
=============================================================================
