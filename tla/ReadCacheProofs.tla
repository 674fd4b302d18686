-------------------------- MODULE ReadCacheProofs --------------------------
(***************************************************************************)
(* Proofs about ReadCache, for any clients, domains, limits and sizes.     *)
(*                                                                         *)
(* Freshness rests on the generation in the key: while it is the current   *)
(* one, no invalidation has been acknowledged since the owner looked up,   *)
(* and what the owner loads afterwards reflects whatever was acknowledged  *)
(* before.  A waiter has the same key, and the same holds for it.          *)
(***************************************************************************)
EXTENDS ReadCache, FiniteSetTheorems, SequenceTheorems, WellFoundedInduction, TLAPS

\* The computations that have not settled their future.
Computing(c) == req[c].pc \in {"queued", "loading", "loaded"}

\* What the fields of a request hold at each point of its way.
RequestOK(r) ==
    /\ r.pc # "idle" => r.key \in Keys
    /\ r.pc \notin {"idle", "keyed"} =>
          r.key[4] \in Nat /\ r.key[4] <= generation[r.key[1]]
    /\ r.pc \in {"loading", "loaded", "leaving"} =>
          r.body.loaded \in Nat /\ r.body.loaded <= now
    /\ r.age < Ttl

Requests == \A c \in Clients : RequestOK(req[c])

\* What was acknowledged was committed.
Acknowledged ==
    \A d \in Domains :
        /\ acked[d] <= db[d]
        /\ notified[d] # None => acked[d] <= notified[d] /\ notified[d] <= db[d]

\* Nobody is or will be answered with data older than its floor.
FreshOK(r) ==
    /\ r.pc # "idle" => r.floor <= acked[r.key[1]]
    /\ r.pc \in {"loaded", "leaving", "answered"} => r.body.version >= r.floor
    /\ r.pc \in {"loaded", "leaving"} /\ r.key[4] = generation[r.key[1]] =>
          r.body.version >= acked[r.key[1]]

Fresh == \A c \in Clients : FreshOK(req[c])

\* A waiter waits for a computation of its own key that will answer it in time.
WaitOK(r) ==
    r.pc = "joined" =>
        /\ r.of \in Clients /\ Computing(r.of)
        /\ req[r.of].key = r.key
        /\ req[r.of].pc = "loaded" => req[r.of].body.version >= r.floor

Waiting == \A w \in Clients : WaitOK(req[w])

\* What an entry of the cache is.
EntryOK(v) ==
    /\ v \in Entry /\ v.key[2] = epoch
    /\ v.body.version \in Nat /\ v.body.version >= acked[v.key[1]]
    /\ v.body.loaded \in Nat /\ v.body.loaded <= now
    /\ v.deadline = v.body.loaded + Ttl

Distinct(seq) == \A i, j \in DOMAIN seq : seq[i].key = seq[j].key => i = j

Entries ==
    /\ \A i \in DOMAIN values : EntryOK(values[i])
    /\ \A i \in DOMAIN values, c \in Clients : Computing(c) => values[i].key # req[c].key

IInv ==
    CacheTypeOK /\ Requests /\ Acknowledged /\ Fresh /\ Waiting /\ Entries /\ CacheIsBounded

\* The conjuncts of CacheTypeOK and CacheIsBounded that change together.
Owning == {"queued", "loading", "loaded", "leaving"}
OtherTypes ==
    /\ now \in Nat /\ replaced \in BOOLEAN
    /\ db \in [Domains -> Nat] /\ shown \in [Domains -> Nat] /\ acked \in [Domains -> Nat]
    /\ notified \in [Domains -> Nat \cup {None}]
    /\ generation \in [Domains -> Nat] /\ rev \in Revision
Table ==
    /\ inflight = {c \in Clients : req[c].pc \in Owning}
    /\ \A c, e \in inflight : req[c].key = req[e].key => c = e
Cached ==
    /\ epoch \in Nat \cup {None} /\ values \in Seq(Entry) /\ bytes \in Nat
    /\ bytes = Stored(values) /\ bytes <= MaxBytes /\ Len(values) <= MaxEntries
    /\ Distinct(values)
Counts == Cardinality(inflight) <= MaxInflight /\ Cardinality(Loading) <= MaxLoaders

LEMMA Parts ==
    /\ IInv <=> /\ OtherTypes /\ req \in [Clients -> Request] /\ Table /\ Cached /\ Counts
                /\ Requests /\ Acknowledged /\ Fresh /\ Waiting /\ Entries
    /\ IInv' <=> /\ OtherTypes' /\ req' \in [Clients -> Request] /\ Table' /\ Cached'
                 /\ Counts' /\ Requests' /\ Acknowledged' /\ Fresh' /\ Waiting' /\ Entries'
BY DEF IInv, CacheTypeOK, CacheIsBounded, OtherTypes, Table, Cached, Counts, Owning, Distinct

-----------------------------------------------------------------------------
(* Sequences of entries.                                                   *)

LEMMA Least ==
    ASSUME NEW S, S \subseteq Nat, S # {}
    PROVE  \E x \in S : \A y \in S : x <= y
<1> DEFINE R == OpToRel(<, Nat)
<1>1. IsWellFoundedOn(R, Nat) /\ \A x, y \in Nat : y < x => <<y, x>> \in R
  BY NatLessThanWellFounded DEF OpToRel
<1> HIDE DEF R
<1>2. PICK x \in S : \A y \in S : <<y, x>> \notin R
  BY WFMin, <1>1
<1>3. ASSUME NEW y \in S PROVE x <= y
  <2>1. y \in Nat /\ x \in Nat /\ ~(y < x)
    BY <1>1, <1>2
  <2> QED BY <2>1
<1> QED BY <1>3

\* Induction over the naturals, for a set.
LEMMA NatInduct ==
    ASSUME NEW S, 0 \in S, \A n \in Nat : n \in S => n + 1 \in S
    PROVE  \A n \in Nat : n \in S
<1> DEFINE Bad == {n \in Nat : n \notin S}
<1> SUFFICES ASSUME Bad # {} PROVE FALSE
  OBVIOUS
<1>1. PICK x \in Bad : \A y \in Bad : x <= y
  BY Least
<1>2. x \in Nat \ {0} /\ x \notin S
  BY <1>1
<1>3. x - 1 \in Nat /\ (x - 1) + 1 = x /\ ~(x <= x - 1)
  BY <1>2
<1>4. x - 1 \in S
  BY <1>1, <1>3
<1> QED BY <1>2, <1>3, <1>4

\* The prefix sums that Stored is the last of.
Sums(seq) ==
    CHOOSE sum : sum = [n \in 0..Len(seq) |->
                           IF n = 0 THEN 0 ELSE sum[n - 1] + seq[n].body.size]

LEMMA SumsExist ==
    ASSUME NEW seq, NEW m \in Nat
    PROVE  \E f : f = [n \in 0..m |-> IF n = 0 THEN 0 ELSE f[n - 1] + seq[n].body.size]
<1> DEFINE Rec(f, k) ==
              f = [n \in 0..k |-> IF n = 0 THEN 0 ELSE f[n - 1] + seq[n].body.size]
           S == {k \in Nat : \E f : Rec(f, k)}
<1>1. 0 \in S
  <2>1. Rec([n \in 0..0 |-> 0], 0)
    OBVIOUS
  <2> QED BY <2>1
<1>2. ASSUME NEW k \in Nat, k \in S PROVE k + 1 \in S
  <2>1. PICK f : Rec(f, k)
    BY <1>2
  <2> DEFINE g == [n \in 0..(k + 1) |->
                      IF n = k + 1 THEN f[k] + seq[k + 1].body.size ELSE f[n]]
             h == [n \in 0..(k + 1) |-> IF n = 0 THEN 0 ELSE g[n - 1] + seq[n].body.size]
  <2>2. ASSUME NEW n \in 0..(k + 1) PROVE g[n] = h[n]
    <3>1. CASE n = k + 1
      <4>1. n - 1 = k /\ k \in 0..(k + 1) /\ k # k + 1 /\ n # 0
        BY <3>1
      <4> QED BY <3>1, <4>1
    <3>2. CASE n # k + 1 /\ n # 0
      <4>1. n \in 0..k /\ n - 1 \in 0..(k + 1) /\ n - 1 # k + 1
        BY <3>2
      <4>2. f[n] = f[n - 1] + seq[n].body.size
        BY <2>1, <3>2, <4>1
      <4> QED BY <3>2, <4>1, <4>2
    <3>3. CASE n = 0
      <4>1. f[0] = 0 /\ 0 # k + 1
        BY <2>1
      <4> QED BY <3>3, <4>1
    <3> QED BY <3>1, <3>2, <3>3
  <2>3. g = h
    BY <2>2
  <2>4. Rec(g, k + 1)
    BY <2>3
  <2> HIDE DEF g
  <2> QED BY <2>4
<1> HIDE DEF S
<1>3. m \in S
  BY <1>1, <1>2, NatInduct
<1> QED BY <1>3 DEF S

LEMMA SumsAre ==
    ASSUME NEW seq \in Seq(Entry)
    PROVE  /\ Stored(seq) = Sums(seq)[Len(seq)]
           /\ Sums(seq)[0] = 0
           /\ \A n \in 1..Len(seq) : Sums(seq)[n] = Sums(seq)[n - 1] + seq[n].body.size
<1>1. Len(seq) \in Nat
  OBVIOUS
<1>2. Sums(seq) = [n \in 0..Len(seq) |->
                     IF n = 0 THEN 0 ELSE Sums(seq)[n - 1] + seq[n].body.size]
  BY <1>1, SumsExist DEF Sums
<1>3. Stored(seq) = Sums(seq)[Len(seq)]
  BY DEF Stored, Sums
<1> HIDE DEF Sums
<1>4. Sums(seq)[0] = 0
  BY <1>1, <1>2
<1>5. ASSUME NEW n \in 1..Len(seq)
      PROVE  Sums(seq)[n] = Sums(seq)[n - 1] + seq[n].body.size
  <2>1. n \in 0..Len(seq) /\ n # 0
    BY <1>1
  <2> QED BY <1>2, <2>1
<1> QED BY <1>3, <1>4, <1>5

\* Sums are naturals, and depend on the entries that they add.
LEMMA SumsAgree ==
    ASSUME NEW s \in Seq(Entry), NEW t \in Seq(Entry), NEW m \in Nat,
           m <= Len(s), m <= Len(t), \A i \in 1..m : s[i] = t[i]
    PROVE  Sums(s)[m] = Sums(t)[m] /\ Sums(s)[m] \in Nat
<1> DEFINE S == {n \in Nat : n <= m => Sums(s)[n] = Sums(t)[n] /\ Sums(s)[n] \in Nat}
<1>1. 0 \in S
  BY SumsAre
<1>2. ASSUME NEW n \in Nat, n \in S PROVE n + 1 \in S
  <2> SUFFICES ASSUME n + 1 <= m
               PROVE  Sums(s)[n + 1] = Sums(t)[n + 1] /\ Sums(s)[n + 1] \in Nat
    OBVIOUS
  <2>1. n + 1 \in 1..m /\ n + 1 \in 1..Len(s) /\ n + 1 \in 1..Len(t) /\ (n + 1) - 1 = n
        /\ n <= m
    OBVIOUS
  <2>2. s[n + 1] = t[n + 1] /\ s[n + 1] \in Entry
    BY <2>1, ElementOfSeq
  <2> HIDE DEF S
  <2>5. s[n + 1].body.size \in Nat
    BY <2>2 DEF Entry, Body
  <2>3. /\ Sums(s)[n + 1] = Sums(s)[n] + s[n + 1].body.size
        /\ Sums(t)[n + 1] = Sums(t)[n] + t[n + 1].body.size
    BY <2>1, SumsAre
  <2>4. Sums(s)[n] = Sums(t)[n] /\ Sums(s)[n] \in Nat
    BY <1>2, <2>1 DEF S
  <2> QED BY <2>2, <2>3, <2>4, <2>5
<1> HIDE DEF S
<1>3. m \in S
  BY <1>1, <1>2, NatInduct
<1> QED BY <1>3 DEF S

LEMMA StoredType ==
    ASSUME NEW s \in Seq(Entry)
    PROVE  Stored(s) \in Nat
<1>1. Len(s) \in Nat
  OBVIOUS
<1> QED BY <1>1, SumsAgree, SumsAre

LEMMA StoredEmpty == Stored(<<>>) = 0
<1>1. <<>> \in Seq(Entry) /\ Len(<<>>) = 0
  OBVIOUS
<1> QED BY <1>1, SumsAre

LEMMA StoredConcat ==
    ASSUME NEW s \in Seq(Entry), NEW t \in Seq(Entry)
    PROVE  Stored(s \o t) = Stored(s) + Stored(t)
<1> DEFINE u == s \o t
           S == {n \in Nat : n <= Len(t) => Sums(u)[Len(s) + n] = Stored(s) + Sums(t)[n]}
<1>1. /\ u \in Seq(Entry) /\ Len(u) = Len(s) + Len(t) /\ Len(s) \in Nat /\ Len(t) \in Nat
      /\ \A i \in 1..Len(s) : u[i] = s[i]
      /\ \A i \in 1..Len(t) : u[Len(s) + i] = t[i]
  OBVIOUS
<1> HIDE DEF u
<1>2. Sums(u)[Len(s)] = Sums(s)[Len(s)] /\ Stored(s) = Sums(s)[Len(s)] /\ Stored(s) \in Nat
  <2>1. Len(s) <= Len(u) /\ Len(s) <= Len(s)
    BY <1>1
  <2>2. Sums(u)[Len(s)] = Sums(s)[Len(s)]
    BY <1>1, <2>1, SumsAgree
  <2> QED BY <2>2, SumsAre, StoredType
<1>3. 0 \in S
  BY <1>1, <1>2, SumsAre
<1>4. ASSUME NEW n \in Nat, n \in S PROVE n + 1 \in S
  <2> SUFFICES ASSUME n + 1 <= Len(t)
               PROVE  Sums(u)[Len(s) + (n + 1)] = Stored(s) + Sums(t)[n + 1]
    OBVIOUS
  <2>1. /\ n + 1 \in 1..Len(t) /\ (n + 1) - 1 = n
        /\ Len(s) + (n + 1) \in 1..Len(u) /\ (Len(s) + (n + 1)) - 1 = Len(s) + n
        /\ n \in Nat /\ n <= Len(t)
    BY <1>1
  <2>2. Sums(u)[Len(s) + (n + 1)] = Sums(u)[Len(s) + n] + u[Len(s) + (n + 1)].body.size
    BY <1>1, <2>1, SumsAre
  <2>3. Sums(t)[n + 1] = Sums(t)[n] + t[n + 1].body.size
    BY <2>1, SumsAre
  <2>6. u[Len(s) + (n + 1)] = t[n + 1] /\ t[n + 1] \in Entry
    BY <1>1, <2>1, ElementOfSeq
  <2>4. t[n + 1].body.size \in Nat
    BY <2>6 DEF Entry, Body
  <2>5. Sums(t)[n] \in Nat /\ Sums(u)[Len(s) + n] = Stored(s) + Sums(t)[n]
    BY <1>4, <2>1, SumsAgree
  <2> QED BY <1>2, <2>2, <2>3, <2>4, <2>5, <2>6
<1> HIDE DEF S
<1>5. Len(t) \in S
  BY <1>1, <1>3, <1>4, NatInduct
<1>6. Sums(u)[Len(s) + Len(t)] = Stored(s) + Sums(t)[Len(t)]
  BY <1>1, <1>5 DEF S
<1>7. Stored(u) = Sums(u)[Len(u)] /\ Stored(t) = Sums(t)[Len(t)]
  BY <1>1, SumsAre
<1> QED BY <1>1, <1>6, <1>7 DEF u

LEMMA StoredAppend ==
    ASSUME NEW s \in Seq(Entry), NEW v \in Entry
    PROVE  Stored(Append(s, v)) = Stored(s) + v.body.size
<1> DEFINE u == Append(s, v)
<1>1. /\ u \in Seq(Entry) /\ Len(s) \in Nat /\ Len(u) = Len(s) + 1
      /\ u[Len(s) + 1] = v /\ \A i \in 1..Len(s) : u[i] = s[i]
  OBVIOUS
<1> HIDE DEF u
<1>2. Len(s) <= Len(u) /\ Len(s) <= Len(s) /\ (Len(s) + 1) - 1 = Len(s)
      /\ Len(s) + 1 \in 1..Len(u)
  BY <1>1
<1>3. Sums(u)[Len(s)] = Sums(s)[Len(s)]
  BY <1>1, <1>2, SumsAgree
<1>4. Sums(u)[Len(s) + 1] = Sums(u)[(Len(s) + 1) - 1] + u[Len(s) + 1].body.size
  BY <1>1, <1>2, SumsAre
<1>5. Stored(u) = Sums(u)[Len(u)] /\ Stored(s) = Sums(s)[Len(s)]
  BY <1>1, SumsAre
<1>6. Stored(u) = Stored(s) + v.body.size
  BY <1>1, <1>2, <1>3, <1>4, <1>5
<1> QED BY <1>6 DEF u

\* The prefixes that Kept is the last of.
Keeps(f, seq, I, m) ==
    f = [n \in 0..m |-> IF n = 0 THEN <<>>
                        ELSE IF n \in I THEN Append(f[n - 1], seq[n]) ELSE f[n - 1]]
KeptUpTo(seq, I) == CHOOSE f : Keeps(f, seq, I, Len(seq))

LEMMA KeptExist ==
    ASSUME NEW seq, NEW I, NEW m \in Nat
    PROVE  \E f : Keeps(f, seq, I, m)
<1> USE DEF Keeps
<1> DEFINE Rec(f, k) == Keeps(f, seq, I, k)
           S == {k \in Nat : \E f : Rec(f, k)}
<1>1. 0 \in S
  <2>1. Rec([n \in 0..0 |-> <<>>], 0)
    OBVIOUS
  <2> QED BY <2>1
<1>2. ASSUME NEW k \in Nat, k \in S PROVE k + 1 \in S
  <2>1. PICK f : Rec(f, k)
    BY <1>2
  <2> DEFINE last == IF k + 1 \in I THEN Append(f[k], seq[k + 1]) ELSE f[k]
             g == [n \in 0..(k + 1) |-> IF n = k + 1 THEN last ELSE f[n]]
             h == [n \in 0..(k + 1) |->
                      IF n = 0 THEN <<>>
                      ELSE IF n \in I THEN Append(g[n - 1], seq[n]) ELSE g[n - 1]]
  <2>2. ASSUME NEW n \in 0..(k + 1) PROVE g[n] = h[n]
    <3>1. CASE n = k + 1
      <4>1. n - 1 = k /\ k \in 0..(k + 1) /\ k # k + 1 /\ n # 0
        BY <3>1
      <4> QED BY <3>1, <4>1
    <3>2. CASE n # k + 1 /\ n # 0
      <4>1. n \in 0..k /\ n - 1 \in 0..(k + 1) /\ n - 1 # k + 1
        BY <3>2
      <4>2. f[n] = IF n \in I THEN Append(f[n - 1], seq[n]) ELSE f[n - 1]
        BY <2>1, <3>2, <4>1
      <4> QED BY <3>2, <4>1, <4>2
    <3>3. CASE n = 0
      <4>1. f[0] = <<>> /\ 0 # k + 1
        BY <2>1
      <4> QED BY <3>3, <4>1
    <3> QED BY <3>1, <3>2, <3>3
  <2>3. Rec(g, k + 1)
    BY <2>2
  <2> HIDE DEF g
  <2> QED BY <2>3
<1> HIDE DEF S
<1>3. m \in S
  BY <1>1, <1>2, NatInduct
<1> QED BY <1>3 DEF S

LEMMA KeptAre ==
    ASSUME NEW seq \in Seq(Entry), NEW I
    PROVE  /\ Kept(seq, I) = KeptUpTo(seq, I)[Len(seq)]
           /\ KeptUpTo(seq, I)[0] = <<>>
           /\ \A n \in 1..Len(seq) :
                 KeptUpTo(seq, I)[n] = IF n \in I THEN Append(KeptUpTo(seq, I)[n - 1], seq[n])
                                       ELSE KeptUpTo(seq, I)[n - 1]
<1>1. Len(seq) \in Nat
  OBVIOUS
<1>8. Keeps(KeptUpTo(seq, I), seq, I, Len(seq))
  BY <1>1, KeptExist DEF KeptUpTo
<1>3. Kept(seq, I) = KeptUpTo(seq, I)[Len(seq)]
  BY DEF Kept, KeptUpTo, Keeps
<1> DEFINE K == KeptUpTo(seq, I)
<1> HIDE DEF K
<1>2. K = [n \in 0..Len(seq) |->
             IF n = 0 THEN <<>> ELSE IF n \in I THEN Append(K[n - 1], seq[n]) ELSE K[n - 1]]
  BY <1>8 DEF Keeps, K
<1>4. K[0] = <<>>
  BY <1>1, <1>2
<1>5. ASSUME NEW n \in 1..Len(seq)
      PROVE  K[n] = IF n \in I THEN Append(K[n - 1], seq[n]) ELSE K[n - 1]
  <2>1. n \in 0..Len(seq) /\ n # 0
    BY <1>1
  <2> QED BY <1>2, <2>1
<1> QED BY <1>3, <1>4, <1>5 DEF K

\* Its entries are some of seq, each once.
LEMMA KeptIs ==
    ASSUME NEW seq \in Seq(Entry), NEW I
    PROVE  /\ Kept(seq, I) \in Seq(Entry)
           /\ Len(Kept(seq, I)) <= Len(seq)
           /\ Stored(Kept(seq, I)) <= Stored(seq)
           /\ \A j \in DOMAIN Kept(seq, I) :
                 \E i \in DOMAIN seq : i \in I /\ Kept(seq, I)[j] = seq[i]
           /\ Distinct(seq) => Distinct(Kept(seq, I))
<1> DEFINE K == KeptUpTo(seq, I)
           Part(n) ==
             /\ K[n] \in Seq(Entry) /\ Len(K[n]) <= n /\ Stored(K[n]) <= Sums(seq)[n]
             /\ \A j \in DOMAIN K[n] : \E i \in 1..n : i \in I /\ K[n][j] = seq[i]
             /\ Distinct(seq) => Distinct(K[n])
           S == {n \in Nat : n <= Len(seq) => Part(n)}
<1>1. Len(seq) \in Nat /\ DOMAIN seq = 1..Len(seq)
  OBVIOUS
<1>2. 0 \in S
  <2>1. K[0] = <<>> /\ Sums(seq)[0] = 0
    BY KeptAre, SumsAre
  <2>2. <<>> \in Seq(Entry) /\ Len(<<>>) = 0 /\ DOMAIN <<>> = {} /\ Distinct(<<>>)
    BY DEF Distinct
  <2> HIDE DEF K
  <2>3. Part(0)
    BY <2>1, <2>2, StoredEmpty
  <2> QED BY <2>3
<1>3. ASSUME NEW n \in Nat, n \in S PROVE n + 1 \in S
  <2> SUFFICES ASSUME n + 1 <= Len(seq) PROVE Part(n + 1)
    OBVIOUS
  <2>1. Part(n)
    BY <1>1, <1>3
  <2>2. n + 1 \in 1..Len(seq) /\ (n + 1) - 1 = n /\ n <= Len(seq)
    BY <1>1
  <2>3. seq[n + 1] \in Entry /\ seq[n + 1].body.size \in Nat
    <3>1. seq[n + 1] \in Entry
      BY <2>2, ElementOfSeq
    <3> QED BY <3>1 DEF Entry, Body
  <2>4. Sums(seq)[n + 1] = Sums(seq)[n] + seq[n + 1].body.size /\ Sums(seq)[n] \in Nat
    BY <2>2, SumsAre, SumsAgree
  <2>5. K[n + 1] = IF n + 1 \in I THEN Append(K[n], seq[n + 1]) ELSE K[n]
    BY <2>2, KeptAre
  <2> HIDE DEF S, K
  <2>6. Stored(K[n]) \in Nat
    BY <2>1, StoredType
  <2>7. CASE n + 1 \notin I
    <3>1. K[n + 1] = K[n]
      BY <2>5, <2>7
    <3>2. Len(K[n]) \in Nat
      BY <2>1
    <3> QED BY <2>1, <2>3, <2>4, <2>6, <3>1, <3>2
  <2>8. CASE n + 1 \in I
    <3> DEFINE a == K[n]
    <3>1. K[n + 1] = Append(a, seq[n + 1]) /\ a \in Seq(Entry)
      BY <2>1, <2>5, <2>8
    <3>2. /\ K[n + 1] \in Seq(Entry) /\ Len(a) \in Nat /\ Len(K[n + 1]) = Len(a) + 1
          /\ DOMAIN K[n + 1] = 1..(Len(a) + 1) /\ DOMAIN a = 1..Len(a)
          /\ K[n + 1][Len(a) + 1] = seq[n + 1] /\ \A j \in 1..Len(a) : K[n + 1][j] = a[j]
      BY <2>3, <3>1
    <3>3. Stored(K[n + 1]) <= Sums(seq)[n + 1]
      BY <2>1, <2>3, <2>4, <2>6, <3>1, StoredAppend
    <3>4. ASSUME NEW j \in DOMAIN K[n + 1]
          PROVE  \E i \in 1..(n + 1) : i \in I /\ K[n + 1][j] = seq[i]
      <4>1. CASE j = Len(a) + 1
        BY <2>2, <2>8, <3>2, <4>1
      <4>2. CASE j \in 1..Len(a)
        <5>3. j \in DOMAIN a
          BY <3>2, <4>2
        <5>1. PICK i \in 1..n : i \in I /\ a[j] = seq[i]
          BY <2>1, <5>3
        <5>2. K[n + 1][j] = a[j] /\ i \in 1..(n + 1)
          BY <3>2, <4>2
        <5> QED BY <5>1, <5>2
      <4>3. \A m \in 1..(Len(a) + 1) : m \in 1..Len(a) \/ m = Len(a) + 1
        BY <3>2
      <4> QED BY <3>2, <4>1, <4>2, <4>3
    <3>5. ASSUME Distinct(seq) PROVE Distinct(K[n + 1])
      <4>1. Distinct(a)
        BY <2>1, <3>5
      <4>2. ASSUME NEW j \in 1..Len(a) PROVE a[j].key # seq[n + 1].key
        <5>1. PICK i \in 1..n : a[j] = seq[i]
          BY <2>1, <3>2
        <5>2. i \in DOMAIN seq /\ n + 1 \in DOMAIN seq /\ i # n + 1
          BY <1>1, <2>2
        <5> QED BY <3>5, <5>1, <5>2 DEF Distinct
      <4>3. ASSUME NEW j \in 1..(Len(a) + 1), NEW k \in 1..(Len(a) + 1),
                   K[n + 1][j].key = K[n + 1][k].key
            PROVE  j = k
        <5>1. CASE j \in 1..Len(a) /\ k \in 1..Len(a)
          BY <3>2, <4>1, <4>3, <5>1 DEF Distinct
        <5>2. CASE j = Len(a) + 1 /\ k \in 1..Len(a)
          BY <3>2, <4>2, <4>3, <5>2
        <5>3. CASE j \in 1..Len(a) /\ k = Len(a) + 1
          BY <3>2, <4>2, <4>3, <5>3
        <5>4. \A m \in 1..(Len(a) + 1) : m \in 1..Len(a) \/ m = Len(a) + 1
          BY <3>2
        <5> QED BY <5>1, <5>2, <5>3, <5>4
      <4> QED BY <3>2, <4>3 DEF Distinct
    <3>6. Len(K[n + 1]) <= n + 1
      BY <2>1, <3>2
    <3> QED BY <3>2, <3>3, <3>4, <3>5, <3>6
  <2> QED BY <2>7, <2>8
<1> HIDE DEF S
<1>4. Len(seq) \in S
  BY <1>1, <1>2, <1>3, NatInduct
<1>5. Part(Len(seq))
  BY <1>1, <1>4 DEF S
<1>6. Kept(seq, I) = K[Len(seq)] /\ Stored(seq) = Sums(seq)[Len(seq)]
  BY KeptAre, SumsAre
<1> HIDE DEF K
<1> QED BY <1>1, <1>5, <1>6

\* A hit moves an entry to the end.
LEMMA MovedIs ==
    ASSUME NEW seq \in Seq(Entry), NEW i \in DOMAIN seq
    PROVE  LET moved == Append(RemoveAt(seq, i), seq[i])
           IN  /\ moved \in Seq(Entry) /\ Len(moved) = Len(seq) /\ Stored(moved) = Stored(seq)
               /\ \A j \in DOMAIN moved : \E k \in DOMAIN seq : moved[j] = seq[k]
               /\ Distinct(seq) => Distinct(moved)
<1> DEFINE a == SubSeq(seq, 1, i - 1)
           b == SubSeq(seq, i + 1, Len(seq))
           v == seq[i]
           moved == Append(RemoveAt(seq, i), v)
<1>1. Len(seq) \in Nat /\ DOMAIN seq = 1..Len(seq) /\ i \in 1..Len(seq) /\ v \in Entry
  OBVIOUS
<1>2. /\ a \in Seq(Entry) /\ Len(a) = i - 1 /\ \A j \in 1..(i - 1) : a[j] = seq[j]
      /\ b \in Seq(Entry) /\ Len(b) = Len(seq) - i
      /\ \A j \in 1..(Len(seq) - i) : b[j] = seq[i + j]
  <2>1. /\ \A j \in 1..(i - 1) : j \in 1..Len(seq)
        /\ \A j \in (i + 1)..Len(seq) : j \in 1..Len(seq)
        /\ i \in Nat /\ 1 <= i /\ i <= Len(seq)
    BY <1>1
  <2>2. /\ a \in Seq(Entry) /\ Len(a) = i - 1 /\ \A j \in 1..(i - 1) : a[j] = seq[j]
    BY <1>1, <2>1
  <2>3. b \in Seq(Entry) /\ Len(b) = Len(seq) - i
    BY <1>1, <2>1
  <2>4. \A j \in 1..(Len(seq) - i) : b[j] = seq[i + j]
    BY <1>1, <2>1
  <2> QED BY <2>2, <2>3, <2>4
<1>3. moved = Append(a \o b, v)
  BY DEF RemoveAt
<1> HIDE DEF a, b, v, moved
<1> DEFINE ab == a \o b
<1>10. /\ ab \in Seq(Entry) /\ Len(ab) = Len(seq) - 1
       /\ \A j \in 1..(Len(seq) - 1) : ab[j] = IF j < i THEN seq[j] ELSE seq[j + 1]
  <2>1. /\ ab \in Seq(Entry) /\ Len(ab) = Len(a) + Len(b)
        /\ \A j \in 1..(Len(a) + Len(b)) : ab[j] = IF j <= Len(a) THEN a[j] ELSE b[j - Len(a)]
    BY <1>2, ConcatProperties
  <2>2. Len(a) + Len(b) = Len(seq) - 1
    BY <1>1, <1>2
  <2>3. ASSUME NEW j \in 1..(Len(seq) - 1)
        PROVE  ab[j] = IF j < i THEN seq[j] ELSE seq[j + 1]
    <3>1. CASE j < i
      BY <1>1, <1>2, <2>1, <2>2, <3>1
    <3>2. CASE ~(j < i)
      <4>1. j - Len(a) \in 1..(Len(seq) - i) /\ i + (j - Len(a)) = j + 1 /\ ~(j <= Len(a))
        BY <1>1, <1>2, <3>2
      <4> QED BY <1>2, <2>1, <2>2, <3>2, <4>1
    <3> QED BY <3>1, <3>2
  <2> QED BY <2>1, <2>2, <2>3
<1> HIDE DEF ab
<1>4. /\ moved \in Seq(Entry) /\ Len(moved) = Len(seq) /\ DOMAIN moved = 1..Len(seq)
      /\ moved[Len(seq)] = v /\ \A j \in 1..(Len(seq) - 1) : moved[j] = ab[j]
  <2>1. moved = Append(ab, v)
    BY <1>3 DEF ab
  <2>2. /\ moved \in Seq(Entry) /\ Len(moved) = Len(ab) + 1
        /\ \A j \in 1..Len(ab) : moved[j] = ab[j]
        /\ moved[Len(ab) + 1] = v
    <3>1. \A s \in Seq(Entry), e \in Entry :
             /\ Append(s, e) \in Seq(Entry) /\ Len(Append(s, e)) = Len(s) + 1
             /\ \A j \in 1..Len(s) : Append(s, e)[j] = s[j]
             /\ Append(s, e)[Len(s) + 1] = e
      BY AppendProperties
    <3> QED BY <1>1, <1>10, <2>1, <3>1, Zenon
  <2>3. Len(ab) + 1 = Len(seq)
    BY <1>1, <1>10
  <2>4. DOMAIN moved = 1..Len(moved)
    BY <2>2
  <2> QED BY <1>10, <2>2, <2>3, <2>4
<1>5. \A j \in 1..Len(seq) : moved[j] = IF j < i THEN seq[j]
                                        ELSE IF j < Len(seq) THEN seq[j + 1] ELSE v
  <2> SUFFICES ASSUME NEW j \in 1..Len(seq)
               PROVE  moved[j] = IF j < i THEN seq[j]
                                 ELSE IF j < Len(seq) THEN seq[j + 1] ELSE v
    OBVIOUS
  <2>1. CASE j = Len(seq)
    BY <1>1, <1>4, <2>1
  <2>2. CASE j # Len(seq)
    <3>4. j \in Nat /\ 1 <= j /\ j <= Len(seq)
      BY <1>1
    <3>1. j \in 1..(Len(seq) - 1) /\ j < Len(seq)
      <4>1. \A n, m \in Nat : 1 <= n /\ n <= m /\ n # m => n \in 1..(m - 1) /\ n < m
        OBVIOUS
      <4> QED BY <1>1, <2>2, <3>4, <4>1
    <3>2. moved[j] = ab[j]
      BY <1>4, <3>1
    <3>3. ab[j] = IF j < i THEN seq[j] ELSE seq[j + 1]
      BY <1>10, <3>1
    <3> QED BY <3>1, <3>2, <3>3
  <2> QED BY <2>1, <2>2
<1> DEFINE av == Append(a, v)
<1>11. /\ av \in Seq(Entry) /\ Len(av) = i
       /\ \A j \in 1..i : av[j] = seq[j]
  <2>1. /\ av \in Seq(Entry) /\ Len(av) = i /\ av[i] = v
        /\ \A j \in 1..(i - 1) : av[j] = a[j]
    BY <1>1, <1>2
  <2> QED BY <1>1, <1>2, <2>1 DEF v
<1> HIDE DEF av
<1>6. seq = av \o b
  <2>1. /\ av \o b \in Seq(Entry) /\ Len(av \o b) = Len(av) + Len(b)
        /\ \A j \in 1..(Len(av) + Len(b)) :
              (av \o b)[j] = IF j <= Len(av) THEN av[j] ELSE b[j - Len(av)]
    <3>1. av \in Seq(Entry) /\ b \in Seq(Entry)
      BY <1>2, <1>11
    <3>2. \A s, t \in Seq(Entry) :
             /\ s \o t \in Seq(Entry) /\ Len(s \o t) = Len(s) + Len(t)
             /\ \A j \in 1..(Len(s) + Len(t)) :
                   (s \o t)[j] = IF j <= Len(s) THEN s[j] ELSE t[j - Len(s)]
      BY ConcatProperties
    <3> HIDE DEF b
    <3> QED BY <3>1, <3>2, Zenon
  <2>2. Len(av) + Len(b) = Len(seq)
    <3>1. \A m, n \in Nat : m + (n - m) = n
      OBVIOUS
    <3>2. i \in Nat /\ Len(seq) \in Nat
      BY <1>1
    <3> QED BY <1>2, <1>11, <3>1, <3>2
  <2>3. ASSUME NEW j \in 1..Len(seq) PROVE (av \o b)[j] = seq[j]
    <3>1. CASE j <= i
      BY <1>1, <1>11, <2>1, <2>2, <3>1
    <3>2. CASE ~(j <= i)
      <4>1. j - i \in 1..(Len(seq) - i) /\ i + (j - i) = j
        BY <1>1, <3>2
      <4> QED BY <1>2, <1>11, <2>1, <2>2, <3>2, <4>1
    <3> QED BY <3>1, <3>2
  <2> QED BY <2>1, <2>2, <2>3, SeqEqual
<1>7. Stored(moved) = Stored(seq)
  <2>1. {Stored(a), Stored(b)} \subseteq Nat /\ v.body.size \in Nat
    BY <1>1, <1>2, StoredType DEF Entry, Body
  <2>2. Stored(seq) = (Stored(a) + v.body.size) + Stored(b)
    <3>1. Stored(seq) = Stored(av) + Stored(b)
      BY <1>2, <1>6, <1>11, StoredConcat
    <3> QED BY <1>1, <1>2, <3>1, StoredAppend DEF av
  <2>3. Stored(moved) = (Stored(a) + Stored(b)) + v.body.size
    <3>1. Stored(moved) = Stored(ab) + v.body.size
      BY <1>1, <1>3, <1>10, StoredAppend DEF ab
    <3> QED BY <1>2, <3>1, StoredConcat DEF ab
  <2> QED BY <2>1, <2>2, <2>3
<1>8. ASSUME NEW j \in DOMAIN moved PROVE \E k \in DOMAIN seq : moved[j] = seq[k]
  <2>1. CASE j < i
    BY <1>1, <1>4, <1>5, <2>1
  <2>2. CASE j >= i /\ j < Len(seq)
    <3>1. j + 1 \in DOMAIN seq
      BY <1>1, <1>4, <2>2
    <3> QED BY <1>1, <1>4, <1>5, <2>2, <3>1
  <2>3. CASE j = Len(seq)
    BY <1>1, <1>4, <1>5, <2>3 DEF v
  <2> QED BY <1>1, <1>4, <2>1, <2>2, <2>3
<1>9. ASSUME Distinct(seq) PROVE Distinct(moved)
  <2> DEFINE from(j) == IF j < i THEN j ELSE IF j < Len(seq) THEN j + 1 ELSE i
  <2>1. \A j \in 1..Len(seq) : from(j) \in 1..Len(seq) /\ moved[j] = seq[from(j)]
    BY <1>1, <1>5 DEF v
  <2>2. ASSUME NEW j \in 1..Len(seq), NEW k \in 1..Len(seq), from(j) = from(k)
        PROVE  j = k
    <3>1. /\ {Len(seq), i, j, k} \subseteq Int
          /\ i <= Len(seq) /\ j <= Len(seq) /\ k <= Len(seq)
      BY <1>1
    <3>2. /\ j < i => from(j) = j
          /\ ~(j < i) /\ j < Len(seq) => from(j) = j + 1
          /\ ~(j < i) /\ ~(j < Len(seq)) => from(j) = i
          /\ k < i => from(k) = k
          /\ ~(k < i) /\ k < Len(seq) => from(k) = k + 1
          /\ ~(k < i) /\ ~(k < Len(seq)) => from(k) = i
      OBVIOUS
    <3> HIDE DEF from
    <3> QED BY <2>2, <3>1, <3>2
  <2> HIDE DEF from
  <2>3. ASSUME NEW j \in 1..Len(seq), NEW k \in 1..Len(seq), moved[j].key = moved[k].key
        PROVE  j = k
    <3>1. seq[from(j)].key = seq[from(k)].key
      BY <2>1, <2>3
    <3>2. from(j) = from(k)
      BY <1>1, <1>9, <2>1, <3>1 DEF Distinct
    <3> QED BY <2>2, <3>2
  <2> QED BY <1>4, <2>3 DEF Distinct
<1> QED BY <1>4, <1>7, <1>8, <1>9 DEF moved, v

\* Evictions leave the youngest entries, as many as the limits allow.
LEMMA EvictedIs ==
    ASSUME NEW seq \in Seq(Entry)
    PROVE  LET rest == Evicted(seq)
           IN  /\ rest \in Seq(Entry) /\ Len(rest) <= MaxEntries /\ Stored(rest) <= MaxBytes
               /\ \A j \in DOMAIN rest : \E k \in DOMAIN seq : rest[j] = seq[k]
               /\ Distinct(seq) => Distinct(rest)
<1>1. Len(seq) \in Nat /\ DOMAIN seq = 1..Len(seq)
  OBVIOUS
<1>2. Len(seq) \in Evictions(seq)
  <2>1. SubSeq(seq, Len(seq) + 1, Len(seq)) = <<>>
    BY <1>1
  <2>2. Len(<<>>) <= MaxEntries /\ Stored(<<>>) <= MaxBytes
    BY StoredEmpty, CacheConstants
  <2>3. Len(seq) \in 0..Len(seq)
    BY <1>1
  <2> QED BY <2>1, <2>2, <2>3 DEF Evictions
<1> DEFINE n == CHOOSE k \in Evictions(seq) : \A m \in Evictions(seq) : k <= m
           rest == SubSeq(seq, n + 1, Len(seq))
<1>3. n \in Evictions(seq)
  <2>1. Evictions(seq) \subseteq Nat
    BY <1>1 DEF Evictions
  <2>2. PICK x \in Evictions(seq) : \A m \in Evictions(seq) : x <= m
    BY <1>2, <2>1, Least
  <2> QED BY <2>2
<1> HIDE DEF n
<1>4. n \in 0..Len(seq) /\ Len(rest) <= MaxEntries /\ Stored(rest) <= MaxBytes
  BY <1>3 DEF Evictions
<1>5. /\ rest \in Seq(Entry) /\ Len(rest) = Len(seq) - n
      /\ \A j \in 1..(Len(seq) - n) : rest[j] = seq[n + j]
  <2>1. n + 1 \in Int /\ Len(seq) \in Int /\ n + 1 <= Len(seq) + 1
        /\ \A j \in (n + 1)..Len(seq) : seq[j] \in Entry
    BY <1>1, <1>4, ElementOfSeq
  <2>2. /\ rest \in Seq(Entry)
        /\ Len(rest) = IF n + 1 <= Len(seq) THEN Len(seq) - (n + 1) + 1 ELSE 0
        /\ \A j \in 1..(Len(seq) - (n + 1) + 1) : rest[j] = seq[(n + 1) + j - 1]
    BY <2>1, SubSeqProperties
  <2> HIDE DEF rest
  <2>3. Len(seq) - (n + 1) + 1 = Len(seq) - n /\ n \in Nat /\ n <= Len(seq)
    BY <1>1, <1>4
  <2>4. Len(rest) = Len(seq) - n
    <3>1. CASE n + 1 <= Len(seq)
      BY <2>2, <2>3, <3>1
    <3>2. CASE ~(n + 1 <= Len(seq))
      <4>1. Len(rest) = 0
        BY <2>2, <3>2
      <4>2. \A m, k \in Nat : k <= m /\ ~(k + 1 <= m) => m - k = 0
        OBVIOUS
      <4>3. Len(seq) - n = 0
        BY <1>1, <2>3, <3>2, <4>2
      <4> QED BY <4>1, <4>3
    <3> QED BY <3>1, <3>2
  <2>5. ASSUME NEW j \in 1..(Len(seq) - n) PROVE rest[j] = seq[n + j]
    <3>1. rest[j] = seq[(n + 1) + j - 1]
      BY <2>2, <2>3
    <3>2. (n + 1) + j - 1 = n + j
      BY <1>1, <2>3
    <3> QED BY <3>1, <3>2
  <2> QED BY <2>2, <2>4, <2>5
<1>6. Evicted(seq) = rest
  BY DEF Evicted, n
<1> HIDE DEF rest
<1>7. ASSUME NEW j \in DOMAIN rest PROVE n + j \in DOMAIN seq /\ rest[j] = seq[n + j]
  BY <1>1, <1>4, <1>5
<1>8. ASSUME Distinct(seq) PROVE Distinct(rest)
  <2> SUFFICES ASSUME NEW j \in DOMAIN rest, NEW k \in DOMAIN rest, rest[j].key = rest[k].key
               PROVE  j = k
    BY DEF Distinct
  <2>1. n + j = n + k
    BY <1>7, <1>8 DEF Distinct
  <2>2. j \in Nat /\ k \in Nat /\ n \in Nat
    BY <1>1, <1>4, <1>5
  <2> QED BY <2>1, <2>2
<1> QED BY <1>4, <1>5, <1>6, <1>7, <1>8

-----------------------------------------------------------------------------
(* Steps that change one request.                                          *)

OneRequest(c, r) == req' = [req EXCEPT ![c] = r]

LEMMA OneRequestKeeps ==
    ASSUME req \in [Clients -> Request], Requests, Fresh, Waiting,
           NEW c \in Clients, NEW r \in Request, OneRequest(c, r),
           UNCHANGED <<now, acked, generation>>,
           RequestOK(r), FreshOK(r), WaitOK(r), r.pc = "joined" => r.of # c,
           \/ ~Computing(c)
           \/ /\ r.pc \in {"queued", "loading", "loaded"} /\ r.key = req[c].key
              /\ r.pc = "loaded" => \A w \in Waiters(c) : r.body.version >= req[w].floor
    PROVE  req' \in [Clients -> Request] /\ Requests' /\ Fresh' /\ Waiting'
<1>1. /\ req' \in [Clients -> Request] /\ req'[c] = r
      /\ \A w \in Clients \ {c} : req'[w] = req[w]
  BY DEF OneRequest
<1>2. ASSUME NEW w \in Clients PROVE RequestOK(req[w])' /\ FreshOK(req[w])'
  <2>1. CASE w = c
    BY <1>1, <2>1 DEF RequestOK, FreshOK
  <2>2. CASE w # c
    BY <1>1, <2>2 DEF Requests, Fresh, RequestOK, FreshOK
  <2> QED BY <2>1, <2>2
<1>3. ASSUME NEW w \in Clients PROVE WaitOK(req[w])'
  <2> SUFFICES ASSUME req'[w].pc = "joined"
               PROVE  /\ req'[w].of \in Clients
                      /\ req'[req'[w].of].pc \in {"queued", "loading", "loaded"}
                      /\ req'[req'[w].of].key = req'[w].key
                      /\ req'[req'[w].of].pc = "loaded" =>
                            req'[req'[w].of].body.version >= req'[w].floor
    BY DEF WaitOK, Computing
  <2>1. CASE w = c
    <3>1. req'[w] = r /\ r.pc = "joined" /\ r.of \in Clients /\ req'[r.of] = req[r.of]
      BY <1>1, <2>1 DEF WaitOK
    <3> QED BY <3>1 DEF WaitOK, Computing
  <2>2. CASE w # c
    <3>1. req'[w] = req[w] /\ WaitOK(req[w])
      BY <1>1, <2>2 DEF Waiting
    <3>2. CASE req[w].of # c
      <4>1. req'[w].of \in Clients /\ req'[req'[w].of] = req[req[w].of]
        BY <1>1, <3>1, <3>2 DEF WaitOK
      <4> QED BY <3>1, <4>1 DEF WaitOK, Computing
    <3>3. CASE req[w].of = c
      <4>1. w \in Waiters(c) /\ Computing(c) /\ req[c].key = req[w].key
        BY <3>1, <3>3 DEF WaitOK, Waiters
      <4>2. req'[w].of = c /\ req'[c] = r
        BY <1>1, <3>1, <3>3
      <4> QED BY <3>1, <4>1, <4>2
    <3> QED BY <3>2, <3>3
  <2> QED BY <2>1, <2>2
<1> QED BY <1>1, <1>2, <1>3 DEF Requests, Fresh, Waiting

LEMMA TableKeeps ==
    ASSUME req \in [Clients -> Request], Table,
           NEW c \in Clients, NEW r \in Request, OneRequest(c, r),
           inflight' = IF r.pc \in Owning THEN inflight \cup {c} ELSE inflight \ {c},
           r.pc \in Owning => \A e \in inflight \ {c} : req[e].key # r.key
    PROVE  Table'
<1>1. /\ req' \in [Clients -> Request] /\ req'[c] = r
      /\ \A w \in Clients \ {c} : req'[w] = req[w]
  BY DEF OneRequest
<1>2. inflight' = {w \in Clients : req'[w].pc \in Owning}
  BY <1>1 DEF Table
<1>3. ASSUME NEW x \in inflight', NEW y \in inflight', req'[x].key = req'[y].key
      PROVE  x = y
  <2>1. CASE x # c /\ y # c
    BY <1>1, <1>2, <1>3, <2>1 DEF Table
  <2>2. CASE x = c /\ y # c
    BY <1>1, <1>2, <1>3, <2>2 DEF Table
  <2>3. CASE x # c /\ y = c
    BY <1>1, <1>2, <1>3, <2>3 DEF Table
  <2> QED BY <2>1, <2>2, <2>3
<1> QED BY <1>2, <1>3 DEF Table

\* ... and leave the cache alone.
LEMMA EntriesKeep ==
    ASSUME req \in [Clients -> Request], Entries, Cached,
           NEW c \in Clients, NEW r \in Request, OneRequest(c, r),
           UNCHANGED <<now, acked, epoch, values, bytes>>,
           r.pc \in {"queued", "loading", "loaded"} => Computing(c) /\ r.key = req[c].key
    PROVE  Entries' /\ Cached'
<1>1. /\ req'[c] = r
      /\ \A w \in Clients \ {c} : req'[w] = req[w]
  BY DEF OneRequest
<1>2. ASSUME NEW i \in DOMAIN values, NEW w \in Clients, Computing(w)'
      PROVE  values[i].key # req'[w].key
  BY <1>1, <1>2 DEF Entries, Computing
<1>3. \A i \in DOMAIN values : EntryOK(values[i])'
  BY DEF Entries, EntryOK
<1> QED BY <1>2, <1>3 DEF Entries, Cached

LEMMA FinitelyMany ==
    ASSUME Table
    PROVE  /\ IsFiniteSet(inflight) /\ Cardinality(inflight) \in Nat
           /\ IsFiniteSet(Loading) /\ Cardinality(Loading) \in Nat
<1>1. inflight \subseteq Clients /\ Loading \subseteq Clients
  BY DEF Table, Loading
<1> QED BY <1>1, CacheConstants, FS_Subset, FS_CardinalityType

\* No more owners and no more loaders than before.
LEMMA CountsKeep ==
    ASSUME Table, Counts, inflight' \subseteq inflight, Loading' \subseteq Loading
    PROVE  Counts'
<1>1. /\ IsFiniteSet(inflight) /\ Cardinality(inflight) \in Nat
      /\ IsFiniteSet(Loading) /\ Cardinality(Loading) \in Nat
  BY FinitelyMany
<1>2. /\ Cardinality(inflight') \in Nat /\ Cardinality(inflight') <= Cardinality(inflight)
      /\ Cardinality(Loading') \in Nat /\ Cardinality(Loading') <= Cardinality(Loading)
  BY <1>1, FS_Subset, FS_CardinalityType
<1>3. MaxInflight \in Nat /\ MaxLoaders \in Nat
  BY CacheConstants
<1>4. Cardinality(inflight)' = Cardinality(inflight')
      /\ Cardinality(Loading)' = Cardinality(Loading')
  OBVIOUS
<1> QED BY <1>1, <1>2, <1>3, <1>4 DEF Counts

-----------------------------------------------------------------------------
(* The other processes.                                                    *)

LEMMA StartInv == ASSUME InitCache PROVE IInv
<1>1. /\ \A d \in Domains : db[d] = 0 /\ acked[d] = 0 /\ notified[d] = None
      /\ \A c \in Clients : req[c] = Idle
  BY DEF InitCache, Nothing
<1>2. Idle \in Request
  BY CacheConstants DEF Idle, Request, NoBody, Body, NoKey, None
<1>3. OtherTypes /\ req \in [Clients -> Request]
  BY <1>2 DEF InitCache, OtherTypes, Revision, Nothing, None
<1>4. Table
  BY <1>1 DEF InitCache, Table, Owning, Idle
<1>5. Cached /\ Entries
  <2>1. values = <<>> /\ <<>> \in Seq(Entry) /\ Len(<<>>) = 0 /\ DOMAIN <<>> = {} /\ bytes = 0
    BY DEF InitCache
  <2> QED BY <2>1, StoredEmpty, CacheConstants DEF InitCache, Cached, Entries, Distinct
<1>6. Counts
  <2>1. inflight = {} /\ Loading = {}
    BY <1>1 DEF InitCache, Loading, Idle
  <2> QED BY <2>1, CacheConstants, FS_EmptySet DEF Counts
<1>7. Requests /\ Fresh /\ Waiting /\ Acknowledged
  <2>1. RequestOK(Idle) /\ FreshOK(Idle) /\ WaitOK(Idle)
    BY CacheConstants DEF RequestOK, FreshOK, WaitOK, Idle
  <2> QED BY <1>1, <2>1 DEF Requests, Fresh, Waiting, Acknowledged
<1> QED BY <1>3, <1>4, <1>5, <1>6, <1>7, Parts

\* A step outside of the service leaves its state alone, time apart.
LEMMA OthersStep ==
    ASSUME IInv, now' \in Nat, now <= now', now \in Nat,
           UNCHANGED <<acked, epoch, generation, values, bytes, inflight, req>>
    PROVE  /\ req' \in [Clients -> Request] /\ Table' /\ Cached' /\ Counts'
           /\ Requests' /\ Fresh' /\ Waiting' /\ Entries'
<1> USE Parts
<1>1. req' \in [Clients -> Request] /\ Table' /\ Cached' /\ Counts'
  BY DEF Table, Cached, Counts, Loading
<1>2. Fresh' /\ Waiting'
  BY DEF Fresh, Waiting, FreshOK, WaitOK, Computing
<1>3. Requests'
  <2>1. ASSUME NEW c \in Clients PROVE RequestOK(req[c])'
    <3>1. RequestOK(req[c])
      BY DEF Requests
    <3>2. req'[c] = req[c] /\ generation' = generation
      OBVIOUS
    <3> QED BY <3>1, <3>2 DEF RequestOK
  <2> QED BY <2>1 DEF Requests
<1>4. ASSUME NEW i \in DOMAIN values' PROVE EntryOK(values[i])'
  <2>1. EntryOK(values[i]) /\ values' = values
    BY DEF Entries
  <2> QED BY <2>1 DEF EntryOK
<1>5. ASSUME NEW i \in DOMAIN values', NEW c \in Clients, Computing(c)'
      PROVE  values'[i].key # req'[c].key
  BY <1>5 DEF Entries, Computing
<1>6. Entries'
  BY <1>4, <1>5 DEF Entries
<1> QED BY <1>1, <1>2, <1>3, <1>6

LEMMA CommitInv ==
    ASSUME IInv, NEW d \in Domains, NEW visible \in BOOLEAN, Commit(d, visible)
    PROVE  IInv'
<1> USE Parts DEF Commit
<1>1. OtherTypes'
  <2>1. db' \in [Domains -> Nat] /\ shown' \in [Domains -> Nat]
    BY DEF OtherTypes
  <2> QED BY <2>1 DEF OtherTypes
<1>2. Acknowledged'
  <2>1. \A e \in Domains : db[e] \in Nat /\ db'[e] \in Nat /\ db[e] <= db'[e]
                           /\ acked[e] \in Nat /\ notified[e] \in Nat \cup {None}
    BY DEF OtherTypes
  <2> QED BY <2>1 DEF Acknowledged, None
<1>3. /\ req' \in [Clients -> Request] /\ Table' /\ Cached' /\ Counts'
      /\ Requests' /\ Fresh' /\ Waiting' /\ Entries'
  BY OthersStep DEF OtherTypes
<1> QED BY <1>1, <1>2, <1>3

LEMMA ReplaceFileInv == ASSUME IInv, ReplaceFile PROVE IInv'
<1> USE Parts DEF ReplaceFile
<1>1. OtherTypes' /\ Acknowledged'
  BY DEF OtherTypes, Acknowledged
<1>3. /\ req' \in [Clients -> Request] /\ Table' /\ Cached' /\ Counts'
      /\ Requests' /\ Fresh' /\ Waiting' /\ Entries'
  BY OthersStep DEF OtherTypes
<1> QED BY <1>1, <1>3

LEMMA TickInv == ASSUME IInv, Tick PROVE IInv'
<1> USE Parts DEF Tick
<1>1. OtherTypes' /\ Acknowledged'
  BY DEF OtherTypes, Acknowledged
<1>2. now \in Nat /\ now' = now + 1
  BY DEF OtherTypes
<1>3. /\ req' \in [Clients -> Request] /\ Table' /\ Cached' /\ Counts'
      /\ Requests' /\ Fresh' /\ Waiting' /\ Entries'
  BY <1>2, OthersStep
<1> QED BY <1>1, <1>3

LEMMA NotifyInv == ASSUME IInv, NEW d \in Domains, Notify(d) PROVE IInv'
<1> USE Parts DEF Notify
<1>1. OtherTypes'
  <2>1. rev' \in Revision /\ notified' \in [Domains -> Nat \cup {None}]
    BY DEF OtherTypes, Revision, None
  <2> QED BY <2>1 DEF OtherTypes
<1>2. Acknowledged'
  <2>1. \A e \in Domains : db[e] \in Nat /\ acked[e] \in Nat
            /\ (notified'[e] = notified[e] \/ (e = d /\ notified'[e] = db[e]))
    BY <1>1 DEF OtherTypes
  <2>2. acked' = acked /\ db' = db /\ acked[d] < db[d]
    OBVIOUS
  <2> SUFFICES ASSUME NEW e \in Domains
               PROVE  /\ acked[e] <= db[e]
                      /\ notified'[e] # None => acked[e] <= notified'[e] /\ notified'[e] <= db[e]
    BY <2>2 DEF Acknowledged
  <2>3. acked[e] <= db[e] /\ (notified[e] # None => acked[e] <= notified[e] /\ notified[e] <= db[e])
    BY DEF Acknowledged
  <2> QED BY <2>1, <2>2, <2>3
<1>3. /\ req' \in [Clients -> Request] /\ Table' /\ Cached' /\ Counts'
      /\ Requests' /\ Fresh' /\ Waiting' /\ Entries'
  BY OthersStep DEF OtherTypes
<1> QED BY <1>1, <1>2, <1>3

LEMMA InvalidateInv == ASSUME IInv, NEW d \in Domains, Invalidate(d) PROVE IInv'
<1> USE Parts DEF Invalidate, Drop
<1> DEFINE Others == {i \in DOMAIN values : values[i].key[1] # d}
<1>1. OtherTypes'
  <2>1. generation' \in [Domains -> Nat] /\ acked' \in [Domains -> Nat]
        /\ notified' \in [Domains -> Nat \cup {None}]
    BY DEF OtherTypes, None
  <2> QED BY <2>1 DEF OtherTypes
<1>2. \A e \in Domains :
         /\ e = d => generation'[e] = generation[e] + 1 /\ acked'[e] = notified[e]
         /\ e # d => generation'[e] = generation[e] /\ acked'[e] = acked[e]
                     /\ notified'[e] = notified[e]
         /\ e = d => notified'[e] = None
         /\ {generation[e], acked[e], acked'[e], db[e]} \subseteq Nat /\ acked[e] <= acked'[e]
  <2>1. acked[d] <= notified[d] /\ acked' \in [Domains -> Nat]
    BY <1>1 DEF Acknowledged, OtherTypes
  <2> QED BY <2>1 DEF OtherTypes
<1>3. Acknowledged'
  BY <1>2 DEF Acknowledged
<1>4. req' \in [Clients -> Request] /\ Table' /\ Counts'
  BY DEF Table, Counts, Loading
<1>5. Cached'
  <2>1. values \in Seq(Entry) /\ bytes = Stored(values)
    BY DEF Cached
  <2>2. /\ values' \in Seq(Entry) /\ Len(values') <= Len(values) /\ Len(values') \in Nat
        /\ Stored(values') <= Stored(values)
        /\ Distinct(values) => Distinct(values')
    BY <2>1, KeptIs DEF OutOfDomain
  <2>3. Stored(values) \in Nat /\ Stored(values') \in Nat /\ Len(values) \in Nat
    BY <2>1, <2>2, StoredType
  <2>4. bytes' = Stored(values')
    BY <2>1, <2>3
  <2>5. MaxBytes \in Nat /\ MaxEntries \in Nat
    BY CacheConstants
  <2>6. Stored(values') = Stored(values)'
    OBVIOUS
  <2> QED BY <2>1, <2>2, <2>3, <2>4, <2>5, <2>6 DEF Cached
<1>6. Requests' /\ Fresh' /\ Waiting'
  <2> SUFFICES ASSUME NEW c \in Clients
               PROVE  RequestOK(req[c])' /\ FreshOK(req[c])' /\ WaitOK(req[c])'
    BY DEF Requests, Fresh, Waiting
  <2>1. req' = req /\ req[c] \in Request
    OBVIOUS
  <2>2. RequestOK(req[c]) /\ FreshOK(req[c]) /\ WaitOK(req[c])
    BY DEF Requests, Fresh, Waiting
  <2>3. req[c].pc # "idle" => req[c].key[1] \in Domains
    BY <2>2 DEF RequestOK, Keys
  <2>4. req[c].floor \in Nat /\ req[c].body.version \in Nat \cup {None}
    BY <2>1 DEF Request, Body
  <2>5. RequestOK(req[c])'
    BY <1>2, <2>1, <2>2, <2>3 DEF RequestOK
  <2>6. FreshOK(req[c])'
    BY <1>2, <2>1, <2>2, <2>3, <2>4 DEF FreshOK, RequestOK, None
  <2>7. WaitOK(req[c])'
    BY <2>1, <2>2 DEF WaitOK, Computing
  <2> QED BY <2>5, <2>6, <2>7
<1>7. Entries'
  <2>1. values \in Seq(Entry)
    BY DEF Cached
  <2>2. ASSUME NEW j \in DOMAIN values'
        PROVE  \E i \in DOMAIN values : i \in Others /\ values'[j] = values[i]
    <3>1. values' = Kept(values, Others)
      BY DEF OutOfDomain
    <3> HIDE DEF Others
    <3> QED BY <2>1, <3>1, KeptIs
  <2>3. ASSUME NEW j \in DOMAIN values' PROVE EntryOK(values[j])'
    <3>1. PICK i \in DOMAIN values : i \in Others /\ values'[j] = values[i]
      BY <2>2
    <3>2. EntryOK(values[i]) /\ values[i].key[1] \in Domains /\ values[i].key[1] # d
      BY <3>1 DEF Entries, EntryOK, Entry, Keys
    <3>3. acked'[values[i].key[1]] = acked[values[i].key[1]]
      BY <1>2, <3>2
    <3> QED BY <3>1, <3>2, <3>3 DEF EntryOK
  <2>4. ASSUME NEW j \in DOMAIN values', NEW c \in Clients, Computing(c)'
        PROVE  values'[j].key # req'[c].key
    <3>1. PICK i \in DOMAIN values : values'[j] = values[i]
      BY <2>2
    <3> QED BY <2>4, <3>1 DEF Entries, Computing
  <2> QED BY <2>3, <2>4 DEF Entries
<1> QED BY <1>1, <1>3, <1>4, <1>5, <1>6, <1>7

-----------------------------------------------------------------------------
(* The request.                                                            *)

LEMMA ObserveInv ==
    ASSUME IInv, NEW c \in Clients, NEW d \in Domains, Observe(c, d)
    PROVE  IInv'
<1> USE Parts DEF Observe
<1> DEFINE k == Key(d, rev'.epoch, rev'.summaries[d], None)
           r == [Idle EXCEPT !.pc = "keyed", !.floor = acked[d], !.key = k]
<1>1. OtherTypes' /\ rev'.epoch \in Nat /\ rev'.summaries[d] \in Nat
  <2>1. rev \in Revision /\ db \in [Domains -> Nat] /\ shown \in [Domains -> Nat] /\ now \in Nat
        /\ now + Window \in Nat
    BY CacheConstants DEF OtherTypes
  <2>2. Nothing \in [Domains -> Nat \cup {None}] /\ db \in [Domains -> Nat \cup {None}]
    BY <2>1 DEF Nothing, None
  <2>3. Opened(rev) \in Revision
    <3>1. CASE ~replaced
      BY <2>1, <3>1 DEF Opened
    <3>2. CASE replaced
      <4>1. Opened(rev) = [rev EXCEPT !.epoch = @ + 1, !.next = 0, !.seen = Nothing,
                                      !.summaries = Nothing]
        BY <3>2 DEF Opened
      <4> DEFINE Seen == [Domains -> Nat \cup {None}]
      <4>2. Nothing \in Seen /\ Revision = [epoch : Nat, next : Nat, seen : Seen, summaries : Seen]
        BY <2>2 DEF Revision
      <4> HIDE DEF Seen
      <4>3. rev.epoch + 1 \in Nat
        BY <2>1 DEF Revision
      <4>4. Opened(rev) = [epoch |-> rev.epoch + 1, next |-> 0, seen |-> Nothing,
                           summaries |-> Nothing]
        BY <2>1, <4>1, <4>2
      <4> QED BY <4>2, <4>3, <4>4
    <3> QED BY <3>1, <3>2
  <2> DEFINE o == Opened(rev)
             e == Checked(o)
  <2>4. e \in Revision
    <3> HIDE DEF o
    <3> QED BY <2>1, <2>2, <2>3 DEF Checked, Revision, o
  <2> HIDE DEF e
  <2>5. rev' = Summarized(e, d)
    BY DEF e
  <2>6. rev' \in Revision
    BY <2>1, <2>4, <2>5 DEF Summarized, Revision
  <2>7. rev'.summaries[d] \in Nat
    BY <2>1, <2>4, <2>5 DEF Summarized, Revision, None
  <2> QED BY <2>6, <2>7 DEF OtherTypes, Revision
<1>2. /\ r \in Request /\ r.pc = "keyed" /\ r.key \in Keys /\ r.key[1] = d
      /\ r.floor = acked[d] /\ r.age = 0 /\ r.of = NoClient
  <2>1. k \in Keys /\ k[1] = d
    BY <1>1 DEF Keys, Key, None
  <2>2. acked[d] \in Nat
    BY DEF OtherTypes
  <2> HIDE DEF k
  <2> QED BY <2>1, <2>2 DEF Idle, Request, NoBody, Body, None
<1>3. OneRequest(c, r)
  BY DEF OneRequest
<1> HIDE DEF r
<1>4. req[c].pc = "idle" /\ req[c].pc \notin Owning /\ ~Computing(c) /\ c \notin inflight
  BY DEF Computing, Owning, Table
<1>5. req' \in [Clients -> Request] /\ Requests' /\ Fresh' /\ Waiting'
  <2>1. RequestOK(r) /\ FreshOK(r) /\ WaitOK(r) /\ r.of # c
    <3>1. acked[d] \in Nat
      BY DEF OtherTypes
    <3> QED BY <1>2, <3>1, CacheConstants DEF RequestOK, FreshOK, WaitOK
  <2> QED BY <1>2, <1>3, <1>4, <2>1, OneRequestKeeps
<1>6. Table'
  <2>1. inflight' = IF r.pc \in Owning THEN inflight \cup {c} ELSE inflight \ {c}
    BY <1>2, <1>4 DEF Owning
  <2>2. r.pc \notin Owning
    BY <1>2 DEF Owning
  <2> QED BY <1>2, <1>3, <2>1, <2>2, TableKeeps
<1>7. Entries' /\ Cached'
  BY <1>2, <1>3, EntriesKeep
<1>8. Counts'
  <2>1. Loading' \subseteq Loading
    BY <1>2, <1>3 DEF OneRequest, Loading
  <2> QED BY <2>1, CountsKeep
<1>9. Acknowledged'
  BY DEF Acknowledged
<1> QED BY <1>1, <1>5, <1>6, <1>7, <1>8, <1>9

\* A request that leaves, whatever it was waiting for: nobody waits for it.
LEMMA LeaveAlone ==
    ASSUME IInv, NEW c \in Clients, ~Computing(c), OneRequest(c, Idle),
           inflight' = inflight \ {c},
           UNCHANGED <<now, db, shown, replaced, rev, notified, acked, epoch, generation,
                       values, bytes>>
    PROVE  IInv'
<1> USE Parts
<1>1. Idle \in Request /\ Idle.pc = "idle" /\ Idle.of = NoClient /\ Idle.age = 0
  BY DEF Idle, Request, NoBody, Body, NoKey, None
<1>2. req' \in [Clients -> Request] /\ Requests' /\ Fresh' /\ Waiting'
  <2>1. RequestOK(Idle) /\ FreshOK(Idle) /\ WaitOK(Idle) /\ Idle.of # c
    BY <1>1, CacheConstants DEF RequestOK, FreshOK, WaitOK
  <2> QED BY <1>1, <2>1, OneRequestKeeps
<1>3. Table'
  <2>1. Idle.pc \notin Owning
    BY <1>1 DEF Owning
  <2> QED BY <1>1, <2>1, TableKeeps
<1>4. Entries' /\ Cached'
  BY <1>1, EntriesKeep
<1>5. Counts'
  <2>1. Loading' \subseteq Loading
    BY <1>1 DEF OneRequest, Loading
  <2> QED BY <2>1, CountsKeep
<1>6. OtherTypes' /\ Acknowledged'
  BY DEF OtherTypes, Acknowledged
<1> QED BY <1>2, <1>3, <1>4, <1>5, <1>6

LEMMA GiveUpInv == ASSUME IInv, NEW c \in Clients, GiveUp(c) PROVE IInv'
<1>1. ~Computing(c) /\ OneRequest(c, Idle)
  BY DEF GiveUp, Computing, OneRequest
<1>2. inflight' = inflight \ {c}
  BY Parts DEF GiveUp, Table, Owning
<1> QED BY <1>1, <1>2, LeaveAlone DEF GiveUp

LEMMA LeaveInv == ASSUME IInv, NEW c \in Clients, Leave(c) PROVE IInv'
<1>1. ~Computing(c) /\ OneRequest(c, Idle)
  BY DEF Leave, Computing, OneRequest
<1> QED BY <1>1, LeaveAlone DEF Leave, Popped

LEMMA ReturnInv == ASSUME IInv, NEW c \in Clients, Return(c) PROVE IInv'
<1>1. ~Computing(c) /\ OneRequest(c, Idle)
  BY DEF Return, Computing, OneRequest
<1>2. inflight' = inflight \ {c}
  BY Parts DEF Return, Table, Owning
<1> QED BY <1>1, <1>2, LeaveAlone DEF Return

LEMMA StartLoadInv == ASSUME IInv, NEW c \in Clients, StartLoad(c) PROVE IInv'
<1> USE Parts DEF StartLoad
<1> DEFINE r == [req[c] EXCEPT !.pc = "loading", !.body.loaded = now]
<1>1. req[c] \in Request /\ req[c].body \in Body /\ now \in Nat /\ RequestOK(req[c])
      /\ FreshOK(req[c]) /\ req[c].pc = "queued"
  BY DEF OtherTypes, Request, Requests, Fresh
<1>2. /\ r \in Request /\ r.pc = "loading" /\ r.key = req[c].key /\ r.age = req[c].age
      /\ r.body.loaded = now /\ r.floor = req[c].floor /\ r.of = req[c].of
  BY <1>1 DEF Request, Body
<1>3. OneRequest(c, r)
  BY DEF OneRequest
<1> HIDE DEF r
<1>5. req' \in [Clients -> Request] /\ Requests' /\ Fresh' /\ Waiting'
  <2>1. RequestOK(r) /\ FreshOK(r) /\ WaitOK(r)
    BY <1>1, <1>2 DEF RequestOK, FreshOK, WaitOK
  <2> QED BY <1>1, <1>2, <1>3, <2>1, OneRequestKeeps
<1>6. Table'
  <2>1. c \in inflight /\ r.pc \in Owning
    BY <1>1, <1>2 DEF Table, Owning
  <2>2. \A e \in inflight \ {c} : req[e].key # r.key
    BY <1>2, <2>1 DEF Table
  <2> QED BY <1>2, <1>3, <2>1, <2>2, TableKeeps
<1>7. Entries' /\ Cached'
  BY <1>1, <1>2, <1>3, EntriesKeep DEF Computing
<1>8. Counts'
  <2>1. Loading' = Loading \cup {c} /\ c \notin Loading
    BY <1>1, <1>2, <1>3 DEF OneRequest, Loading
  <2>2. Cardinality(Loading) \in Nat /\ IsFiniteSet(Loading)
    BY FinitelyMany
  <2>3. Cardinality(Loading \cup {c}) = Cardinality(Loading) + 1
    BY <2>1, <2>2, FS_AddElement
  <2>4. Cardinality(Loading)' = Cardinality(Loading \cup {c}) /\ MaxLoaders \in Nat
    BY <2>1, CacheConstants
  <2>5. Cardinality(inflight)' <= MaxInflight
    BY DEF Counts
  <2> QED BY <2>2, <2>3, <2>4, <2>5 DEF Counts
<1>9. OtherTypes' /\ Acknowledged'
  BY DEF OtherTypes, Acknowledged
<1> QED BY <1>5, <1>6, <1>7, <1>8, <1>9

LEMMA LoadInv ==
    ASSUME IInv, NEW c \in Clients, NEW size \in Sizes, Load(c, size)
    PROVE  IInv'
<1> USE Parts DEF Load
<1> DEFINE d == req[c].key[1]
           r == [req[c] EXCEPT !.pc = "loaded", !.body.size = size, !.body.version = db[d]]
<1>1. /\ req[c] \in Request /\ req[c].body \in Body /\ RequestOK(req[c])
      /\ FreshOK(req[c]) /\ req[c].pc = "loading" /\ size \in Nat
  BY CacheConstants DEF Request, Requests, Fresh
<1>4. /\ d \in Domains /\ db[d] \in Nat /\ acked[d] \in Nat /\ acked[d] <= db[d]
      /\ req[c].floor <= acked[d] /\ req[c].floor \in Nat
  <2>1. d \in Domains
    BY <1>1 DEF RequestOK, Keys
  <2> QED BY <1>1, <2>1 DEF FreshOK, OtherTypes, Acknowledged, Request
<1>2. /\ r \in Request /\ r.pc = "loaded" /\ r.key = req[c].key /\ r.age = req[c].age
      /\ r.body.loaded = req[c].body.loaded /\ r.floor = req[c].floor /\ r.of = req[c].of
      /\ r.body.version = db[d]
  <2> HIDE DEF d
  <2> QED BY <1>1, <1>4 DEF Request, Body
<1>3. OneRequest(c, r)
  BY DEF OneRequest
<1> HIDE DEF r
<1>5. req' \in [Clients -> Request] /\ Requests' /\ Fresh' /\ Waiting'
  <2>1. RequestOK(r) /\ WaitOK(r)
    BY <1>1, <1>2 DEF RequestOK, WaitOK
  <2>2. FreshOK(r)
    BY <1>1, <1>2, <1>4 DEF FreshOK
  <2>3. ASSUME NEW w \in Waiters(c) PROVE r.body.version >= req[w].floor
    <3>1. /\ w \in Clients /\ req[w].key = req[c].key /\ FreshOK(req[w])
          /\ req[w].floor \in Nat /\ req[w].pc = "joined"
      <4>1. Waiting /\ Fresh /\ req \in [Clients -> Request]
        OBVIOUS
      <4> HIDE Parts DEF Load
      <4> QED BY <4>1 DEF Waiters, Waiting, WaitOK, Fresh, Request
    <3> QED BY <1>2, <1>4, <3>1 DEF FreshOK
  <2>4. Computing(c)
    BY <1>1 DEF Computing
  <2> QED BY <1>1, <1>2, <1>3, <2>1, <2>2, <2>3, <2>4, OneRequestKeeps
<1>6. Table'
  <2>1. c \in inflight /\ r.pc \in Owning
    BY <1>1, <1>2 DEF Table, Owning
  <2>2. \A e \in inflight \ {c} : req[e].key # r.key
    BY <1>2, <2>1 DEF Table
  <2> QED BY <1>2, <1>3, <2>1, <2>2, TableKeeps
<1>7. Entries' /\ Cached'
  BY <1>1, <1>2, <1>3, EntriesKeep DEF Computing
<1>8. Counts'
  <2>1. Loading' \subseteq Loading
    BY <1>2, <1>3 DEF OneRequest, Loading
  <2> QED BY <2>1, CountsKeep
<1>9. OtherTypes' /\ Acknowledged'
  BY DEF OtherTypes, Acknowledged
<1> QED BY <1>5, <1>6, <1>7, <1>8, <1>9

LEMMA StoreInv == ASSUME IInv, NEW c \in Clients, Store(c) PROVE IInv'
<1> DEFINE body == req[c].body
           Told(w) == [req[w] EXCEPT !.pc = "answered", !.body = body, !.of = NoClient]
           v == [key |-> req[c].key, body |-> body, deadline |-> DeadlineOf(body)]
<1>10. /\ OtherTypes /\ req \in [Clients -> Request] /\ Table /\ Cached /\ Counts
      /\ Requests /\ Acknowledged /\ Fresh /\ Waiting /\ Entries
  BY Parts
<1>11. UNCHANGED <<now, db, shown, replaced, rev, notified, acked, epoch, generation, inflight>>
  BY DEF Store
<1>1. /\ req[c] \in Request /\ body \in Body /\ RequestOK(req[c]) /\ FreshOK(req[c])
      /\ req[c].pc = "loaded" /\ Computing(c) /\ c \notin Waiters(c)
  BY <1>10 DEF Request, Requests, Fresh, Computing, Waiters, Store
<1>2. /\ req'[c] = [req[c] EXCEPT !.pc = "leaving"]
      /\ \A w \in Waiters(c) : req'[w] = Told(w)
      /\ \A w \in Clients \ {c} : w \notin Waiters(c) => req'[w] = req[w]
  BY <1>1 DEF Waiters, Store
<1>3. ASSUME NEW w \in Clients
      PROVE  /\ req'[w] \in Request /\ req'[w].key = req[w].key
             /\ req'[w].pc \in Owning <=> req[w].pc \in Owning
             /\ Computing(w)' => Computing(w) /\ w # c
             /\ req'[w].pc = "loading" => req[w].pc = "loading"
             /\ RequestOK(req[w])' /\ FreshOK(req[w])' /\ WaitOK(req[w])'
  <2>1. req[w] \in Request /\ RequestOK(req[w]) /\ FreshOK(req[w]) /\ WaitOK(req[w])
    BY <1>10 DEF Requests, Fresh, Waiting
  <2>2. CASE w = c
    <3>1. /\ req'[w] \in Request /\ req'[w].pc = "leaving" /\ req'[w].key = req[w].key
          /\ req'[w].body = req[w].body /\ req'[w].floor = req[w].floor
          /\ req'[w].age = req[w].age
      BY <1>1, <1>2, <2>2 DEF Request
    <3>2. req[w].pc = "loaded"
      BY <1>1, <2>2
    <3>3. RequestOK(req[w])' /\ FreshOK(req[w])' /\ WaitOK(req[w])'
      BY <1>11, <2>1, <3>1, <3>2 DEF RequestOK, FreshOK, WaitOK
    <3> QED BY <3>1, <3>2, <3>3 DEF Owning, Computing
  <2>3. CASE w \in Waiters(c)
    <3>1. req[w].pc = "joined" /\ body.version >= req[w].floor
      BY <1>1, <2>1, <2>3 DEF Waiters, WaitOK
    <3>2. req'[w] = [pc |-> "answered", key |-> req[w].key, of |-> NoClient, body |-> body,
                     floor |-> req[w].floor, age |-> req[w].age]
      <4>1. req'[w] = [req[w] EXCEPT !.pc = "answered", !.body = body, !.of = NoClient]
        BY <1>2, <2>3
      <4> HIDE DEF body
      <4> QED BY <2>1, <4>1 DEF Request
    <3>3. /\ req'[w] \in Request /\ req'[w].pc = "answered" /\ req'[w].key = req[w].key
          /\ req'[w].body = body /\ req'[w].floor = req[w].floor
          /\ req'[w].age = req[w].age
      BY <1>1, <2>1, <3>2 DEF Request
    <3>4. RequestOK(req[w])' /\ FreshOK(req[w])' /\ WaitOK(req[w])'
      BY <1>11, <2>1, <3>1, <3>3 DEF RequestOK, FreshOK, WaitOK
    <3> QED BY <1>1, <2>3, <3>1, <3>3, <3>4 DEF Owning, Computing
  <2>4. CASE w # c /\ w \notin Waiters(c)
    <3>1. req'[w] = req[w]
      BY <1>2, <2>4
    <3>2. RequestOK(req[w])' /\ FreshOK(req[w])'
      BY <1>11, <2>1, <3>1 DEF RequestOK, FreshOK
    <3>3. WaitOK(req[w])'
      <4> SUFFICES ASSUME req[w].pc = "joined"
                   PROVE  /\ req[w].of \in Clients
                          /\ req'[req[w].of] = req[req[w].of]
        BY <2>1, <3>1 DEF WaitOK, Computing
      <4>1. req[w].of \in Clients /\ Computing(req[w].of) /\ req[w].of # c
        BY <2>1, <2>4 DEF WaitOK, Waiters
      <4>2. req[w].of \notin Waiters(c)
        BY <4>1 DEF Computing, Waiters
      <4> QED BY <1>2, <4>1, <4>2
    <3> QED BY <2>1, <2>4, <3>1, <3>2, <3>3 DEF Computing
  <2> QED BY <2>2, <2>3, <2>4
<1>4. req' \in [Clients -> Request] /\ Requests' /\ Fresh' /\ Waiting'
  <2>1. req' = [w \in Clients |-> req'[w]]
    BY DEF Store
  <2> QED BY <1>3, <2>1 DEF Requests, Fresh, Waiting
<1>5. Table'
  <2>1. inflight' = {w \in Clients : req'[w].pc \in Owning}
    BY <1>10, <1>11, <1>3 DEF Table
  <2>2. ASSUME NEW x \in inflight', NEW y \in inflight', req'[x].key = req'[y].key
        PROVE  x = y
    <3>1. x \in inflight /\ y \in inflight /\ x \in Clients /\ y \in Clients
      BY <1>11, <2>1, <2>2
    <3> QED BY <1>10, <1>3, <2>2, <3>1 DEF Table
  <2> QED BY <2>1, <2>2 DEF Table
<1>6. Counts'
  <2>1. Loading' \subseteq Loading
    BY <1>3 DEF Loading
  <2> QED BY <1>10, <1>11, <2>1, CountsKeep
<1>7. OtherTypes' /\ Acknowledged'
  BY <1>10, <1>11 DEF OtherTypes, Acknowledged
<1>8. CASE ~Storable(c)
  <2>1. values' = values /\ bytes' = bytes /\ epoch' = epoch /\ acked' = acked /\ now' = now
    BY <1>11, <1>8 DEF Store
  <2>2. ASSUME NEW i \in DOMAIN values', NEW w \in Clients, Computing(w)'
        PROVE  values'[i].key # req'[w].key
    BY <1>10, <1>3, <2>1, <2>2 DEF Entries
  <2>3. ASSUME NEW i \in DOMAIN values' PROVE EntryOK(values[i])'
    BY <1>10, <2>1 DEF Entries, EntryOK
  <2>4. Entries' /\ Cached'
    BY <1>10, <2>1, <2>2, <2>3 DEF Entries, Cached
  <2> QED BY <1>4, <1>5, <1>6, <1>7, <2>4, Parts
<1>9. CASE Storable(c)
  <2> DEFINE all == Append(values, v)
  <2>1. v \in Entry /\ v.key = req[c].key /\ EntryOK(v)
    <3>1. /\ body.loaded \in Nat /\ body.loaded <= now /\ body.loaded + Ttl \in Nat
          /\ req[c].key \in Keys /\ req[c].key[1] \in Domains
      BY <1>1, <1>10, CacheConstants DEF RequestOK, Keys, OtherTypes
    <3>2. req[c].key[2] = epoch /\ req[c].key[4] = generation[req[c].key[1]]
      BY <1>9 DEF Storable
    <3>3. body.version >= acked[req[c].key[1]] /\ acked[req[c].key[1]] \in Nat
      BY <1>1, <1>10, <3>1, <3>2 DEF FreshOK, OtherTypes
    <3>4. body.version \in Nat
      <4>1. body.version \in Nat \cup {-1}
        BY <1>1 DEF Body, None
      <4> QED BY <3>3, <4>1
    <3>5. v \in Entry
      BY <1>1, <3>1 DEF Entry, DeadlineOf
    <3> QED BY <3>1, <3>2, <3>3, <3>4, <3>5 DEF EntryOK, DeadlineOf
  <2>2. values \in Seq(Entry) /\ Len(values) \in Nat /\ DOMAIN values = 1..Len(values)
    BY <1>10 DEF Cached
  <2> HIDE DEF v
  <2>3. /\ all \in Seq(Entry) /\ DOMAIN all = 1..(Len(values) + 1)
        /\ all[Len(values) + 1] = v /\ \A i \in 1..Len(values) : all[i] = values[i]
    BY <2>1, <2>2
  <2> HIDE DEF all
  <2>4. Distinct(all)
    <3>1. \A i \in 1..Len(values) : values[i].key # v.key
      BY <1>1, <1>10, <2>1, <2>2 DEF Entries
    <3>2. ASSUME NEW i \in 1..(Len(values) + 1), NEW j \in 1..(Len(values) + 1),
                 all[i].key = all[j].key
          PROVE  i = j
      <4>1. CASE i \in 1..Len(values) /\ j \in 1..Len(values)
        BY <1>10, <2>2, <2>3, <3>2, <4>1 DEF Cached, Distinct
      <4>2. CASE i = Len(values) + 1 /\ j \in 1..Len(values)
        BY <2>3, <3>1, <3>2, <4>2
      <4>3. CASE i \in 1..Len(values) /\ j = Len(values) + 1
        BY <2>3, <3>1, <3>2, <4>3
      <4> QED BY <2>2, <4>1, <4>2, <4>3
    <3> QED BY <2>3, <3>2 DEF Distinct
  <2>5. values' = Evicted(all)
    BY <1>9 DEF all, v, Store
  <2>6. /\ values' \in Seq(Entry) /\ Len(values') <= MaxEntries /\ Stored(values') <= MaxBytes
        /\ Distinct(values')
        /\ \A j \in DOMAIN values' : \E i \in DOMAIN all : values'[j] = all[i]
    BY <2>3, <2>4, <2>5, EvictedIs
  <2>7. bytes' = Stored(values')
    <3>1. bytes' = bytes + body.size - (Stored(values) + body.size - Stored(values'))
      BY <1>9 DEF Store
    <3>2. bytes = Stored(values) /\ Stored(values) \in Nat /\ Stored(values') \in Nat
      BY <1>10, <2>2, <2>6, StoredType DEF Cached
    <3>3. body.size \in Nat
      BY <1>1 DEF Body
    <3> QED BY <3>1, <3>2, <3>3
  <2>8. Cached'
    <3>1. Stored(values') \in Nat /\ Stored(values') = Stored(values)'
      BY <2>6, StoredType
    <3> QED BY <1>10, <1>11, <2>6, <2>7, <3>1 DEF Cached
  <2>9. ASSUME NEW j \in DOMAIN values'
        PROVE  /\ EntryOK(values[j])'
               /\ \A w \in Clients : Computing(w)' => values'[j].key # req'[w].key
    <3>1. PICK i \in DOMAIN all : values'[j] = all[i]
      BY <2>6
    <3>2. EntryOK(all[i])
      BY <1>10, <2>1, <2>2, <2>3 DEF Entries
    <3>3. EntryOK(values[j])'
      BY <1>11, <3>1, <3>2 DEF EntryOK
    <3>4. ASSUME NEW w \in Clients, Computing(w)' PROVE all[i].key # req[w].key
      <4>1. Computing(w) /\ w # c
        BY <1>3, <3>4
      <4>2. CASE i \in 1..Len(values)
        BY <1>10, <2>2, <2>3, <4>1, <4>2 DEF Entries
      <4>3. CASE i = Len(values) + 1
        <5>1. w \in inflight /\ c \in inflight
          BY <1>1, <1>10, <4>1 DEF Table, Computing, Owning
        <5> QED BY <1>10, <2>1, <2>3, <4>1, <4>3, <5>1 DEF Table
      <4> QED BY <2>2, <2>3, <4>2, <4>3
    <3> QED BY <1>3, <3>1, <3>3, <3>4
  <2>10. Entries'
    BY <2>9 DEF Entries
  <2> QED BY <1>4, <1>5, <1>6, <1>7, <2>8, <2>10, Parts
<1> QED BY <1>8, <1>9

LEMMA FailInv == ASSUME IInv, NEW c \in Clients, Fail(c) PROVE IInv'
<1> USE Parts DEF Fail, Popped
<1>1. /\ Idle \in Request /\ Idle.pc = "idle" /\ Idle.age = 0
      /\ RequestOK(Idle) /\ FreshOK(Idle)
  BY CacheConstants DEF Idle, Request, NoBody, Body, NoKey, None, RequestOK, FreshOK
<1>2. Computing(c) /\ c \in inflight
  BY DEF Computing, Table, Owning
<1>3. /\ \A w \in Settled(c) \cap Clients : req'[w] = Idle
      /\ \A w \in Clients \ Settled(c) : req'[w] = req[w]
  OBVIOUS
<1>4. ASSUME NEW w \in Clients
      PROVE  /\ req'[w] \in Request
             /\ req'[w].pc \in Owning <=> req[w].pc \in Owning /\ w # c
             /\ req'[w].pc \in Owning => req'[w] = req[w]
             /\ RequestOK(req[w])' /\ FreshOK(req[w])' /\ WaitOK(req[w])'
  <2>1. req[w] \in Request /\ RequestOK(req[w]) /\ FreshOK(req[w]) /\ WaitOK(req[w])
    BY DEF Requests, Fresh, Waiting
  <2>2. CASE w \in Settled(c)
    <3>1. req'[w] = Idle /\ (w = c \/ req[w].pc = "joined")
      BY <1>3, <2>2 DEF Settled, Waiters
    <3>2. RequestOK(req[w])' /\ FreshOK(req[w])' /\ WaitOK(req[w])'
      BY <1>1, <3>1 DEF RequestOK, FreshOK, WaitOK
    <3> QED BY <1>1, <3>1, <3>2 DEF Owning
  <2>3. CASE w \notin Settled(c)
    <3>1. req'[w] = req[w] /\ w # c /\ w \notin Waiters(c)
      BY <1>3, <2>3 DEF Settled
    <3>2. RequestOK(req[w])' /\ FreshOK(req[w])'
      BY <2>1, <3>1 DEF RequestOK, FreshOK
    <3>3. WaitOK(req[w])'
      <4> SUFFICES ASSUME req[w].pc = "joined"
                   PROVE  /\ req[w].of \in Clients
                          /\ req'[req[w].of] = req[req[w].of]
        BY <2>1, <3>1 DEF WaitOK, Computing
      <4>1. req[w].of \in Clients /\ Computing(req[w].of) /\ req[w].of # c
        BY <2>1, <3>1 DEF WaitOK, Waiters
      <4>2. req[w].of \notin Settled(c)
        BY <4>1 DEF Computing, Waiters, Settled
      <4> QED BY <1>3, <4>1, <4>2
    <3> QED BY <2>1, <3>1, <3>2, <3>3
  <2> QED BY <2>2, <2>3
<1>5. req' \in [Clients -> Request] /\ Requests' /\ Fresh' /\ Waiting'
  <2>1. req' = [w \in Clients |-> req'[w]]
    OBVIOUS
  <2> QED BY <1>4, <2>1 DEF Requests, Fresh, Waiting
<1>6. Table'
  BY <1>4 DEF Table
<1>7. Counts'
  <2>1. Loading' \subseteq Loading
    BY <1>4 DEF Loading, Owning
  <2> QED BY <2>1, CountsKeep
<1>8. OtherTypes' /\ Acknowledged' /\ Cached'
  BY DEF OtherTypes, Acknowledged, Cached
<1>9. Entries'
  <2>1. ASSUME NEW i \in DOMAIN values', NEW w \in Clients, Computing(w)'
        PROVE  values'[i].key # req'[w].key
    <3>1. req'[w] = req[w]
      BY <1>4, <2>1 DEF Computing, Owning
    <3> QED BY <2>1, <3>1 DEF Entries, Computing
  <2>2. ASSUME NEW i \in DOMAIN values' PROVE EntryOK(values[i])'
    BY DEF Entries, EntryOK
  <2> QED BY <2>1, <2>2 DEF Entries
<1> QED BY <1>5, <1>6, <1>7, <1>8, <1>9

\* What the section under the cache lock cleans up first: everything of another
\* epoch, then everything expired.
LEMMA CleanedIs ==
    ASSUME IInv, NEW e \in Nat
    PROVE  LET kept == Unexpired(Epochal(e))
           IN  /\ kept.values \in Seq(Entry) /\ kept.bytes = Stored(kept.values)
               /\ kept.bytes \in Nat /\ kept.bytes <= MaxBytes
               /\ Len(kept.values) <= MaxEntries /\ Distinct(kept.values)
               /\ \A j \in DOMAIN kept.values :
                     /\ kept.values[j].key[2] = e /\ kept.values[j].deadline > now
                     /\ \E i \in DOMAIN values : kept.values[j] = values[i]
<1> DEFINE all == Epochal(e).values
           I == {i \in DOMAIN all : all[i].deadline > now}
           live == Kept(all, I)
           kept == Unexpired(Epochal(e))
<1>1. /\ values \in Seq(Entry) /\ bytes = Stored(values) /\ bytes <= MaxBytes
      /\ Len(values) <= MaxEntries /\ Distinct(values) /\ Entries
  BY Parts DEF Cached
<1>2. /\ all \in Seq(Entry) /\ Epochal(e).bytes = Stored(all) /\ Stored(all) <= MaxBytes
      /\ Len(all) <= MaxEntries /\ Distinct(all)
      /\ \A i \in DOMAIN all : all[i].key[2] = e /\ \E h \in DOMAIN values : all[i] = values[h]
  <2>1. CASE e = epoch
    <3>1. all = values /\ Epochal(e).bytes = bytes
      BY <2>1 DEF Epochal
    <3>2. \A i \in DOMAIN values : values[i].key[2] = e
      BY <1>1, <2>1 DEF Entries, EntryOK
    <3> QED BY <1>1, <3>1, <3>2
  <2>2. CASE e # epoch
    <3>1. all = <<>> /\ Epochal(e).bytes = 0
      BY <2>2 DEF Epochal
    <3>2. <<>> \in Seq(Entry) /\ Len(<<>>) = 0 /\ DOMAIN <<>> = {} /\ Distinct(<<>>)
      BY DEF Distinct
    <3>3. 0 <= MaxBytes /\ 0 <= MaxEntries
      BY CacheConstants
    <3> HIDE DEF all
    <3> QED BY <3>1, <3>2, <3>3, StoredEmpty
  <2> QED BY <2>1, <2>2
<1>3. kept = [values |-> live, bytes |-> Epochal(e).bytes - (Stored(all) - Stored(live))]
  BY DEF Unexpired
<1> HIDE DEF all, kept
<1>4. /\ live \in Seq(Entry) /\ Len(live) <= Len(all) /\ Stored(live) <= Stored(all)
      /\ \A j \in DOMAIN live : \E i \in DOMAIN all : i \in I /\ live[j] = all[i]
      /\ Distinct(live)
  <2> HIDE DEF I
  <2> QED BY <1>2, KeptIs
<1>5. \A j \in DOMAIN live :
         /\ live[j].key[2] = e /\ live[j].deadline > now
         /\ \E i \in DOMAIN values : live[j] = values[i]
  <2> SUFFICES ASSUME NEW j \in DOMAIN live
               PROVE  /\ live[j].key[2] = e /\ live[j].deadline > now
                      /\ \E i \in DOMAIN values : live[j] = values[i]
    OBVIOUS
  <2>1. PICK i \in DOMAIN all : i \in I /\ live[j] = all[i]
    BY <1>4
  <2> HIDE DEF live
  <2> QED BY <1>2, <2>1
<1> HIDE DEF live
<1>6. /\ Stored(live) \in Nat /\ Stored(all) \in Nat /\ Len(live) \in Nat /\ Len(all) \in Nat
      /\ MaxBytes \in Nat /\ MaxEntries \in Nat
  BY <1>2, <1>4, StoredType, CacheConstants
<1>7. kept.values = live /\ kept.bytes = Stored(live)
  BY <1>2, <1>3, <1>6
<1> HIDE DEF I
<1>8. Stored(live) <= MaxBytes /\ Len(live) <= MaxEntries
  BY <1>2, <1>4, <1>6
<1> QED BY <1>4, <1>5, <1>6, <1>7, <1>8 DEF kept

LEMMA LookupInv == ASSUME IInv, NEW c \in Clients, Lookup(c) PROVE IInv'
<1> DEFINE k == req[c].key
           r == Keyed(c)
           kept == Unexpired(Epochal(r.key[2]))
           hits == {i \in DOMAIN kept.values : kept.values[i].key = r.key}
<1>1. /\ OtherTypes /\ req \in [Clients -> Request] /\ Table /\ Cached /\ Counts
      /\ Requests /\ Acknowledged /\ Fresh /\ Waiting /\ Entries
  BY Parts
<1>2. /\ req[c] \in Request /\ req[c].pc = "keyed" /\ ~Computing(c) /\ c \notin inflight
      /\ RequestOK(req[c]) /\ FreshOK(req[c]) /\ k \in Keys
  BY <1>1 DEF Lookup, Requests, Fresh, RequestOK, Table, Owning, Computing
<1>3. UNCHANGED <<now, db, shown, replaced, rev, notified, acked, generation>>
  BY DEF Lookup
<1>4. /\ r = [req[c] EXCEPT !.key = <<k[1], k[2], k[3], generation[k[1]]>>]
      /\ k[1] \in Domains /\ k[2] \in Nat /\ k[3] \in Nat /\ generation[k[1]] \in Nat
  BY <1>1, <1>2 DEF Keyed, Key, Keys, OtherTypes
<1>5. /\ r \in Request /\ r.key \in Keys /\ r.key[1] = k[1] /\ r.key[2] = k[2]
      /\ r.key[4] = generation[k[1]] /\ r.pc = "keyed" /\ r.floor = req[c].floor
      /\ r.body = req[c].body /\ r.age = req[c].age /\ r.of = req[c].of
  <2>1. <<k[1], k[2], k[3], generation[k[1]]>> \in Keys
    BY <1>4 DEF Keys
  <2> QED BY <1>2, <1>4, <2>1 DEF Request
<1>6. /\ acked[k[1]] \in Nat /\ r.floor \in Nat /\ r.floor <= acked[r.key[1]]
      /\ r.age \in Nat /\ r.age < Ttl
  BY <1>1, <1>2, <1>4, <1>5 DEF OtherTypes, FreshOK, RequestOK, Request
<1>7. /\ kept.values \in Seq(Entry) /\ kept.bytes = Stored(kept.values)
      /\ kept.bytes \in Nat /\ kept.bytes <= MaxBytes
      /\ Len(kept.values) <= MaxEntries /\ Distinct(kept.values)
      /\ \A j \in DOMAIN kept.values :
            /\ kept.values[j].key[2] = r.key[2] /\ kept.values[j].deadline > now
            /\ \E i \in DOMAIN values : kept.values[j] = values[i]
  <2>1. r.key[2] \in Nat
    BY <1>4, <1>5
  <2> HIDE DEF r
  <2> QED BY <2>1, CleanedIs
<1>8. /\ epoch' = r.key[2] /\ bytes' = kept.bytes
      /\ \/ \E i \in hits : Hit(c, r, i, kept)
         \/ /\ hits = {} /\ values' = kept.values
            /\ \/ \E o \in Owner(r.key) : Join(c, r, o)
               \/ Owner(r.key) = {} /\ Cardinality(inflight) < MaxInflight /\ Own(c, r)
               \/ Owner(r.key) = {} /\ Cardinality(inflight) >= MaxInflight /\ Refuse(c)
  BY DEF Lookup
<1> HIDE DEF k, r, kept, hits
<1>9. OtherTypes' /\ Acknowledged'
  BY <1>1, <1>3 DEF OtherTypes, Acknowledged
\* What is in the cache was there, and is as it should be.
<1>10. ASSUME NEW j \in DOMAIN kept.values, NEW v, v = kept.values[j]
       PROVE  /\ EntryOK(v)' /\ v.body.loaded + Ttl > now
              /\ \A w \in Clients : Computing(w) => v.key # req[w].key
  <2>1. PICK i \in DOMAIN values : v = values[i]
    BY <1>7, <1>10
  <2>2. EntryOK(v)
    BY <1>1, <2>1 DEF Entries
  <2>3. v.key[2] = epoch' /\ v.deadline > now
    BY <1>7, <1>8, <1>10
  <2>4. EntryOK(v)'
    BY <1>3, <2>2, <2>3 DEF EntryOK
  <2>5. v.body.loaded + Ttl > now
    BY <2>2, <2>3 DEF EntryOK
  <2>6. \A w \in Clients : Computing(w) => v.key # req[w].key
    BY <1>1, <2>1 DEF Entries
  <2> QED BY <2>4, <2>5, <2>6
<1>11. ASSUME NEW r1 \in Request, OneRequest(c, r1),
              RequestOK(r1), FreshOK(r1), WaitOK(r1), r1.pc = "joined" => r1.of # c,
              inflight' = IF r1.pc \in Owning THEN inflight \cup {c} ELSE inflight \ {c},
              r1.pc \in Owning => Owner(r1.key) = {},
              r1.pc \in {"queued", "loading", "loaded"} =>
                 \A j \in DOMAIN kept.values : kept.values[j].key # r1.key,
              r1.pc # "loading", Cardinality(inflight') <= MaxInflight,
              values' \in Seq(Entry), Len(values') <= MaxEntries,
              Stored(values') = kept.bytes, Distinct(values'),
              \A j \in DOMAIN values' : \E i \in DOMAIN kept.values : values'[j] = kept.values[i]
       PROVE  IInv'
  <2>1. req' \in [Clients -> Request] /\ Requests' /\ Fresh' /\ Waiting'
    BY <1>1, <1>2, <1>3, <1>11, OneRequestKeeps
  <2>2. Table'
    <3>1. \A e \in inflight \ {c} : r1.pc \in Owning => req[e].key # r1.key
      BY <1>11 DEF Owner
    <3> QED BY <1>1, <1>11, <3>1, TableKeeps
  <2>3. Cached'
    <3>1. epoch' \in Nat /\ Stored(values)' = Stored(values')
      BY <1>4, <1>5, <1>8
    <3> QED BY <1>7, <1>8, <1>11, <3>1 DEF Cached
  <2>4. Counts'
    <3>1. req'[c] = r1 /\ \A w \in Clients \ {c} : req'[w] = req[w]
      BY <1>1, <1>11 DEF OneRequest
    <3>2. Loading' \subseteq Loading
      BY <1>11, <3>1 DEF Loading
    <3>3. IsFiniteSet(Loading) /\ Cardinality(Loading) \in Nat /\ MaxLoaders \in Nat
      BY <1>1, FinitelyMany, CacheConstants
    <3>4. Cardinality(Loading') \in Nat /\ Cardinality(Loading') <= Cardinality(Loading)
      BY <3>2, <3>3, FS_Subset, FS_CardinalityType
    <3>5. Cardinality(Loading)' = Cardinality(Loading')
          /\ Cardinality(inflight)' = Cardinality(inflight')
      OBVIOUS
    <3>6. Cardinality(Loading) <= MaxLoaders
      BY <1>1 DEF Counts
    <3>7. Cardinality(Loading)' <= MaxLoaders
      BY <3>3, <3>4, <3>5, <3>6
    <3> QED BY <1>11, <3>5, <3>7 DEF Counts
  <2>5. ASSUME NEW j \in DOMAIN values'
        PROVE  /\ EntryOK(values[j])'
               /\ \A w \in Clients : Computing(w)' => values'[j].key # req'[w].key
    <3>1. PICK i \in DOMAIN kept.values : values'[j] = kept.values[i]
      BY <1>11
    <3>2. EntryOK(values[j])'
      BY <1>10, <3>1
    <3>3. req'[c] = r1 /\ \A w \in Clients \ {c} : req'[w] = req[w]
      BY <1>1, <1>11 DEF OneRequest
    <3>4. ASSUME NEW w \in Clients, Computing(w)' PROVE values'[j].key # req'[w].key
      <4>1. CASE w = c
        BY <1>11, <3>1, <3>3, <3>4, <4>1 DEF Computing
      <4>2. CASE w # c
        <5>1. Computing(w) /\ req'[w] = req[w]
          BY <3>3, <3>4, <4>2 DEF Computing
        <5> QED BY <1>10, <3>1, <5>1
      <4> QED BY <4>1, <4>2
    <3> QED BY <3>2, <3>4
  <2>6. Entries'
    BY <2>5 DEF Entries
  <2> QED BY <1>9, <2>1, <2>2, <2>3, <2>4, <2>6, Parts
<1>12. Cardinality(inflight) <= MaxInflight /\ inflight \ {c} = inflight
       /\ \A x : x \notin Owning => x \notin {"queued", "loading", "loaded"}
  BY <1>1, <1>2 DEF Counts, Owning
\* One case for every way the section ends.
<1>13. ASSUME NEW i \in hits, Hit(c, r, i, kept) PROVE IInv'
  <2> DEFINE v == kept.values[i]
             age == now - v.body.loaded
             r1 == [r EXCEPT !.pc = "answered", !.body = v.body, !.age = age]
  <2>1. i \in DOMAIN kept.values /\ v.key = r.key
    BY DEF hits
  <2>2. /\ v \in Entry /\ v.body.version >= acked[r.key[1]] /\ v.body.loaded \in Nat
        /\ v.body.loaded <= now /\ v.body.loaded + Ttl > now /\ v.body \in Body
    <3>1. ASSUME NEW x, x = v
          PROVE  /\ x \in Entry /\ x.body.version >= acked[x.key[1]] /\ x.body.loaded \in Nat
                 /\ x.body.loaded <= now /\ x.body.loaded + Ttl > now /\ x.body \in Body
      <4>1. EntryOK(x)' /\ x.body.loaded + Ttl > now
        BY <1>10, <2>1, <3>1
      <4> QED BY <1>3, <4>1 DEF EntryOK, Entry
    <3> QED BY <2>1, <3>1
  <2>3. age \in Nat /\ age < Ttl
    BY <1>1, <2>2, CacheConstants DEF OtherTypes
  <2>4. OneRequest(c, r1) /\ inflight' = inflight /\ values' = Append(RemoveAt(kept.values, i), v)
    BY <1>13 DEF Hit, OneRequest
  <2> HIDE DEF age, v
  <2>5. /\ r1 \in Request /\ r1.pc = "answered" /\ r1.body = v.body /\ r1.age = age
        /\ r1.key = r.key /\ r1.floor = r.floor
    BY <1>5, <2>2, <2>3 DEF Request
  <2> HIDE DEF r1
  <2>6. RequestOK(r1) /\ WaitOK(r1) /\ r1.pc \notin Owning
    BY <1>5, <2>3, <2>5, <1>4 DEF RequestOK, WaitOK, Owning
  <2>7. FreshOK(r1)
    <3>1. v.body.version >= r.floor
      <4>1. v.body.version \in Nat \cup {-1} /\ acked[r.key[1]] \in Nat
        BY <1>5, <1>6, <2>2 DEF Body, None
      <4> QED BY <1>6, <2>2, <4>1
    <3> QED BY <1>6, <2>5, <3>1 DEF FreshOK
  <2>8. /\ values' \in Seq(Entry) /\ Len(values') = Len(kept.values)
        /\ Stored(values') = Stored(kept.values) /\ Distinct(values')
        /\ \A j \in DOMAIN values' : \E h \in DOMAIN kept.values : values'[j] = kept.values[h]
    BY <1>7, <2>1, <2>4, MovedIs DEF v
  <2> QED BY <1>7, <1>11, <1>12, <2>4, <2>5, <2>6, <2>7, <2>8
<1>14. ASSUME NEW o \in Owner(r.key), Join(c, r, o), values' = kept.values PROVE IInv'
  <2>1. /\ o \in Clients /\ o \in inflight /\ req[o].pc \in Owning /\ req[o].key = r.key /\ o # c
        /\ req[o] \in Request /\ FreshOK(req[o])
    BY <1>1, <1>2 DEF Owner, Table, Fresh
  <2>2. /\ req[o].body \in Body /\ req[o].body.version \in Nat \cup {-1}
        /\ acked[r.key[1]] \in Nat
        /\ req[o].pc \in {"loaded", "leaving"} => req[o].body.version >= r.floor
    <3>1. req[o].body \in Body /\ req[o].body.version \in Nat \cup {-1}
          /\ acked[r.key[1]] \in Nat
      BY <1>5, <1>6, <2>1 DEF Request, Body, None
    <3>2. req[o].pc \in {"loaded", "leaving"} => req[o].body.version >= acked[r.key[1]]
      BY <1>5, <2>1 DEF FreshOK
    <3> QED BY <1>6, <3>1, <3>2
  <2>3. CASE req[o].pc = "leaving"
    <3> DEFINE body == req[o].body
               r1 == [r EXCEPT !.pc = "answered", !.body = body]
    <3>1. OneRequest(c, r1) /\ inflight' = inflight
      BY <1>14, <2>3 DEF Join, OneRequest
    <3>2. body \in Body /\ body.version >= r.floor
      BY <2>2, <2>3
    <3> HIDE DEF body
    <3>3. /\ r1 \in Request /\ r1.pc = "answered" /\ r1.body = body /\ r1.age = r.age
          /\ r1.key = r.key /\ r1.floor = r.floor
      BY <1>5, <3>2 DEF Request
    <3> HIDE DEF r1
    <3>4. RequestOK(r1) /\ WaitOK(r1) /\ FreshOK(r1) /\ r1.pc \notin Owning
      BY <1>4, <1>5, <1>6, <3>2, <3>3 DEF RequestOK, WaitOK, FreshOK, Owning
    <3> QED BY <1>7, <1>11, <1>12, <1>14, <3>1, <3>3, <3>4
  <2>4. CASE req[o].pc # "leaving"
    <3> DEFINE r1 == [r EXCEPT !.pc = "joined", !.of = o]
    <3>1. OneRequest(c, r1) /\ inflight' = inflight
      BY <1>14, <2>4 DEF Join, OneRequest
    <3>2. /\ r1 \in Request /\ r1.pc = "joined" /\ r1.of = o /\ r1.age = r.age
          /\ r1.key = r.key /\ r1.floor = r.floor
      BY <1>5, <2>1 DEF Request
    <3> HIDE DEF r1
    <3>3. RequestOK(r1) /\ FreshOK(r1) /\ r1.pc \notin Owning
      BY <1>4, <1>5, <1>6, <3>2 DEF RequestOK, FreshOK, Owning
    <3>4. WaitOK(r1)
      BY <2>1, <2>2, <2>4, <3>2 DEF WaitOK, Computing, Owning
    <3> QED BY <1>7, <1>11, <1>12, <1>14, <2>1, <3>1, <3>2, <3>3, <3>4
  <2> QED BY <2>3, <2>4
<1>15. ASSUME hits = {}, Owner(r.key) = {}, Cardinality(inflight) < MaxInflight, Own(c, r),
              values' = kept.values
       PROVE  IInv'
  <2> DEFINE r1 == [r EXCEPT !.pc = "queued"]
  <2>1. OneRequest(c, r1) /\ inflight' = inflight \cup {c}
    BY <1>15 DEF Own, OneRequest
  <2>2. /\ r1 \in Request /\ r1.pc = "queued" /\ r1.age = r.age
        /\ r1.key = r.key /\ r1.floor = r.floor
    BY <1>5 DEF Request
  <2> HIDE DEF r1
  <2>3. RequestOK(r1) /\ FreshOK(r1) /\ WaitOK(r1) /\ r1.pc \in Owning
    BY <1>4, <1>5, <1>6, <2>2 DEF RequestOK, FreshOK, WaitOK, Owning
  <2>4. Cardinality(inflight') <= MaxInflight
    <3>1. IsFiniteSet(inflight) /\ Cardinality(inflight) \in Nat /\ MaxInflight \in Nat
      BY <1>1, FinitelyMany, CacheConstants
    <3>2. Cardinality(inflight \cup {c}) = Cardinality(inflight) + 1
      BY <1>2, <3>1, FS_AddElement
    <3> QED BY <1>15, <2>1, <3>1, <3>2
  <2>5. \A j \in DOMAIN kept.values : kept.values[j].key # r1.key
    BY <1>15, <2>2 DEF hits
  <2> QED BY <1>7, <1>11, <1>15, <2>1, <2>2, <2>3, <2>4, <2>5
<1>16. ASSUME Refuse(c), values' = kept.values PROVE IInv'
  <2>1. /\ Idle \in Request /\ Idle.pc = "idle" /\ Idle.age = 0 /\ Idle.pc \notin Owning
        /\ RequestOK(Idle) /\ FreshOK(Idle) /\ WaitOK(Idle)
    BY CacheConstants
       DEF Idle, Request, NoBody, Body, NoKey, None, RequestOK, FreshOK, WaitOK, Owning
  <2>2. OneRequest(c, Idle) /\ inflight' = inflight
    BY <1>16 DEF Refuse, OneRequest
  <2> QED BY <1>7, <1>11, <1>12, <1>16, <2>1, <2>2
<1> QED BY <1>8, <1>13, <1>14, <1>15, <1>16

-----------------------------------------------------------------------------
(* The theorems.                                                           *)

\* The invariant of the read cache is inductive: no step of a request, of the
\* gateway's invalidations or of the writer breaks it.
THEOREM Inductive == CacheSpec => []IInv
<1>1. InitCache => IInv
  BY StartInv
<1>2. IInv /\ [NextCache]_cacheVars => IInv'
  <2> SUFFICES ASSUME IInv, [NextCache]_cacheVars PROVE IInv'
    OBVIOUS
  <2>1. CASE UNCHANGED cacheVars
    BY <2>1 DEF cacheVars, IInv, CacheTypeOK, Requests, Acknowledged, Fresh, Waiting, Entries,
                CacheIsBounded, RequestOK, FreshOK, WaitOK, EntryOK, Computing, Loading
  <2>2. CASE NextCache
    <3>1. ASSUME NEW d \in Domains,
                 (\E visible \in BOOLEAN : Commit(d, visible)) \/ Notify(d) \/ Invalidate(d)
          PROVE  IInv'
      BY <3>1, CommitInv, NotifyInv, InvalidateInv
    <3>2. ASSUME NEW c \in Clients,
                 (\E d \in Domains : Observe(c, d)) \/ Proceed(c) \/ GiveUp(c)
          PROVE  IInv'
      BY <3>2, ObserveInv, GiveUpInv, LookupInv, StoreInv, LeaveInv, ReturnInv, StartLoadInv,
         LoadInv, FailInv DEF Proceed
    <3> QED BY <2>2, <3>1, <3>2, ReplaceFileInv, TickInv DEF NextCache
  <2> QED BY <2>1, <2>2
<1> QED BY <1>1, <1>2, PTL DEF CacheSpec

\* The variables keep their types and the table of computations is exact: two
\* threads never compute one key (read_cache.py:233-292).
THEOREM TypeCorrect == CacheSpec => []CacheTypeOK
<1>1. IInv => CacheTypeOK
  BY DEF IInv
<1> QED BY <1>1, Inductive, PTL

\* No request that began after an invalidation was acknowledged is answered with
\* data from before the write, on any of the three ways it can get an answer
\* (read_cache.py:214-221, :233-256, :276-281).
THEOREM Freshness == CacheSpec => []AcknowledgedIsFresh
<1>1. IInv => AcknowledgedIsFresh
  BY DEF IInv, Fresh, FreshOK, AcknowledgedIsFresh, Answered
<1> QED BY <1>1, Inductive, PTL

\* A computation that an invalidation overtook does not bring old data back
\* (read_cache.py:276-279).
THEOREM OldStaysOut == CacheSpec => []OldDataStaysOut
<1>1. IInv => OldDataStaysOut
  BY DEF IInv, Entries, EntryOK, OldDataStaysOut
<1> QED BY <1>1, Inductive, PTL

\* The byte counter is the size of what is stored, and no limit is exceeded
\* (read_cache.py:214-231, :236-239, :278-284).
THEOREM Bounded == CacheSpec => []CacheIsBounded
<1>1. IInv => CacheIsBounded
  BY DEF IInv
<1> QED BY <1>1, Inductive, PTL

\* What a hit returns is younger than the time to live, counted from the start of
\* its computation (read_cache.py:227-231, :278).
THEOREM YoungHits == CacheSpec => []HitsAreYoung
<1>1. IInv => HitsAreYoung
  BY DEF IInv, Requests, RequestOK, HitsAreYoung
<1> QED BY <1>1, Inductive, PTL

-----------------------------------------------------------------------------
(* The contract.  A step of the cache is one of the contract for the       *)
(* requests whose reading changes; what they are answered with is from a   *)
(* computation or from the cache, and all of that was committed.           *)

\* The contents of a body were committed.
CommittedOK(r) ==
    r.pc \in {"loaded", "leaving", "answered"} => r.body.version <= db[r.key[1]]

Committed ==
    /\ \A i \in DOMAIN values : values[i].body.version <= db[values[i].key[1]]
    /\ \A c \in Clients : CommittedOK(req[c])

LEMMA ReadIs ==
    ASSUME NEW r
    PROVE  /\ r.pc = "idle" => ReadOf(r) = Reads!Quiet
           /\ r.pc \in {"answered", "leaving"} =>
                 ReadOf(r) = Reads!Answered(r.key[1], r.floor, r.body.version)
           /\ r.pc \notin {"idle", "answered", "leaving"} =>
                 ReadOf(r) = Reads!Asked(r.key[1], r.floor)
BY DEF ReadOf, Reads!Quiet, Reads!Asked, Reads!Answered

LEMMA ReadsNow ==
    ASSUME NEW w \in Clients
    PROVE  /\ [c \in Clients |-> ReadOf(req[c])][w] = ReadOf(req[w])
           /\ [c \in Clients |-> ReadOf(req[c])]'[w] = ReadOf(req'[w])
BY DEF ReadOf

LEMMA ReadsStay ==
    ASSUME UNCHANGED <<db, acked>>, \A w \in Clients : ReadOf(req'[w]) = ReadOf(req[w])
    PROVE  UNCHANGED Reads!readVars
BY DEF Reads!readVars, ReadOf

\* Requests that return, or are told that they failed.
LEMMA ReadsFinish ==
    ASSUME UNCHANGED <<db, acked>>, NEW S \in SUBSET Clients, S # {},
           \A c \in S : req[c].pc # "idle" /\ req'[c].pc = "idle",
           \A w \in Clients \ S : ReadOf(req'[w]) = ReadOf(req[w])
    PROVE  Reads!ReadNext
<1> DEFINE read == [c \in Clients |-> ReadOf(req[c])]
<1>1. \A c \in S : read[c] # Reads!Quiet
  <2> SUFFICES ASSUME NEW c \in S PROVE ReadOf(req[c]).phase # "quiet"
    BY DEF Reads!Quiet
  <2> QED BY DEF ReadOf
<1>2. read' = [c \in Clients |-> IF c \in S THEN Reads!Quiet ELSE read[c]]
  <2>1. read' = [c \in Clients |-> ReadOf(req'[c])]
    BY DEF ReadOf
  <2>2. \A c \in Clients : ReadOf(req'[c]) = IF c \in S THEN Reads!Quiet ELSE read[c]
    BY ReadIs
  <2> HIDE DEF read
  <2> QED BY <2>1, <2>2
<1>3. Reads!Finish(S)
  BY <1>1, <1>2 DEF Reads!Finish
<1> QED BY <1>3 DEF Reads!ReadNext

\* Requests that get one version of the domain they asked for.
GetVersion(S, d, version) ==
    \A c \in S : /\ req[c].pc \notin {"idle", "answered", "leaving"}
                 /\ req[c].key[1] = d /\ req[c].floor \in 0..version
                 /\ req'[c].pc \in {"answered", "leaving"}
                 /\ req'[c].key[1] = d /\ req'[c].floor = req[c].floor
                 /\ req'[c].body.version = version

LEMMA ReadsAnswer ==
    ASSUME UNCHANGED <<db, acked>>, NEW S \in SUBSET Clients, S # {},
           NEW d \in Domains, NEW version \in 0..db[d],
           GetVersion(S, d, version),
           \A w \in Clients \ S : ReadOf(req'[w]) = ReadOf(req[w])
    PROVE  Reads!ReadNext
<1> USE DEF GetVersion
<1> DEFINE read == [c \in Clients |-> ReadOf(req[c])]
<1>1. ASSUME NEW c \in S PROVE read[c] = Reads!Asked(d, req[c].floor)
  <2>1. ReadOf(req[c]) = Reads!Asked(req[c].key[1], req[c].floor)
    BY ReadIs
  <2> QED BY <2>1
<1>2. ASSUME NEW c \in S PROVE read[c].floor = req[c].floor
  <2>1. Reads!Asked(d, req[c].floor).floor = req[c].floor
    BY DEF Reads!Asked
  <2> HIDE DEF read
  <2> QED BY <1>1, <2>1
<1>3. read' = [c \in Clients |-> IF c \in S THEN Reads!Answered(d, read[c].floor, version)
                                 ELSE read[c]]
  <2>1. read' = [c \in Clients |-> ReadOf(req'[c])]
    BY DEF ReadOf
  <2>2. ASSUME NEW c \in Clients
        PROVE  ReadOf(req'[c]) = IF c \in S THEN Reads!Answered(d, read[c].floor, version)
                                 ELSE read[c]
    <3>1. CASE c \in S
      <4>1. ReadOf(req'[c]) = Reads!Answered(d, req[c].floor, version)
        BY <3>1, ReadIs
      <4> QED BY <1>2, <3>1, <4>1
    <3>2. CASE c \notin S
      BY <3>2
    <3> QED BY <3>1, <3>2
  <2> HIDE DEF read
  <2> QED BY <2>1, <2>2
<1>4. \A c \in S : \E floor \in 0..version : read[c] = Reads!Asked(d, floor)
  BY <1>1
<1> HIDE DEF read
<1>5. Reads!Answer(S, d)
  BY <1>3, <1>4 DEF Reads!Answer, read
<1> QED BY <1>5 DEF Reads!ReadNext

\* What CommittedOK needs of a step that changes one request.
LEMMA CommittedKeeps ==
    ASSUME req \in [Clients -> Request], Committed, UNCHANGED db,
           NEW c \in Clients, NEW r, OneRequest(c, r), CommittedOK(r),
           \A j \in DOMAIN values' : \E i \in DOMAIN values : values'[j] = values[i]
    PROVE  Committed'
<1>1. ASSUME NEW w \in Clients PROVE CommittedOK(req[w])'
  BY <1>1 DEF Committed, CommittedOK, OneRequest
<1>2. ASSUME NEW j \in DOMAIN values' PROVE values'[j].body.version <= db'[values'[j].key[1]]
  BY <1>2 DEF Committed
<1> QED BY <1>1, <1>2 DEF Committed

-----------------------------------------------------------------------------
(* The contract, action by action. *)

Simulates == Committed' /\ [Reads!ReadNext]_Reads!readVars

LEMMA StartReads == ASSUME InitCache PROVE Committed /\ Reads!ReadInit
<1>1. \A c \in Clients : req[c] = Idle
  BY DEF InitCache
<1>2. Committed
  BY <1>1 DEF InitCache, Idle, Committed, CommittedOK
<1>3. \A c \in Clients : ReadOf(req[c]) = Reads!Quiet
  BY <1>1, ReadIs DEF Idle
<1>4. [c \in Clients |-> ReadOf(req[c])] = [c \in Clients |-> Reads!Quiet]
  BY <1>3
<1> QED BY <1>2, <1>4 DEF InitCache, Reads!ReadInit

\* Steps that change no request and no entry, or only remove entries.
LEMMA OthersRead ==
    ASSUME Committed, IInv, UNCHANGED <<acked, req>>, db' = db,
           \A j \in DOMAIN values' : \E i \in DOMAIN values : values'[j] = values[i]
    PROVE  Simulates
<1>1. Committed'
  BY DEF Committed, CommittedOK
<1>2. UNCHANGED Reads!readVars
  BY ReadsStay
<1> QED BY <1>1, <1>2 DEF Simulates

LEMMA CommitReads ==
    ASSUME IInv, Committed, NEW d \in Domains, NEW visible \in BOOLEAN, Commit(d, visible)
    PROVE  Simulates
<1>1. /\ db \in [Domains -> Nat] /\ values \in Seq(Entry) /\ req \in [Clients -> Request]
      /\ Requests /\ Entries
  BY Parts DEF OtherTypes, Cached
<1>2. /\ db' = [db EXCEPT ![d] = @ + 1] /\ UNCHANGED <<acked, values, req>>
  BY DEF Commit
<1>3. \A e \in Domains : db[e] \in Nat /\ db'[e] \in Nat /\ db[e] <= db'[e]
  BY <1>1, <1>2
<1>4. ASSUME NEW i \in DOMAIN values PROVE values[i].body.version <= db'[values[i].key[1]]
  <2>1. EntryOK(values[i]) /\ values[i].body.version <= db[values[i].key[1]]
    BY <1>1 DEF Entries, Committed
  <2>2. values[i].body.version \in Nat /\ values[i].key[1] \in Domains
    BY <2>1 DEF EntryOK, Entry, Keys
  <2> QED BY <1>3, <2>1, <2>2
<1>5. ASSUME NEW c \in Clients, req[c].pc \in {"loaded", "leaving", "answered"}
      PROVE  req[c].body.version <= db'[req[c].key[1]]
  <2>1. req[c] \in Request /\ req[c].key \in Keys
    BY <1>1, <1>5 DEF Requests, RequestOK
  <2>2. req[c].body.version \in Nat \cup {-1} /\ req[c].key[1] \in Domains
    BY <2>1 DEF Request, Body, Keys, None
  <2>3. req[c].body.version <= db[req[c].key[1]]
    BY <1>5 DEF Committed, CommittedOK
  <2> QED BY <1>3, <2>2, <2>3
<1>6. Committed'
  BY <1>2, <1>4, <1>5 DEF Committed, CommittedOK
<1>7. Reads!Write(d)
  <2>1. [c \in Clients |-> ReadOf(req[c])]' = [c \in Clients |-> ReadOf(req[c])]
    BY <1>2 DEF ReadOf
  <2> QED BY <1>2, <2>1 DEF Reads!Write
<1> QED BY <1>6, <1>7 DEF Simulates, Reads!ReadNext

LEMMA InvalidateReads ==
    ASSUME IInv, Committed, NEW d \in Domains, Invalidate(d)
    PROVE  Simulates
<1> DEFINE Others == {i \in DOMAIN values : values[i].key[1] # d}
<1>1. /\ db \in [Domains -> Nat] /\ acked \in [Domains -> Nat] /\ values \in Seq(Entry)
      /\ notified \in [Domains -> Nat \cup {None}] /\ Acknowledged
  BY Parts DEF OtherTypes, Cached
<1>2. /\ values' = Kept(values, Others) /\ UNCHANGED <<db, req>>
      /\ acked' = [acked EXCEPT ![d] = notified[d]] /\ notified[d] # None
  BY DEF Invalidate, Drop, OutOfDomain
<1> HIDE DEF Others
<1>3. \A j \in DOMAIN values' : \E i \in DOMAIN values : values'[j] = values[i]
  BY <1>1, <1>2, KeptIs
<1>4. Committed'
  BY <1>2, <1>3 DEF Committed, CommittedOK
<1>5. notified[d] \in acked[d]..db[d]
  BY <1>1, <1>2 DEF Acknowledged
<1>6. Reads!Acknowledge(d)
  <2>1. [c \in Clients |-> ReadOf(req[c])]' = [c \in Clients |-> ReadOf(req[c])]
    BY <1>2 DEF ReadOf
  <2> QED BY <1>2, <1>5, <2>1 DEF Reads!Acknowledge
<1> QED BY <1>4, <1>6 DEF Simulates, Reads!ReadNext

LEMMA ObserveReads ==
    ASSUME IInv, Committed, NEW c \in Clients, NEW d \in Domains, Observe(c, d)
    PROVE  Simulates
<1> DEFINE k == Key(d, rev'.epoch, rev'.summaries[d], None)
           r == [Idle EXCEPT !.pc = "keyed", !.floor = acked[d], !.key = k]
           read == [w \in Clients |-> ReadOf(req[w])]
<1>1. req \in [Clients -> Request]
  BY Parts
<1>2. OneRequest(c, r) /\ req[c].pc = "idle" /\ UNCHANGED <<db, acked, values>>
  BY DEF Observe, OneRequest
<1>3. r.pc = "keyed" /\ r.floor = acked[d] /\ r.key[1] = d
  BY DEF Idle, Key
<1> HIDE DEF r
<1>4. Committed'
  BY <1>1, <1>2, <1>3, CommittedKeeps DEF CommittedOK
<1>5. ReadOf(r) = Reads!Asked(d, acked[d]) /\ read[c] = Reads!Quiet
  BY <1>2, <1>3, ReadIs
<1>6. read' = [read EXCEPT ![c] = Reads!Asked(d, acked[d])]
  <2>1. read' = [w \in Clients |-> ReadOf(req'[w])]
    BY DEF ReadOf
  <2>2. \A w \in Clients : ReadOf(req'[w]) = IF w = c THEN ReadOf(r) ELSE read[w]
    BY <1>1, <1>2 DEF OneRequest
  <2> HIDE DEF read
  <2>3. \A w \in Clients : ReadOf(req'[w]) = [read EXCEPT ![c] = Reads!Asked(d, acked[d])][w]
    BY <1>5, <2>2 DEF read
  <2> QED BY <2>1, <2>3 DEF read
<1>7. Reads!Ask(c, d)
  BY <1>2, <1>5, <1>6 DEF Reads!Ask
<1> QED BY <1>4, <1>7 DEF Simulates, Reads!ReadNext

\* A request returns or gives up, and leaves the entries alone.
LEMMA EndReads ==
    ASSUME IInv, Committed, NEW c \in Clients, req[c].pc # "idle", OneRequest(c, Idle),
           UNCHANGED <<db, acked>>,
           \A j \in DOMAIN values' : \E i \in DOMAIN values : values'[j] = values[i]
    PROVE  Simulates
<1>1. req \in [Clients -> Request] /\ Idle.pc = "idle"
  BY Parts DEF Idle
<1>2. Committed'
  BY <1>1, CommittedKeeps DEF CommittedOK
<1>3. req'[c].pc = "idle" /\ \A w \in Clients \ {c} : req'[w] = req[w]
  BY <1>1 DEF OneRequest
<1>4. Reads!ReadNext
  BY <1>3, ReadsFinish
<1> QED BY <1>2, <1>4 DEF Simulates

LEMMA FailReads == ASSUME IInv, Committed, NEW c \in Clients, Fail(c) PROVE Simulates
<1>1. /\ \A w \in Clients : req'[w] = IF w \in Settled(c) THEN Idle ELSE req[w]
      /\ UNCHANGED <<db, acked, values>> /\ Idle.pc = "idle"
  BY DEF Fail, Idle
<1>2. Settled(c) \in SUBSET Clients /\ c \in Settled(c)
      /\ \A w \in Settled(c) : req[w].pc # "idle"
  BY DEF Settled, Waiters, Fail
<1>3. Committed'
  BY <1>1 DEF Committed, CommittedOK
<1>4. Reads!ReadNext
  BY <1>1, <1>2, ReadsFinish
<1> QED BY <1>3, <1>4 DEF Simulates

\* A request gets one step further without an answer.
LEMMA WorkReads ==
    ASSUME IInv, Committed, NEW c \in Clients, NEW r, OneRequest(c, r), CommittedOK(r),
           UNCHANGED <<db, acked>>,
           \A j \in DOMAIN values' : \E i \in DOMAIN values : values'[j] = values[i],
           req[c].pc \notin {"idle", "answered", "leaving"},
           r.pc \notin {"idle", "answered", "leaving"},
           r.key[1] = req[c].key[1], r.floor = req[c].floor
    PROVE  Simulates
<1>1. req \in [Clients -> Request]
  BY Parts
<1>2. Committed'
  BY <1>1, CommittedKeeps
<1>3. ReadOf(r) = ReadOf(req[c])
  BY ReadIs
<1>4. \A w \in Clients : ReadOf(req'[w]) = ReadOf(req[w])
  BY <1>1, <1>3 DEF OneRequest
<1> QED BY <1>2, <1>4, ReadsStay DEF Simulates

LEMMA StartLoadReads ==
    ASSUME IInv, Committed, NEW c \in Clients, StartLoad(c)
    PROVE  Simulates
<1> DEFINE r == [req[c] EXCEPT !.pc = "loading", !.body.loaded = now]
<1>1. req \in [Clients -> Request]
  BY Parts
<1>2. /\ OneRequest(c, r) /\ req[c].pc = "queued" /\ UNCHANGED <<db, acked, values>>
  BY <1>1 DEF StartLoad, OneRequest
<1>3. r.pc = "loading" /\ r.key = req[c].key /\ r.floor = req[c].floor
  BY <1>1 DEF Request
<1> HIDE DEF r
<1>4. CommittedOK(r)
  BY <1>3 DEF CommittedOK
<1> QED BY <1>2, <1>3, <1>4, WorkReads

\* What is loaded is what is committed at that moment.
LEMMA LoadReads ==
    ASSUME IInv, Committed, NEW c \in Clients, NEW size \in Sizes, Load(c, size)
    PROVE  Simulates
<1> DEFINE r == [req[c] EXCEPT !.pc = "loaded", !.body.size = size,
                               !.body.version = db[req[c].key[1]]]
<1>1. req \in [Clients -> Request] /\ Requests /\ db \in [Domains -> Nat]
  BY Parts DEF OtherTypes
<1>2. OneRequest(c, r) /\ req[c].pc = "loading" /\ UNCHANGED <<db, acked, values>>
  BY <1>1 DEF Load, OneRequest
<1>3. /\ r.pc = "loaded" /\ r.key = req[c].key /\ r.floor = req[c].floor
      /\ r.body.version = db[req[c].key[1]]
  BY <1>1 DEF Request, Body
<1>4. req[c].key[1] \in Domains
  BY <1>1, <1>2 DEF Requests, RequestOK, Keys
<1> HIDE DEF r
<1>5. CommittedOK(r)
  BY <1>1, <1>3, <1>4 DEF CommittedOK
<1> QED BY <1>2, <1>3, <1>5, WorkReads

LEMMA StoreReads == ASSUME IInv, Committed, NEW c \in Clients, Store(c) PROVE Simulates
<1> DEFINE body == req[c].body
           v == [key |-> req[c].key, body |-> body, deadline |-> DeadlineOf(body)]
           S == {c} \cup Waiters(c)
           d == req[c].key[1]
<1>1. /\ req \in [Clients -> Request] /\ values \in Seq(Entry)
      /\ Requests /\ Fresh /\ Waiting /\ db \in [Domains -> Nat]
  BY Parts DEF OtherTypes, Cached
<1>2. /\ req[c] \in Request /\ RequestOK(req[c]) /\ FreshOK(req[c]) /\ req[c].pc = "loaded"
      /\ c \notin Waiters(c) /\ UNCHANGED <<db, acked>> /\ S \subseteq Clients
  BY <1>1 DEF Requests, Fresh, Waiters, Store
<1>3. /\ req'[c] = [req[c] EXCEPT !.pc = "leaving"]
      /\ \A w \in Waiters(c) :
            req'[w] = [req[w] EXCEPT !.pc = "answered", !.body = body, !.of = NoClient]
      /\ \A w \in Clients \ S : req'[w] = req[w]
  BY <1>2 DEF Store
<1>4. /\ d \in Domains /\ req[c].key \in Keys /\ body \in Body
      /\ body.version <= db[d] /\ body.version >= req[c].floor /\ req[c].floor \in Nat
  BY <1>2 DEF RequestOK, Keys, Request, FreshOK, Committed, CommittedOK
<1>5. body.version \in 0..db[d]
  <2>1. body.version \in Nat \cup {-1} /\ db[d] \in Nat
    BY <1>1, <1>4 DEF Body, None
  <2> QED BY <1>4, <2>1
<1>6. ASSUME NEW w \in S
      PROVE  /\ req[w].pc \notin {"idle", "answered", "leaving"}
             /\ req[w].key[1] = d /\ req[w].floor \in 0..body.version
             /\ req'[w].pc \in {"answered", "leaving"}
             /\ req'[w].key[1] = d /\ req'[w].floor = req[w].floor
             /\ req'[w].body.version = body.version
  <2>1. CASE w = c
    <3>1. /\ req'[w].pc = "leaving" /\ req'[w].key = req[w].key
          /\ req'[w].body = req[w].body /\ req'[w].floor = req[w].floor
      BY <1>2, <1>3, <2>1 DEF Request
    <3> QED BY <1>2, <1>4, <1>5, <2>1, <3>1
  <2>2. CASE w \in Waiters(c)
    <3>1. /\ w \in Clients /\ req[w] \in Request /\ WaitOK(req[w]) /\ req[w].pc = "joined"
          /\ req[w].of = c
      BY <1>1, <2>2 DEF Waiting, Waiters
    <3>2. /\ req[w].key = req[c].key /\ body.version >= req[w].floor /\ req[w].floor \in Nat
      BY <1>2, <3>1 DEF WaitOK, Request
    <3>3. /\ req'[w].pc = "answered" /\ req'[w].key = req[w].key
          /\ req'[w].body = body /\ req'[w].floor = req[w].floor
      <4>1. req'[w] = [req[w] EXCEPT !.pc = "answered", !.body = body, !.of = NoClient]
        BY <1>3, <2>2
      <4> HIDE DEF body
      <4> QED BY <3>1, <4>1 DEF Request
    <3>4. req[w].floor \in 0..body.version
      <4> HIDE DEF body
      <4> QED BY <1>5, <3>2
    <3> QED BY <3>1, <3>2, <3>3, <3>4
  <2> QED BY <2>1, <2>2
<1>7. Reads!ReadNext
  <2>1. S \in SUBSET Clients /\ S # {}
    BY <1>2
  <2>2. \A w \in Clients \ S : ReadOf(req'[w]) = ReadOf(req[w])
    BY <1>3
  <2>3. d \in Domains /\ UNCHANGED <<db, acked>>
    BY <1>2, <1>4
  <2>4. GetVersion(S, d, body.version)
    BY <1>6 DEF GetVersion
  <2> HIDE DEF S, body, d
  <2> QED BY <1>5, <2>1, <2>2, <2>3, <2>4, ReadsAnswer
\* What is stored comes from the computation.
<1>8. ASSUME NEW j \in DOMAIN values' PROVE values'[j].body.version <= db[values'[j].key[1]]
  <2>1. ASSUME NEW i \in DOMAIN values PROVE values[i].body.version <= db[values[i].key[1]]
    BY DEF Committed
  <2>2. CASE ~Storable(c)
    BY <1>8, <2>1, <2>2 DEF Store
  <2>3. CASE Storable(c)
    <3> DEFINE all == Append(values, v)
    <3>1. values' = Evicted(all)
      BY <2>3 DEF Store
    <3>2. v \in Entry
      <4>1. req[c].pc \in {"loading", "loaded", "leaving"}
        BY <1>2
      <4>2. body.loaded \in Nat
        BY <1>2, <4>1 DEF RequestOK
      <4>3. DeadlineOf(body) \in Nat
        BY <4>2, CacheConstants DEF DeadlineOf
      <4> QED BY <1>4, <4>3 DEF Entry
    <3>3. v.body.version <= db[v.key[1]]
      BY <1>4
    <3> HIDE DEF v
    <3>4. all \in Seq(Entry)
      BY <1>1, <3>2
    <3>5. \A i \in DOMAIN all : all[i] = v \/ \E h \in DOMAIN values : all[i] = values[h]
      BY <1>1, <3>2
    <3> HIDE DEF all
    <3>6. PICK i \in DOMAIN all : values'[j] = all[i]
      BY <1>8, <3>1, <3>4, EvictedIs
    <3> QED BY <2>1, <3>3, <3>5, <3>6
  <2> QED BY <2>2, <2>3
<1>9. ASSUME NEW w \in Clients PROVE CommittedOK(req[w])'
  <2>1. CASE w \in S
    <3> HIDE DEF body
    <3> QED BY <1>2, <1>5, <1>6, <2>1, <1>1, <1>4 DEF CommittedOK
  <2>2. CASE w \notin S
    BY <1>2, <1>3, <2>2 DEF Committed, CommittedOK
  <2> QED BY <2>1, <2>2
<1>10. Committed'
  BY <1>2, <1>8, <1>9 DEF Committed
<1> QED BY <1>7, <1>10 DEF Simulates

LEMMA LookupReads == ASSUME IInv, Committed, NEW c \in Clients, Lookup(c) PROVE Simulates
<1> DEFINE r == Keyed(c)
           kept == Unexpired(Epochal(r.key[2]))
           hits == {i \in DOMAIN kept.values : kept.values[i].key = r.key}
           d == req[c].key[1]
<1>1. /\ req \in [Clients -> Request] /\ Requests /\ Fresh /\ Entries /\ Table
      /\ db \in [Domains -> Nat] /\ acked \in [Domains -> Nat]
      /\ generation \in [Domains -> Nat]
  BY Parts DEF OtherTypes
<1>2. /\ req[c] \in Request /\ req[c].pc = "keyed" /\ req[c].key \in Keys
      /\ d \in Domains /\ req[c].floor \in Nat /\ req[c].floor <= acked[d]
  BY <1>1 DEF Lookup, Requests, Fresh, RequestOK, FreshOK, Keys, Request
<1>3. /\ r.key[1] = d /\ r.key[2] \in Nat /\ r.key[4] = generation[d] /\ r.pc = "keyed"
      /\ r.floor = req[c].floor /\ DOMAIN r = DOMAIN req[c]
  BY <1>2 DEF Keyed, Key, Keys, Request
<1>4. UNCHANGED <<db, acked>>
  BY DEF Lookup
<1>5. /\ kept.values \in Seq(Entry)
      /\ \A j \in DOMAIN kept.values : \E i \in DOMAIN values : kept.values[j] = values[i]
  <2> HIDE DEF r
  <2> QED BY <1>3, CleanedIs
<1>6. \/ \E i \in hits : Hit(c, r, i, kept)
      \/ /\ values' = kept.values
         /\ \/ \E o \in Owner(r.key) : Join(c, r, o)
            \/ Own(c, r)
            \/ Refuse(c)
  BY DEF Lookup
<1>7. r = [req[c] EXCEPT !.key = r.key]
  BY <1>2 DEF Keyed, Request
<1> HIDE DEF r, kept, hits
\* The request is answered with a version at least as new as its floor.
<1>8. ASSUME NEW r1, OneRequest(c, r1), r1.pc = "answered", r1.key = r.key,
             r1.floor = r.floor, r1.body.version \in Nat,
             r1.body.version >= acked[d], r1.body.version <= db[d],
             \A j \in DOMAIN values' : \E i \in DOMAIN values : values'[j] = values[i]
      PROVE  Simulates
  <2>1. Committed'
    BY <1>1, <1>3, <1>4, <1>8, CommittedKeeps DEF CommittedOK
  <2>2. req'[c] = r1 /\ \A w \in Clients \ {c} : req'[w] = req[w]
    BY <1>1, <1>8 DEF OneRequest
  <2>3. r1.body.version \in 0..db[d] /\ req[c].floor \in 0..r1.body.version
    BY <1>1, <1>2, <1>8
  <2> HIDE DEF d
  <2>4. ASSUME NEW S, S = {c}, NEW version, version = r1.body.version PROVE Reads!ReadNext
    <3>1. GetVersion(S, d, version)
      BY <1>2, <1>3, <1>8, <2>2, <2>3, <2>4 DEF d, GetVersion
    <3>2. \A w \in Clients \ S : ReadOf(req'[w]) = ReadOf(req[w])
      BY <2>2, <2>4
    <3>3. S \in SUBSET Clients /\ S # {} /\ d \in Domains /\ version \in 0..db[d]
      BY <1>2, <2>3, <2>4
    <3> QED BY <1>4, <3>1, <3>2, <3>3, ReadsAnswer
  <2>5. Reads!ReadNext
    BY <2>4
  <2> QED BY <2>1, <2>5 DEF Simulates
<1>9. ASSUME NEW i \in hits, Hit(c, r, i, kept) PROVE Simulates
  <2> DEFINE v == kept.values[i]
             r1 == [r EXCEPT !.pc = "answered", !.body = v.body,
                             !.age = now - v.body.loaded]
  <2>1. OneRequest(c, r1) /\ values' = Append(RemoveAt(kept.values, i), v)
    BY <1>9 DEF Hit, OneRequest
  <2>2. i \in DOMAIN kept.values /\ v.key = r.key
    BY <1>9 DEF hits
  <2>3. PICK h \in DOMAIN values : v = values[h]
    BY <1>5, <2>2
  <2>4. /\ v.body.version \in Nat /\ v.body.version >= acked[d]
        /\ v.body.version <= db[d]
    BY <1>1, <1>3, <2>2, <2>3 DEF Entries, EntryOK, Committed
  <2>5. ASSUME NEW j \in DOMAIN values' PROVE \E m \in DOMAIN values : values'[j] = values[m]
    <3>1. PICK g \in DOMAIN kept.values : values'[j] = kept.values[g]
      BY <1>5, <2>1, <2>2, <2>5, MovedIs
    <3> QED BY <1>5, <3>1
  <2> HIDE DEF v
  <2>6. /\ r1.pc = "answered" /\ r1.body = v.body /\ r1.key = r.key /\ r1.floor = r.floor
    BY <1>2, <1>7 DEF Request
  <2> HIDE DEF r1
  <2> QED BY <1>8, <2>1, <2>4, <2>5, <2>6
<1>10. ASSUME NEW o \in Owner(r.key), Join(c, r, o), values' = kept.values PROVE Simulates
  <2>1. /\ o \in Clients /\ req[o].key = r.key /\ req[o] \in Request
        /\ FreshOK(req[o])
    BY <1>1 DEF Owner, Table, Fresh
  <2>2. CASE req[o].pc = "leaving"
    <3> DEFINE body == req[o].body
               r1 == [r EXCEPT !.pc = "answered", !.body = body]
    <3>1. OneRequest(c, r1)
      BY <1>10, <2>2 DEF Join, OneRequest
    <3>2. /\ body.version >= acked[d] /\ body.version <= db[d]
          /\ body.version \in Nat \cup {-1}
      BY <1>3, <2>1, <2>2 DEF FreshOK, Committed, CommittedOK, Request, Body, None
    <3>3. body.version \in Nat
      BY <1>1, <1>2, <3>2
    <3> HIDE DEF body
    <3>4. /\ r1.pc = "answered" /\ r1.body = body /\ r1.key = r.key /\ r1.floor = r.floor
      BY <1>2, <1>7 DEF Request
    <3> HIDE DEF r1
    <3> QED BY <1>5, <1>8, <1>10, <3>1, <3>2, <3>3, <3>4
  <2>3. CASE req[o].pc # "leaving"
    <3> DEFINE r1 == [r EXCEPT !.pc = "joined", !.of = o]
    <3>1. OneRequest(c, r1)
      BY <1>10, <2>3 DEF Join, OneRequest
    <3>2. /\ r1.pc = "joined" /\ r1.key = r.key /\ r1.floor = r.floor
      BY <1>2, <1>7 DEF Request
    <3> HIDE DEF r1
    <3>3. CommittedOK(r1)
      BY <3>2 DEF CommittedOK
    <3> QED BY <1>2, <1>3, <1>4, <1>5, <1>10, <3>1, <3>2, <3>3, WorkReads
  <2> QED BY <2>2, <2>3
<1>11. ASSUME Own(c, r), values' = kept.values PROVE Simulates
  <2> DEFINE r1 == [r EXCEPT !.pc = "queued"]
  <2>1. OneRequest(c, r1)
    BY <1>11 DEF Own, OneRequest
  <2>2. /\ r1.pc = "queued" /\ r1.key = r.key /\ r1.floor = r.floor
    BY <1>2, <1>7 DEF Request
  <2> HIDE DEF r1
  <2>3. CommittedOK(r1)
    BY <2>2 DEF CommittedOK
  <2> QED BY <1>2, <1>3, <1>4, <1>5, <1>11, <2>1, <2>2, <2>3, WorkReads
<1>12. ASSUME Refuse(c), values' = kept.values PROVE Simulates
  <2>1. OneRequest(c, Idle) /\ req[c].pc # "idle"
    BY <1>2, <1>12 DEF Refuse, OneRequest
  <2> QED BY <1>4, <1>5, <1>12, <2>1, EndReads
<1> QED BY <1>6, <1>9, <1>10, <1>11, <1>12

\* The read cache, with its sentinels, generations, shared computations, evictions and
\* failures, implements the contract of the reads for any clients, domains, limits and
\* sizes: one answer at most, with a committed version no older than what was
\* acknowledged when the request began (docs/read-service.md, read_cache.py:186-292).
THEOREM RefinesFreshReads == CacheSpec => ImplementsFreshReads
<1>1. InitCache => Committed /\ Reads!ReadInit
  BY StartReads
<1>2. IInv /\ Committed /\ [NextCache]_cacheVars => Simulates
  <2> SUFFICES ASSUME IInv, Committed, [NextCache]_cacheVars PROVE Simulates
    OBVIOUS
  <2>1. CASE UNCHANGED cacheVars
    BY <2>1, OthersRead DEF cacheVars
  <2>2. CASE NextCache
    <3>1. ASSUME NEW d \in Domains,
                 (\E visible \in BOOLEAN : Commit(d, visible)) \/ Notify(d) \/ Invalidate(d)
          PROVE  Simulates
      <4>1. CASE Notify(d)
        BY <4>1, OthersRead DEF Notify
      <4> QED BY <3>1, <4>1, CommitReads, InvalidateReads
    <3>2. CASE ReplaceFile \/ Tick
      BY <3>2, OthersRead DEF ReplaceFile, Tick
    <3>3. ASSUME NEW c \in Clients, GiveUp(c) \/ Leave(c) \/ Return(c) PROVE Simulates
      <4>1. req[c].pc # "idle" /\ OneRequest(c, Idle) /\ UNCHANGED <<db, acked, values>>
        BY <3>3 DEF GiveUp, Leave, Return, OneRequest
      <4> QED BY <4>1, EndReads
    <3>4. ASSUME NEW c \in Clients,
                 (\E d \in Domains : Observe(c, d)) \/ Proceed(c) \/ GiveUp(c)
          PROVE  Simulates
      BY <3>3, <3>4, ObserveReads, LookupReads, StoreReads, StartLoadReads, LoadReads,
         FailReads DEF Proceed
    <3> QED BY <2>2, <3>1, <3>2, <3>4 DEF NextCache
  <2> QED BY <2>1, <2>2
<1>3. Simulates => Committed' /\ [Reads!ReadNext]_Reads!readVars
  BY DEF Simulates
<1> QED BY <1>1, <1>2, <1>3, Inductive, PTL
        DEF CacheSpec, ImplementsFreshReads, Reads!ReadSpec

=============================================================================
