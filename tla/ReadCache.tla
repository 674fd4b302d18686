----------------------------- MODULE ReadCache -----------------------------
(***************************************************************************)
(* The bounded read cache of the isolated read service,                    *)
(* src/dcar_eval/v8/read_cache.py, with the writes of the other process    *)
(* and the invalidations the gateway sends for them.                       *)
(*                                                                         *)
(* A request is four critical sections with work in between: observe the   *)
(* database (revision lock), look up (cache lock), and, for the client     *)
(* that owns the computation, store (cache lock) and leave (cache lock).   *)
(* An invalidation is two.  Contents are versions: the number of commits   *)
(* of the domain that a body reflects.  A digest stands for the probes of  *)
(* DatabaseRevision.get, which a commit may or may not change.             *)
(***************************************************************************)
EXTENDS Integers, FiniteSets, SequencesExt

CONSTANTS
    Clients,      \* concurrent requests
    Domains,      \* DOMAIN_TABLES
    NoClient,     \* no future to wait for
    MaxEntries,   \* max_entries
    MaxBytes,     \* max_bytes
    MaxInflight,  \* max_inflight
    MaxLoaders,   \* max_loaders
    Ttl,          \* ttl_seconds
    Window,       \* check_interval
    Sizes,        \* sizes a response body may have
    MaxWrites,    \* bound: commits per domain
    MaxEpochs,    \* bound: times the database file is replaced
    MaxNow        \* bound: the clock

ASSUME CacheConstants ==
    /\ NoClient \notin Clients /\ IsFiniteSet(Clients)
    /\ {MaxEntries, MaxBytes, MaxInflight, MaxLoaders, Ttl} \subseteq Nat \ {0}
    /\ {Window, MaxWrites, MaxEpochs, MaxNow} \subseteq Nat
    /\ Sizes \subseteq Nat \ {0}

VARIABLES
    now,        \* clock()
    db,         \* [Domains -> Nat]: commits of the writer process
    shown,      \* [Domains -> Nat]: what the probes of a domain show
    replaced,   \* the file behind the path is not the one that is open
    rev,        \* DatabaseRevision: epoch, next_check, version (as: seen), summaries
    notified,   \* [Domains -> ...]: the write whose invalidation is between its halves
    acked,      \* [Domains -> Nat]: the last write whose invalidation was acknowledged
    epoch,      \* BoundedReadCache.epoch
    generation, \* BoundedReadCache.generations
    values,     \* BoundedReadCache.values, oldest use first
    bytes,      \* BoundedReadCache.bytes
    inflight,   \* the clients that own a future of BoundedReadCache.inflight
    req         \* the request each client is in

cacheVars == <<now, db, shown, replaced, rev, notified, acked, epoch, generation,
               values, bytes, inflight, req>>

None == -1
Nothing == [d \in Domains |-> None]
NoBody == [version |-> None, size |-> 0, loaded |-> None]
Key(d, e, digest, g) == <<d, e, digest, g>>
NoKey == <<>>

\* A request: its key, whose future it waits for, its body, and two facts about
\* it that no code reads: the writes acknowledged when it began, and the age of
\* the body when it was found in the cache.
Idle == [pc |-> "idle", key |-> NoKey, of |-> NoClient, body |-> NoBody,
         floor |-> 0, age |-> 0]

\* The sizes of all bodies.  (Both are functions of a position, not folds, for the
\* sake of the proofs.)
Stored(seq) ==
    LET sum[n \in 0..Len(seq)] == IF n = 0 THEN 0 ELSE sum[n - 1] + seq[n].body.size
    IN  sum[Len(seq)]

\* The entries at the positions in I, in their order.
Kept(seq, I) ==
    LET kept[n \in 0..Len(seq)] ==
          IF n = 0 THEN <<>>
          ELSE IF n \in I THEN Append(kept[n - 1], seq[n]) ELSE kept[n - 1]
    IN  kept[Len(seq)]

At(k) == {i \in DOMAIN values : values[i].key = k}
Owner(k) == {c \in inflight : req[c].key = k}
Waiters(c) == {w \in Clients : req[w].pc = "joined" /\ req[w].of = c}
Loading == {c \in Clients : req[c].pc = "loading"}

InitCache ==
    /\ now = 0
    /\ db = [d \in Domains |-> 0] /\ shown = db /\ acked = db
    /\ replaced = FALSE
    /\ rev = [epoch |-> 1, next |-> 0, seen |-> Nothing, summaries |-> Nothing]
    /\ notified = Nothing
    /\ epoch = None
    /\ generation = [d \in Domains |-> 0]
    /\ values = <<>> /\ bytes = 0
    /\ inflight = {}
    /\ req = [c \in Clients |-> Idle]

-----------------------------------------------------------------------------
(* The other processes. *)

\* A commit of the writer.  Sentinels of large tables may not show it.
Commit(d, visible) ==
    /\ db[d] < MaxWrites
    /\ db' = [db EXCEPT ![d] = @ + 1]
    /\ shown' = IF visible THEN [shown EXCEPT ![d] = db'[d]] ELSE shown
    /\ UNCHANGED <<now, replaced, rev, notified, acked, epoch, generation, values,
                   bytes, inflight, req>>

\* The database file is replaced by another one with the same rows.
ReplaceFile ==
    /\ ~replaced /\ rev.epoch <= MaxEpochs
    /\ replaced' = TRUE
    /\ UNCHANGED <<now, db, shown, rev, notified, acked, epoch, generation, values,
                   bytes, inflight, req>>

Tick ==
    /\ now < MaxNow
    /\ now' = now + 1
    /\ UNCHANGED <<db, shown, replaced, rev, notified, acked, epoch, generation,
                   values, bytes, inflight, req>>

\* DatabaseRevision.invalidate, for a write the gateway forwarded.
Notify(d) ==
    /\ notified[d] = None /\ acked[d] < db[d]
    /\ rev' = [rev EXCEPT !.next = 0, !.summaries[d] = None]
    /\ notified' = [notified EXCEPT ![d] = db[d]]
    /\ UNCHANGED <<now, db, shown, replaced, acked, epoch, generation, values, bytes,
                   inflight, req>>

OutOfDomain(d) == Kept(values, {i \in DOMAIN values : values[i].key[1] # d})

\* Mutant of Drop: entries are removed, the generation stays.
DropEntries(d) ==
    /\ generation' = generation
    /\ values' = OutOfDomain(d) /\ bytes' = Stored(values')

\* The second half of BoundedReadCache.invalidate, under the cache lock.
Drop(d) ==
    /\ generation' = [generation EXCEPT ![d] = @ + 1]
    /\ values' = OutOfDomain(d)
    /\ bytes' = bytes - (Stored(values) - Stored(values'))

\* ... after which the gateway passes on the acknowledged write.
Invalidate(d) ==
    /\ notified[d] # None
    /\ Drop(d)
    /\ acked' = [acked EXCEPT ![d] = notified[d]]
    /\ notified' = [notified EXCEPT ![d] = None]
    /\ UNCHANGED <<now, db, shown, replaced, rev, epoch, inflight, req>>

-----------------------------------------------------------------------------
(* DatabaseRevision.get. *)

\* _open: another file is another epoch.
Opened(r) ==
    IF replaced THEN [r EXCEPT !.epoch = @ + 1, !.next = 0, !.seen = Nothing,
                               !.summaries = Nothing]
                ELSE r

\* data_version, which every commit changes, is looked at once per window; another
\* one clears the summaries.
Checked(r) ==
    IF now < r.next THEN r
    ELSE [r EXCEPT !.next = now + Window, !.seen = db,
                   !.summaries = IF r.seen = db THEN r.summaries ELSE Nothing]

Summarized(r, d) ==
    IF r.summaries[d] # None THEN r ELSE [r EXCEPT !.summaries[d] = shown[d]]

\* The first part of a request: epoch and digest, which it uses after the lock.
Observe(c, d) ==
    /\ req[c].pc = "idle"
    /\ rev' = Summarized(Checked(Opened(rev)), d)
    /\ replaced' = FALSE
    /\ req' = [req EXCEPT ![c] = [Idle EXCEPT
                  !.pc = "keyed", !.floor = acked[d],
                  !.key = Key(d, rev'.epoch, rev'.summaries[d], None)]]
    /\ UNCHANGED <<now, db, shown, notified, acked, epoch, generation, values, bytes,
                   inflight>>

-----------------------------------------------------------------------------
(* BoundedReadCache.get. *)

\* Mutant of Epochal: the values of another epoch are dropped, their bytes are not.
EpochalValues(e) == [values |-> IF e = epoch THEN values ELSE <<>>, bytes |-> bytes]

\* Values of another epoch are dropped, whichever of the two is newer.
Epochal(e) ==
    IF e = epoch THEN [values |-> values, bytes |-> bytes]
    ELSE [values |-> <<>>, bytes |-> 0]

Unexpired(kept) ==
    LET live == Kept(kept.values, {i \in DOMAIN kept.values : kept.values[i].deadline > now})
    IN  [values |-> live, bytes |-> kept.bytes - (Stored(kept.values) - Stored(live))]

\* The request with the generation it read under the lock.
Keyed(c) ==
    LET k == req[c].key
    IN  [req[c] EXCEPT !.key = Key(k[1], k[2], k[3], generation[k[1]])]

Hit(c, r, i, kept) ==
    /\ values' = Append(RemoveAt(kept.values, i), kept.values[i])
    /\ req' = [req EXCEPT ![c] = [r EXCEPT
                  !.pc = "answered", !.body = kept.values[i].body,
                  !.age = now - kept.values[i].body.loaded]]
    /\ UNCHANGED inflight

\* The future of another request for the same key; it may be settled already.
Join(c, r, o) ==
    /\ req' = [req EXCEPT ![c] =
          IF req[o].pc = "leaving"
          THEN [r EXCEPT !.pc = "answered", !.body = req[o].body]
          ELSE [r EXCEPT !.pc = "joined", !.of = o]]
    /\ UNCHANGED inflight

Own(c, r) ==
    /\ req' = [req EXCEPT ![c] = [r EXCEPT !.pc = "queued"]]
    /\ inflight' = inflight \cup {c}

\* ReadCacheBusy: too many keys in flight.
Refuse(c) == req' = [req EXCEPT ![c] = Idle] /\ UNCHANGED inflight

\* The section under the cache lock: clean up, then hit, join, own or refuse.
Lookup(c) ==
    /\ req[c].pc = "keyed"
    /\ LET r == Keyed(c)
           kept == Unexpired(Epochal(r.key[2]))
           hits == {i \in DOMAIN kept.values : kept.values[i].key = r.key}
       IN  /\ epoch' = r.key[2] /\ bytes' = kept.bytes
           /\ \/ \E i \in hits : Hit(c, r, i, kept)
              \/ /\ hits = {} /\ values' = kept.values
                 /\ \/ \E o \in Owner(r.key) : Join(c, r, o)
                    \/ Owner(r.key) = {} /\ Cardinality(inflight) < MaxInflight /\ Own(c, r)
                    \/ Owner(r.key) = {} /\ Cardinality(inflight) >= MaxInflight /\ Refuse(c)
    /\ UNCHANGED <<now, db, shown, replaced, rev, notified, acked, generation>>

\* A waiter gives up after sixty seconds.
GiveUp(c) ==
    /\ req[c].pc = "joined"
    /\ req' = [req EXCEPT ![c] = Idle]
    /\ UNCHANGED <<now, db, shown, replaced, rev, notified, acked, epoch, generation,
                   values, bytes, inflight>>

\* The owner gets one of the loader permits; the age of its body counts from here.
StartLoad(c) ==
    /\ req[c].pc = "queued" /\ Cardinality(Loading) < MaxLoaders
    /\ req' = [req EXCEPT ![c].pc = "loading", ![c].body.loaded = now]
    /\ UNCHANGED <<now, db, shown, replaced, rev, notified, acked, epoch, generation,
                   values, bytes, inflight>>

\* loader(): one read transaction; the permit is returned.
Load(c, size) ==
    /\ req[c].pc = "loading"
    /\ req' = [req EXCEPT ![c].pc = "loaded", ![c].body.size = size,
                          ![c].body.version = db[req[c].key[1]]]
    /\ UNCHANGED <<now, db, shown, replaced, rev, notified, acked, epoch, generation,
                   values, bytes, inflight>>

\* Least recently used entries go until both limits hold.
Evictions(seq) ==
    {n \in 0..Len(seq) : LET rest == SubSeq(seq, n + 1, Len(seq))
                         IN  Len(rest) <= MaxEntries /\ Stored(rest) <= MaxBytes}
Evicted(seq) ==
    LET n == CHOOSE n \in Evictions(seq) : \A m \in Evictions(seq) : n <= m
    IN  SubSeq(seq, n + 1, Len(seq))

\* Mutant of Storable: a body computed across an invalidation is kept.
StorableInEpoch(c) == epoch = req[c].key[2] /\ req[c].body.size <= MaxBytes

Storable(c) ==
    /\ epoch = req[c].key[2]
    /\ generation[req[c].key[1]] = req[c].key[4]
    /\ req[c].body.size <= MaxBytes

\* Mutant of DeadlineOf: the time to live starts when the body is stored.
DeadlineAtStore(body) == now + Ttl
DeadlineOf(body) == body.loaded + Ttl

\* The owner stores its body if nothing invalidated it, and settles the future.
Store(c) ==
    /\ req[c].pc = "loaded"
    /\ values' = IF ~Storable(c) THEN values
                 ELSE Evicted(Append(values, [key |-> req[c].key, body |-> req[c].body,
                                              deadline |-> DeadlineOf(req[c].body)]))
    /\ bytes' = IF ~Storable(c) THEN bytes
                ELSE bytes + req[c].body.size
                           - (Stored(values) + req[c].body.size - Stored(values'))
    /\ req' = [w \in Clients |->
          IF w = c THEN [req[c] EXCEPT !.pc = "leaving"]
          ELSE IF w \in Waiters(c)
          THEN [req[w] EXCEPT !.pc = "answered", !.body = req[c].body, !.of = NoClient]
          ELSE req[w]]
    /\ UNCHANGED <<now, db, shown, replaced, rev, notified, acked, epoch, generation,
                   inflight>>

\* Mutant of Settled: a failure is not passed on to the waiters.
SettledOwnOnly(c) == {c}

Settled(c) == {c} \cup Waiters(c)

\* The finally of the owner.
Popped(c) == inflight \ {c}

\* No permit within five seconds, or the loader raises: all of them are told.
\* A request that finds the failed future before it leaves the table is too,
\* which for it is Refuse.
Fail(c) ==
    /\ req[c].pc \in {"queued", "loading"}
    /\ req' = [w \in Clients |-> IF w \in Settled(c) THEN Idle ELSE req[w]]
    /\ inflight' = Popped(c)
    /\ UNCHANGED <<now, db, shown, replaced, rev, notified, acked, epoch, generation,
                   values, bytes>>

\* The owner takes its future out of the table and returns.
Leave(c) ==
    /\ req[c].pc = "leaving"
    /\ inflight' = Popped(c)
    /\ req' = [req EXCEPT ![c] = Idle]
    /\ UNCHANGED <<now, db, shown, replaced, rev, notified, acked, epoch, generation,
                   values, bytes>>

Return(c) ==
    /\ req[c].pc = "answered"
    /\ req' = [req EXCEPT ![c] = Idle]
    /\ UNCHANGED <<now, db, shown, replaced, rev, notified, acked, epoch, generation,
                   values, bytes, inflight>>

Proceed(c) ==
    \/ Lookup(c) \/ Store(c) \/ Leave(c) \/ Return(c)
    \/ StartLoad(c) \/ (\E size \in Sizes : Load(c, size)) \/ Fail(c)

NextCache ==
    \/ \E d \in Domains : (\E visible \in BOOLEAN : Commit(d, visible))
                          \/ Notify(d) \/ Invalidate(d)
    \/ ReplaceFile
    \/ Tick
    \/ \E c \in Clients : (\E d \in Domains : Observe(c, d)) \/ Proceed(c) \/ GiveUp(c)

CacheSpec == InitCache /\ [][NextCache]_cacheVars

\* A thread of the service runs until its request ends; the time-out of a queued
\* owner is a step it can take.  Waiters are not assumed to give up.
CacheFairness == \A c \in Clients : WF_cacheVars(Proceed(c))
FairCacheSpec == CacheSpec /\ CacheFairness

-----------------------------------------------------------------------------
(* What the read service promises. *)

Body == [version : Nat \cup {None}, size : Nat, loaded : Nat \cup {None}]
Keys == Domains \X Nat \X Nat \X (Nat \cup {None})
Request == [pc : {"idle", "keyed", "queued", "joined", "loading", "loaded", "leaving",
                  "answered"},
            key : Keys \cup {NoKey}, of : Clients \cup {NoClient}, body : Body,
            floor : Nat, age : Nat]
Entry == [key : Keys, body : Body, deadline : Nat]
Revision == [epoch : Nat, next : Nat, seen : [Domains -> Nat \cup {None}],
             summaries : [Domains -> Nat \cup {None}]]

\* Every variable has its type, and the table of computations is exact: in it are
\* the owners that have not left yet and nobody else, each under a key of its own,
\* so that no two threads compute one key (read_cache.py:233-292).
CacheTypeOK ==
    /\ now \in Nat /\ bytes \in Nat /\ replaced \in BOOLEAN
    /\ db \in [Domains -> Nat] /\ shown \in [Domains -> Nat] /\ acked \in [Domains -> Nat]
    /\ notified \in [Domains -> Nat \cup {None}]
    /\ generation \in [Domains -> Nat] /\ epoch \in Nat \cup {None}
    /\ rev \in Revision /\ values \in Seq(Entry) /\ req \in [Clients -> Request]
    /\ inflight = {c \in Clients : req[c].pc \in {"queued", "loading", "loaded", "leaving"}}
    /\ \A c, e \in inflight : req[c].key = req[e].key => c = e

Answered(c) == req[c].pc \in {"answered", "leaving"}

\* Once an invalidation is acknowledged to the user who wrote, no request that
\* starts afterwards is answered with data from before the write: not from the
\* cache, not by joining a computation that began earlier, not from one that ends
\* later (docs/read-service.md, generations; read_cache.py:214-221 and :276-281).
AcknowledgedIsFresh == \A c \in Clients : Answered(c) => req[c].body.version >= req[c].floor

\* An invalidation during a computation never lets old data back in: what is
\* stored belongs to the current epoch and reflects every acknowledged write
\* (read_cache.py:276-279).
OldDataStaysOut ==
    \A i \in DOMAIN values :
        LET v == values[i] IN v.key[2] = epoch /\ v.body.version >= acked[v.key[1]]

\* The limits hold whatever epochs, expiries, invalidations and evictions meet,
\* and the counter is the size of what is stored: a drift would make the cache
\* evict for ever or grow (read_cache.py:214-221, :227-239, :278-284).
CacheIsBounded ==
    /\ bytes = Stored(values) /\ bytes <= MaxBytes /\ Len(values) <= MaxEntries
    /\ \A i, j \in DOMAIN values : values[i].key = values[j].key => i = j
    /\ Cardinality(inflight) <= MaxInflight /\ Cardinality(Loading) <= MaxLoaders

\* A body found in the cache is younger than the time to live, counted from the
\* start of its computation however long that took (docs/read-service.md: thirty
\* seconds from the computation; read_cache.py:262, :278).
HitsAreYoung == \A c \in Clients : req[c].pc = "answered" => req[c].age < Ttl

\* Every request ends, also when the computation it joined fails
\* (read_cache.py:246-256, :286-292).
RequestsEnd == \A c \in Clients : req[c].pc # "idle" ~> req[c].pc = "idle"

-----------------------------------------------------------------------------
(* The contract of FreshReads, read off the requests. *)

ReadOf(r) ==
    CASE r.pc = "idle" -> [phase |-> "quiet"]
      [] r.pc \in {"answered", "leaving"} ->
            [phase |-> "answered", domain |-> r.key[1], floor |-> r.floor,
             version |-> r.body.version]
      [] OTHER -> [phase |-> "asked", domain |-> r.key[1], floor |-> r.floor]

Reads == INSTANCE FreshReads WITH
    Readers <- Clients,
    written <- db,
    known   <- acked,
    read    <- [c \in Clients |-> ReadOf(req[c])]

\* Cache, generations, shared computations, the digest and all ways to fail implement
\* the contract of the reads: a request is answered once, with contents that were
\* committed and are no older than what was acknowledged when it began
\* (docs/read-service.md, read_cache.py:186-292).
ImplementsFreshReads == Reads!ReadSpec

=============================================================================
