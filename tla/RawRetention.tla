---------------------------- MODULE RawRetention ----------------------------
(* Local retention of one raw response body (raw_archive.py,                 *)
(* local_raw_retention.py, and the storing half of capture.py).              *)
(*                                                                           *)
(* A body is stored once, under its hash, and shared by every response that  *)
(* carries the same bytes.  Storing writes the body file and an index file   *)
(* of the response, then commits their rows: all three under the process     *)
(* write lock, but only the rows disappear when the transaction fails.       *)
(* Maintenance retires an old body in two transactions: the first commits    *)
(* the intent, naming the inode, the second unlinks and records it.  A later *)
(* response with the same bytes brings a retired body back.                  *)
EXTENDS Naturals, FiniteSets

CONSTANTS
    Responses,   \* the responses that carry the bytes of this body
    HotDays,     \* days a body and its responses stay hot
    MaxDay,      \* bound on the calendar
    MaxFaults    \* bound on transactions that fail and processes that die

ASSUME RawConstants == /\ HotDays \in Nat \ {0}
                       /\ MaxDay \in Nat \ {0}
                       /\ MaxFaults \in Nat

VARIABLES
    file,       \* inode of the file at the body's path, 0 when there is none
    inodes,     \* inodes handed out so far
    blob,       \* the body's row in provider_raw_blobs
    ledger,     \* what raw_retention_events says of it
    index,      \* the day in each response's index file, 0 when there is none
    response,   \* rows of provider_raw_responses
    pinned,     \* the last of the pin and unpin events is a pin
    tx,         \* the transaction that holds the write lock
    today,
    faults

vars == <<file, inodes, blob, ledger, index, response, pinned, tx, today, faults>>

Days == 0..MaxDay
NoTx == [kind |-> "none"]
StoreTx == [kind : {"store"}, for : Responses, at : Days, indexed : BOOLEAN]
CleanupTx == [kind : {"cleanup"}]
Unregistered == [stored |-> FALSE, at |-> 0, applied |-> FALSE]

RawTypeOK ==
    /\ file \in 0..inodes
    /\ inodes \in Nat
    /\ blob \in [state : {"absent", "present", "deleted"}, storedOn : Days]
    /\ ledger \in [last : {"none", "intent", "retired", "rehydrated"},
                   inode : Nat, renewedOn : Days]
    /\ index \in [Responses -> Days]
    /\ response \in [Responses -> [stored : BOOLEAN, at : Days, applied : BOOLEAN]]
    /\ pinned \in BOOLEAN
    /\ tx \in {NoTx} \cup StoreTx \cup CleanupTx
    /\ today \in 1..MaxDay
    /\ faults \in 0..MaxFaults

Init ==
    /\ file = 0
    /\ inodes = 0
    /\ blob = [state |-> "absent", storedOn |-> 0]
    /\ ledger = [last |-> "none", inode |-> 0, renewedOn |-> 0]
    /\ index = [r \in Responses |-> 0]
    /\ response = [r \in Responses |-> Unregistered]
    /\ pinned = FALSE
    /\ tx = NoTx
    /\ today = 1
    /\ faults = 0

-----------------------------------------------------------------------------
(* Helpers.                                                                  *)

Hot(day) == today - day < HotDays

\* A body that was brought back is as old as the response that did it.
EffectiveHotTime == IF ledger.renewedOn = 0 THEN blob.storedOn ELSE ledger.renewedOn

Stored == {r \in Responses : response[r].stored}

\* The reasons that keep a body: its age, a pin, no response at all, a response
\* that is recent or whose work, billing and consumers are not all final.
Protected ==
    \/ Hot(EffectiveHotTime)
    \/ pinned
    \/ Stored = {}
    \/ \E r \in Stored : Hot(response[r].at) \/ ~response[r].applied

\* Publishing never replaces a file: the same bytes already there are kept.
WriteFile ==
    /\ inodes' = IF file = 0 THEN inodes + 1 ELSE inodes
    /\ file' = IF file = 0 THEN inodes + 1 ELSE file

-----------------------------------------------------------------------------
(* Storing a response.                                                       *)

\* put_blob puts the file in place before any row changes; a body whose row says
\* present must be readable instead, or storing is refused.
StoreBody(r, at) ==
    /\ tx = NoTx
    /\ blob.state = "present" => file # 0
    /\ WriteFile
    /\ tx' = [kind |-> "store", for |-> r, at |-> at, indexed |-> FALSE]
    /\ UNCHANGED <<blob, ledger, index, response, pinned, today, faults>>

\* A response arrives from the network.
Receive(r) ==
    /\ ~response[r].stored /\ index[r] = 0
    /\ StoreBody(r, today)

\* The index a failed transaction left behind is replayed, with its own day, if
\* the body can still be read: a row that says deleted means it has expired,
\* whatever lies at the path.
Replay(r) ==
    /\ ~response[r].stored /\ index[r] # 0
    /\ blob.state # "deleted"
    /\ file # 0
    /\ StoreBody(r, index[r])

WriteIndex ==
    /\ tx.kind = "store" /\ ~tx.indexed
    /\ index' = [index EXCEPT ![tx.for] = tx.at]
    /\ tx' = [tx EXCEPT !.indexed = TRUE]
    /\ UNCHANGED <<file, inodes, blob, ledger, response, pinned, today, faults>>

\* Defect for the mutation runs: any row is taken for a body that is there.
RegisterKnownBlob(at) ==
    /\ blob' = IF blob.state = "absent" THEN [state |-> "present", storedOn |-> at]
                                        ELSE blob
    /\ ledger' = ledger

\* The rows put_blob adds: none for a body that is present, a new row, or a
\* retired body's return.
RegisterBlob(at) ==
    /\ blob' = CASE blob.state = "absent" -> [state |-> "present", storedOn |-> at]
                 [] OTHER -> [blob EXCEPT !.state = "present"]
    /\ ledger' = IF blob.state = "deleted"
                   THEN [ledger EXCEPT !.last = "rehydrated", !.renewedOn = at]
                   ELSE ledger

Register ==
    /\ tx.kind = "store" /\ tx.indexed
    /\ RegisterBlob(tx.at)
    /\ response' = [response EXCEPT
                      ![tx.for] = [stored |-> TRUE, at |-> tx.at, applied |-> FALSE]]
    /\ tx' = NoTx
    /\ UNCHANGED <<file, inodes, index, pinned, today, faults>>

\* The transaction fails, or the process dies in it: rows are rolled back and
\* files stay.
Abandon ==
    /\ tx # NoTx
    /\ faults < MaxFaults
    /\ faults' = faults + 1
    /\ tx' = NoTx
    /\ UNCHANGED <<file, inodes, blob, ledger, index, response, pinned, today>>

-----------------------------------------------------------------------------
(* Life of a stored response.                                                *)

\* Its work item, slot, billing and every consumer reach a final state.
Apply(r) ==
    /\ tx = NoTx
    /\ response[r].stored /\ ~response[r].applied
    /\ response' = [response EXCEPT ![r].applied = TRUE]
    /\ UNCHANGED <<file, inodes, blob, ledger, index, pinned, tx, today, faults>>

Pin ==
    /\ tx = NoTx
    /\ blob.state = "present" /\ ~pinned
    /\ pinned' = TRUE
    /\ UNCHANGED <<file, inodes, blob, ledger, index, response, tx, today, faults>>

Unpin ==
    /\ tx = NoTx
    /\ pinned
    /\ pinned' = FALSE
    /\ UNCHANGED <<file, inodes, blob, ledger, index, response, tx, today, faults>>

-----------------------------------------------------------------------------
(* Maintenance.                                                              *)

\* The first transaction: a readable body with nothing left that protects it.
Retire ==
    /\ tx = NoTx
    /\ blob.state = "present"
    /\ ~Hot(blob.storedOn)
    /\ ~Protected
    /\ file # 0
    /\ ledger' = [ledger EXCEPT !.last = "intent", !.inode = file]
    /\ blob' = [blob EXCEPT !.state = "deleted"]
    /\ UNCHANGED <<file, inodes, index, response, pinned, tx, today, faults>>

\* Only a retirement that is still the last word may touch the file.
Cleanable == blob.state = "deleted" /\ ledger.last = "intent"

\* Defect for the mutation runs: a missing file is an error like any other.
UnlinkableExact == file = ledger.inode /\ file # 0

\* A missing file means an earlier attempt got this far; a file that is not the
\* one the intent names is an error, and nothing happens.
Unlinkable == file \in {0, ledger.inode}

\* The second transaction, up to the unlink.
Unlink ==
    /\ tx = NoTx
    /\ Cleanable /\ Unlinkable
    /\ file' = 0
    /\ tx' = [kind |-> "cleanup"]
    /\ UNCHANGED <<inodes, blob, ledger, index, response, pinned, today, faults>>

Complete ==
    /\ tx.kind = "cleanup"
    /\ ledger' = [ledger EXCEPT !.last = "retired"]
    /\ tx' = NoTx
    /\ UNCHANGED <<file, inodes, blob, index, response, pinned, today, faults>>

NextDay ==
    /\ today < MaxDay
    /\ today' = today + 1
    /\ UNCHANGED <<file, inodes, blob, ledger, index, response, pinned, tx, faults>>

-----------------------------------------------------------------------------
Cleanup == Unlink \/ Complete

Next ==
    \/ \E r \in Responses : Receive(r) \/ Replay(r) \/ Apply(r)
    \/ WriteIndex \/ Register \/ Abandon
    \/ Pin \/ Unpin
    \/ Retire \/ Cleanup
    \/ NextDay

RawSpec == Init /\ [][Next]_vars

\* Maintenance comes round every five minutes, and a transaction in the writer
\* process runs to its end unless it fails.
FairRawSpec ==
    /\ RawSpec
    /\ WF_vars(Unlink)
    /\ WF_vars(Complete)
    /\ WF_vars(WriteIndex)
    /\ WF_vars(Register)

-----------------------------------------------------------------------------
(* Properties.                                                               *)

\* The body of a pinned blob, and of a response that is recent or not yet fully
\* applied, can be read, whatever retirement, return and failed transaction
\* came before; and a row that says present never points at nothing
\* (read_blob, protection_reasons, _cleanup_locked).
EvidenceSurvives ==
    /\ blob.state = "present" => file # 0
    /\ \A r \in Stored : Hot(response[r].at) \/ ~response[r].applied
            => blob.state = "present"
    /\ pinned => blob.state = "present"

\* A retirement that was committed ends, even when the process dies between the
\* unlink and its record: the body is recorded as gone or is back, unless a
\* failed store has left another file at the path (maintenance_tick).
CleanupEnds ==
    Cleanable ~> (~Cleanable \/ file \notin {0, ledger.inode})

=============================================================================
