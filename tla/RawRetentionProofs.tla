------------------------- MODULE RawRetentionProofs -------------------------
(***************************************************************************)
(* Proofs about RawRetention, for any number of responses, days and faults. *)
(* What keeps evidence is that a body is retired only when every response   *)
(* stored so far is applied and cold, and that a response stored later      *)
(* brings the body back in the transaction that registers it.               *)
(***************************************************************************)
EXTENDS RawRetention, TLAPS

\* A row that says present, and a store under way, have their file.
FileThere == blob.state = "present" \/ tx.kind = "store" => file # 0

\* The cleanup holds a retirement that nothing has taken back.
CleanupOfRetired == tx.kind = "cleanup" => Cleanable

\* Nothing is stored or pinned before the body's row exists.
NothingBefore == blob.state = "absent" => Stored = {} /\ ~pinned

\* What a retired body was kept for is done.
RetiredIsDone ==
    blob.state = "deleted" =>
        /\ ~pinned
        /\ \A r \in Stored : response[r].applied /\ ~Hot(response[r].at)

IInv == RawTypeOK /\ FileThere /\ CleanupOfRetired /\ NothingBefore /\ RetiredIsDone

-----------------------------------------------------------------------------
\* A transaction is of one of three kinds, and a store names its response.
LEMMA TxKinds ==
    ASSUME RawTypeOK
    PROVE  /\ tx = NoTx <=> tx.kind = "none"
           /\ tx.kind = "store" => /\ tx.for \in Responses /\ tx.at \in Days
                                   /\ tx.indexed \in BOOLEAN
<1>1. CASE tx = NoTx
  BY <1>1 DEF NoTx
<1>2. CASE tx \in StoreTx
  <2>1. tx.kind = "store" /\ tx.for \in Responses /\ tx.at \in Days /\ tx.indexed \in BOOLEAN
    BY <1>2 DEF StoreTx
  <2> QED BY <2>1 DEF NoTx
<1>3. CASE tx \in CleanupTx
  <2>1. tx.kind = "cleanup"
    BY <1>3 DEF CleanupTx
  <2> QED BY <2>1 DEF NoTx
<1> QED BY <1>1, <1>2, <1>3 DEF RawTypeOK

LEMMA InitInductive == Init => IInv
<1> SUFFICES ASSUME Init PROVE IInv
  OBVIOUS
<1>1. RawTypeOK
  <2>1. /\ response \in [Responses -> [stored : BOOLEAN, at : Days, applied : BOOLEAN]]
        /\ index \in [Responses -> Days]
    BY RawConstants DEF Init, Unregistered, Days
  <2>2. /\ blob \in [state : {"absent", "present", "deleted"}, storedOn : Days]
        /\ ledger \in [last : {"none", "intent", "retired", "rehydrated"},
                       inode : Nat, renewedOn : Days]
    BY RawConstants DEF Init, Days
  <2>3. file \in 0..inodes /\ inodes \in Nat /\ faults \in 0..MaxFaults
    BY RawConstants DEF Init
  <2>4. today \in 1..MaxDay
    BY RawConstants DEF Init
  <2>5. pinned \in BOOLEAN /\ tx = NoTx
    BY DEF Init
  <2> QED BY <2>1, <2>2, <2>3, <2>4, <2>5 DEF RawTypeOK
<1>2. tx.kind = "none" /\ Stored = {}
  BY DEF Init, NoTx, Stored, Unregistered
<1> QED
  BY <1>1, <1>2 DEF Init, IInv, FileThere, CleanupOfRetired, NothingBefore, RetiredIsDone

-----------------------------------------------------------------------------
(* The type invariant.                                                     *)

LEMMA TypeStep == ASSUME RawTypeOK, [Next]_vars PROVE RawTypeOK'
<1> USE RawConstants
<1>1. ASSUME NEW r \in Responses, NEW at \in Days, StoreBody(r, at) PROVE RawTypeOK'
  <2>1. file' \in 0..inodes' /\ inodes' \in Nat
    BY <1>1 DEF StoreBody, WriteFile, RawTypeOK
  <2>2. tx' \in StoreTx
    BY <1>1 DEF StoreBody, StoreTx
  <2> QED BY <1>1, <2>1, <2>2 DEF StoreBody, RawTypeOK
<1>2. ASSUME NEW r \in Responses, Receive(r) \/ Replay(r) PROVE RawTypeOK'
  BY <1>1, <1>2 DEF Receive, Replay, RawTypeOK, Days
<1>3. ASSUME NEW r \in Responses, Apply(r) PROVE RawTypeOK'
  BY <1>3 DEF Apply, RawTypeOK
<1>4. CASE WriteIndex
  <2>1. tx' \in StoreTx /\ index' \in [Responses -> Days]
    <3>1. tx \in StoreTx /\ tx.for \in Responses /\ tx.at \in Days
      BY <1>4, TxKinds DEF WriteIndex, RawTypeOK, NoTx, CleanupTx
    <3> QED BY <1>4, <3>1 DEF WriteIndex, RawTypeOK, StoreTx
  <2> QED BY <1>4, <2>1 DEF WriteIndex, RawTypeOK
<1>5. CASE Register
  <2>1. tx.for \in Responses /\ tx.at \in Days
    BY <1>5, TxKinds DEF Register
  <2>2. /\ blob' \in [state : {"absent", "present", "deleted"}, storedOn : Days]
        /\ ledger' \in [last : {"none", "intent", "retired", "rehydrated"},
                        inode : Nat, renewedOn : Days]
    BY <1>5, <2>1 DEF Register, RegisterBlob, RawTypeOK
  <2>3. response' \in [Responses -> [stored : BOOLEAN, at : Days, applied : BOOLEAN]]
    BY <1>5, <2>1 DEF Register, RawTypeOK
  <2> QED BY <1>5, <2>2, <2>3 DEF Register, RawTypeOK, NoTx
<1>6. CASE Abandon
  BY <1>6 DEF Abandon, RawTypeOK, NoTx
<1>7. CASE Pin \/ Unpin
  BY <1>7 DEF Pin, Unpin, RawTypeOK
<1>8. CASE Retire
  <2>1. file \in Nat
    BY DEF RawTypeOK
  <2>2. /\ blob' \in [state : {"absent", "present", "deleted"}, storedOn : Days]
        /\ ledger' \in [last : {"none", "intent", "retired", "rehydrated"},
                        inode : Nat, renewedOn : Days]
    BY <1>8, <2>1 DEF Retire, RawTypeOK
  <2> QED BY <1>8, <2>2 DEF Retire, RawTypeOK
<1>9. CASE Unlink
  BY <1>9 DEF Unlink, RawTypeOK, CleanupTx
<1>10. CASE Complete
  BY <1>10 DEF Complete, RawTypeOK, NoTx
<1>11. CASE NextDay
  BY <1>11 DEF NextDay, RawTypeOK
<1>12. CASE UNCHANGED vars
  BY <1>12 DEF vars, RawTypeOK
<1> QED
  BY <1>2, <1>3, <1>4, <1>5, <1>6, <1>7, <1>8, <1>9, <1>10, <1>11, <1>12 DEF Next, Cleanup

-----------------------------------------------------------------------------
(* The other parts of the invariant, one step per action that touches them. *)

LEMMA FileStep == ASSUME IInv, [Next]_vars PROVE FileThere'
<1> USE DEF IInv, FileThere
<1>1. ASSUME NEW r \in Responses, Receive(r) \/ Replay(r) PROVE FileThere'
  BY <1>1 DEF Receive, Replay, StoreBody, WriteFile, RawTypeOK
<1>2. CASE WriteIndex
  BY <1>2, TxKinds DEF WriteIndex
<1>3. CASE Register
  BY <1>3 DEF Register
<1>4. CASE Unlink
  BY <1>4 DEF Unlink, Cleanable
<1>5. CASE Abandon \/ Complete
  BY <1>5 DEF Abandon, Complete, NoTx
<1>6. CASE Retire
  BY <1>6 DEF Retire
<1>7. CASE \/ Pin \/ Unpin \/ NextDay \/ UNCHANGED vars \/ \E r \in Responses : Apply(r)
  BY <1>7 DEF Pin, Unpin, NextDay, vars, Apply
<1> QED
  BY <1>1, <1>2, <1>3, <1>4, <1>5, <1>6, <1>7 DEF Next, Cleanup

LEMMA CleanupStep == ASSUME IInv, [Next]_vars PROVE CleanupOfRetired'
<1> USE DEF IInv, CleanupOfRetired, Cleanable
<1>1. ASSUME NEW r \in Responses, Receive(r) \/ Replay(r) PROVE CleanupOfRetired'
  BY <1>1 DEF Receive, Replay, StoreBody
<1>2. CASE WriteIndex
  BY <1>2, TxKinds DEF WriteIndex, RawTypeOK, NoTx, StoreTx, CleanupTx
<1>3. CASE Register \/ Abandon \/ Complete
  BY <1>3 DEF Register, Abandon, Complete, NoTx
<1>4. CASE Unlink
  BY <1>4 DEF Unlink
<1>5. CASE Retire
  BY <1>5, TxKinds DEF Retire
<1>6. CASE \/ Pin \/ Unpin \/ NextDay \/ UNCHANGED vars \/ \E r \in Responses : Apply(r)
  BY <1>6 DEF Pin, Unpin, NextDay, vars, Apply
<1> QED
  BY <1>1, <1>2, <1>3, <1>4, <1>5, <1>6 DEF Next, Cleanup

LEMMA BeforeStep == ASSUME IInv, [Next]_vars PROVE NothingBefore'
<1> USE DEF IInv, NothingBefore, Stored
<1>1. ASSUME NEW r \in Responses, Receive(r) \/ Replay(r) PROVE NothingBefore'
  BY <1>1 DEF Receive, Replay, StoreBody
<1>2. CASE Register
  <2>1. blob'.state # "absent"
    BY <1>2 DEF Register, RegisterBlob, RawTypeOK
  <2> QED BY <2>1
<1>3. ASSUME NEW r \in Responses, Apply(r) PROVE NothingBefore'
  BY <1>3 DEF Apply, RawTypeOK
<1>4. CASE Retire
  BY <1>4 DEF Retire, RawTypeOK
<1>5. CASE WriteIndex \/ Abandon \/ Unlink \/ Complete \/ Pin \/ Unpin \/ NextDay \/ UNCHANGED vars
  BY <1>5 DEF WriteIndex, Abandon, Unlink, Complete, Pin, Unpin, NextDay, vars
<1> QED
  BY <1>1, <1>2, <1>3, <1>4, <1>5 DEF Next, Cleanup

LEMMA DoneStep == ASSUME IInv, [Next]_vars PROVE RetiredIsDone'
<1> USE DEF IInv, RetiredIsDone, Stored
<1>1. ASSUME NEW r \in Responses, Receive(r) \/ Replay(r) PROVE RetiredIsDone'
  BY <1>1 DEF Receive, Replay, StoreBody, Hot
<1>2. CASE Register
  <2>1. blob'.state = "present"
    BY <1>2 DEF Register, RegisterBlob, RawTypeOK
  <2> QED BY <2>1
<1>3. ASSUME NEW r \in Responses, Apply(r) PROVE RetiredIsDone'
  BY <1>3 DEF Apply, RawTypeOK, Hot
<1>4. CASE Retire
  BY <1>4 DEF Retire, Protected, Hot
<1>5. CASE NextDay
  <2>1. ASSUME NEW r \in Stored, ~Hot(response[r].at) PROVE ~Hot(response[r].at)'
    BY <1>5, <2>1, RawConstants DEF NextDay, RawTypeOK, Hot, Days
  <2> QED BY <1>5, <2>1 DEF NextDay
<1>6. CASE WriteIndex \/ Abandon \/ Unlink \/ Complete \/ Pin \/ Unpin \/ UNCHANGED vars
  BY <1>6 DEF WriteIndex, Abandon, Unlink, Complete, Pin, Unpin, vars, Hot
<1> QED
  BY <1>1, <1>2, <1>3, <1>4, <1>5, <1>6 DEF Next, Cleanup

-----------------------------------------------------------------------------
(* The inductive invariant holds throughout.                               *)
THEOREM Inductive == RawSpec => []IInv
<1>1. IInv /\ [Next]_vars => IInv'
  <2> SUFFICES ASSUME IInv, [Next]_vars PROVE IInv'
    OBVIOUS
  <2>1. RawTypeOK'
    BY TypeStep DEF IInv
  <2> QED
    BY <2>1, FileStep, CleanupStep, BeforeStep, DoneStep DEF IInv
<1> QED
  BY InitInductive, <1>1, PTL DEF RawSpec

(* The type invariant of the model. *)
THEOREM TypeCorrect == RawSpec => []RawTypeOK
<1>1. IInv => RawTypeOK
  BY DEF IInv
<1> QED BY Inductive, <1>1, PTL

(* Pinned, recent and unapplied evidence stays readable, whichever          *)
(* transactions failed and however often the body was retired and returned. *)
THEOREM EvidenceIsKept == RawSpec => []EvidenceSurvives
<1>1. IInv => EvidenceSurvives
  <2> SUFFICES ASSUME IInv PROVE EvidenceSurvives
    OBVIOUS
  <2>1. blob.state \in {"absent", "present", "deleted"}
    BY DEF IInv, RawTypeOK
  <2> QED
    BY <2>1 DEF IInv, FileThere, NothingBefore, RetiredIsDone, EvidenceSurvives
<1> QED BY Inductive, <1>1, PTL

(* A file is only ever unlinked under a committed retirement, which no       *)
(* response, pin or return has taken back in between (_cleanup_locked).      *)
THEOREM UnlinkIsCommitted == RawSpec => [][file # 0 /\ file' = 0 => Cleanable /\ ~pinned]_vars
<1>1. IInv /\ [Next]_vars => [file # 0 /\ file' = 0 => Cleanable /\ ~pinned]_vars
  <2> SUFFICES ASSUME IInv, Next, file # 0, file' = 0 PROVE Cleanable /\ ~pinned
    BY DEF vars
  <2>1. CASE Unlink
    BY <2>1 DEF Unlink, IInv, RetiredIsDone, Cleanable
  <2>2. ASSUME NEW r \in Responses, Receive(r) \/ Replay(r) PROVE FALSE
    BY <2>2 DEF Receive, Replay, StoreBody, WriteFile, IInv, RawTypeOK
  <2>3. CASE \/ WriteIndex \/ Register \/ Abandon \/ Pin \/ Unpin \/ Retire \/ Complete
             \/ NextDay \/ \E r \in Responses : Apply(r)
    BY <2>3 DEF WriteIndex, Register, Abandon, Pin, Unpin, Retire, Complete, NextDay, Apply
  <2> QED BY <2>1, <2>2, <2>3 DEF Next, Cleanup
<1> QED BY Inductive, <1>1, PTL DEF RawSpec
=============================================================================
