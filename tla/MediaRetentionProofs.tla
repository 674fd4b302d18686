------------------------ MODULE MediaRetentionProofs ------------------------
(***************************************************************************)
(* Proofs about MediaRetention, for any members, readers, jobs, requests   *)
(* and faults.                                                             *)
(*                                                                         *)
(* An operation is alone: it holds both locks, nobody has a lease, and     *)
(* nothing but its own steps changes control row and files.  What it found *)
(* when it checked the row is therefore still true at each later stage     *)
(* (Stage), but for the clock, and deadlines that have passed stay passed. *)
(***************************************************************************)
EXTENDS MediaRetention, FiniteSetTheorems, SequenceTheorems, WellFoundedInduction, TLAPS

\* The row has its fields, whatever the ones hold that the proof does not need.
RowShape ==
    /\ row = [storage |-> row.storage, op |-> row.op, due |-> row.due,
              intents |-> row.intents, settled |-> row.settled,
              present |-> row.present, released |-> row.released,
              restores |-> row.restores, restoredAt |-> row.restoredAt,
              purgeHot |-> row.purgeHot, request |-> row.request]
    /\ row.due \in Nat \cup {None}
    /\ now \in Nat

\* An operation is under way alone.
Alone ==
    /\ exec = [task |-> exec.task, job |-> exec.job, stage |-> exec.stage]
    /\ readers = {} \/ exec = NoExec

\* The storage state follows from the deadline; only what is archived was restored.
Storage ==
    /\ row.storage \in {"hot", "archived", "expired"}
    /\ Verified <=> row.storage # "hot"
    /\ row.present => Verified

\* Neither a purge nor its end.
Alive == row.op # "purging" /\ row.storage # "expired"

\* What each stage of an operation rests on.
Stage ==
    /\ In("archive", "copy") => ~Verified
    /\ In("archive", "commit") => ~Verified /\ pack = Members
    /\ In("archive", "verify") => Verified
    /\ exec.stage = "settle" => Verified /\ Alive
    /\ In("restore", "copy") => Verified /\ Alive
    /\ In("retention", "archive") \/ In("retention", "hot") => row.op = "purging"

IInv ==
    RowShape /\ Alone /\ Storage /\ Stage
    /\ OriginalsSurvive /\ GoneIsExplained /\ LeaseKeepsOriginals

\* The parts of the row that the invariant speaks of, but for its deletions.
SameLife ==
    /\ row'.storage = row.storage /\ row'.op = row.op /\ row'.due = row.due
    /\ row'.present = row.present

\* Once deletion has begun: what NothingComesBack says of one step.
StaysGone ==
    row.op = "purging" \/ row.storage = "expired" =>
        /\ row'.op = "purging" \/ row'.storage = "expired"
        /\ row.storage = "expired" => row'.storage = "expired"
        /\ hot' \subseteq hot /\ pack' \subseteq pack /\ row'.due = row.due

LEMMA InitInductive == InitMedia => IInv
<1> SUFFICES ASSUME InitMedia PROVE IInv
  OBVIOUS
<1>1. RowShape /\ Alone /\ Storage
  BY DEF InitMedia, RowShape, Alone, Storage, NoExec, Task, Verified, None
<1>2. Stage
  BY DEF InitMedia, Stage, In, NoExec, Task
<1>3. OriginalsSurvive /\ GoneIsExplained /\ LeaseKeepsOriginals
  BY DEF InitMedia, OriginalsSurvive, GoneIsExplained, LeaseKeepsOriginals, Verified, None
<1> QED BY <1>1, <1>2, <1>3 DEF IInv

-----------------------------------------------------------------------------
(* Steps that leave row and files alone.                                   *)

\* Nothing that the invariant speaks of changes, but the clock and the end of
\* an operation.
Quiet ==
    /\ hot' = hot /\ pack' = pack
    /\ row' = row \/ (SameLife /\ RowShape')
    /\ row'.intents = row.intents /\ row'.settled = row.settled
    /\ now' = now \/ now' = now + 1
    /\ readers' \subseteq readers
    /\ exec' = exec \/ exec' = NoExec

LEMMA Rest == ASSUME IInv, Quiet PROVE IInv' /\ StaysGone
<1> USE DEF IInv, Quiet
<1>1. SameLife /\ RowShape'
  BY DEF SameLife, RowShape
<1>2. IsDue => IsDue'
  BY <1>1 DEF SameLife, RowShape, IsDue, Verified
<1>3. Alone' /\ Storage'
  BY <1>1 DEF Alone, Storage, SameLife, Verified, NoExec
<1>4. Stage'
  BY <1>1 DEF Stage, In, Alive, SameLife, Verified, NoExec, Task
<1>5. OriginalsSurvive' /\ LeaseKeepsOriginals'
  BY <1>1, <1>2 DEF OriginalsSurvive, LeaseKeepsOriginals, SameLife, Verified
<1>6. GoneIsExplained'
  BY <1>1 DEF GoneIsExplained, SameLife, Verified
<1>7. StaysGone
  BY <1>1 DEF StaysGone, SameLife
<1> QED BY <1>1, <1>3, <1>4, <1>5, <1>6, <1>7

LEMMA Consumers ==
    ASSUME IInv,
           \/ \E r \in Readers : OpenLease(r) \/ CloseLease(r)
           \/ RequestRestore \/ RequestAgain
    PROVE  IInv' /\ StaysGone
<1>1. ASSUME NEW r \in Readers, OpenLease(r) PROVE IInv' /\ StaysGone
  <2>1. Alone' /\ LeaseKeepsOriginals'
    BY <1>1 DEF OpenLease, IInv, Alone, LeaseKeepsOriginals, HotComplete
  <2>2. RowShape' /\ Storage' /\ Stage' /\ OriginalsSurvive' /\ GoneIsExplained' /\ StaysGone
    BY <1>1 DEF OpenLease, IInv, RowShape, Storage, Stage, In, Alive, OriginalsSurvive,
       GoneIsExplained, Verified, IsDue, StaysGone
  <2> QED BY <2>1, <2>2 DEF IInv
<1>2. ASSUME NEW r \in Readers, CloseLease(r) PROVE IInv' /\ StaysGone
  <2>1. Quiet
    BY <1>2 DEF Quiet, CloseLease
  <2> QED BY <2>1, Rest
<1>3. CASE RequestRestore
  <2>1. /\ SameLife /\ row'.intents = row.intents /\ row'.settled = row.settled
        /\ RowShape'
    BY <1>3 DEF RequestRestore, SameLife, IInv, RowShape
  <2>2. Quiet
    BY <1>3, <2>1 DEF Quiet, RequestRestore
  <2> QED BY <2>2, Rest
<1>4. CASE RequestAgain
  <2>1. Quiet
    BY <1>4 DEF Quiet, RequestAgain
  <2> QED BY <2>1, Rest
<1> QED BY <1>1, <1>2, <1>3, <1>4

\* An operation starts with nothing but its check.
LEMMA Decisions ==
    ASSUME IInv, NEW j \in Jobs, Decide(j) \/ Blocked(j) \/ Begin(j)
    PROVE  IInv' /\ StaysGone
<1>1. CASE Decide(j) \/ Blocked(j)
  <2>1. Quiet
    BY <1>1 DEF Quiet, Decide, Blocked
  <2> QED BY <2>1, Rest
<1>2. CASE Begin(j) /\ UNCHANGED exec
  <2>1. Quiet
    BY <1>2 DEF Quiet, Begin
  <2> QED BY <2>1, Rest
<1>3. CASE Begin(j) /\ exec' # exec
  <2>1. /\ UNCHANGED <<row, now, hot, pack, readers>> /\ readers = {}
        /\ exec' = [task |-> Head(plan[j]), job |-> j, stage |-> "check"]
    BY <1>3 DEF Begin, LocksFree
  <2>2. Alone' /\ Stage'
    BY <2>1 DEF Alone, Stage, In
  <2> QED BY <2>1, <2>2 DEF IInv, RowShape, Storage, OriginalsSurvive, GoneIsExplained,
         LeaseKeepsOriginals, Verified, IsDue, StaysGone
<1> QED BY <1>1, <1>2, <1>3

LEMMA Faults ==
    ASSUME IInv, FailIO \/ LoseOwnership \/ Crash \/ Tick \/ UNCHANGED mediaVars
    PROVE  IInv' /\ StaysGone
<1>1. CASE FailIO
  <2>1. Quiet
    BY <1>1 DEF Quiet, FailIO, Partial
  <2> QED BY <2>1, Rest
<1>2. CASE LoseOwnership \/ Crash
  <2>1. Quiet
    BY <1>2 DEF Quiet, LoseOwnership, Crash, IInv, RowShape
  <2> QED BY <2>1, Rest
<1>3. CASE Tick
  <2>1. Quiet
    BY <1>3 DEF Quiet, Tick
  <2> QED BY <2>1, Rest
<1>4. CASE UNCHANGED mediaVars
  <2>1. Quiet
    BY <1>4 DEF Quiet, mediaVars
  <2> QED BY <2>1, Rest
<1> QED BY <1>1, <1>2, <1>3, <1>4

-----------------------------------------------------------------------------
(* The steps of an operation.                                              *)

\* While an operation works, its steps need only keep what Stage and the three
\* properties say of row and files.
LEMMA Working ==
    ASSUME IInv, exec.stage # "none", UNCHANGED <<now, readers>>
    PROVE  readers = {} /\ LeaseKeepsOriginals'
BY DEF IInv, Alone, NoExec, LeaseKeepsOriginals

LEMMA Archive ==
    ASSUME IInv, CheckArchive \/ CopyPack \/ CommitArchive \/ VerifyArchive
    PROVE  IInv' /\ StaysGone
<1>0. exec.task.op = "archive" /\ exec.stage # "none" /\ UNCHANGED <<now, readers, hot>>
  BY DEF CheckArchive, CopyPack, CommitArchive, VerifyArchive, In
<1>1. CASE CheckArchive
  <2>1. CASE ~Verified /\ row' = [row EXCEPT !.op = "archiving"] /\ Goto("copy")
    <3>1. RowShape' /\ Alone' /\ Storage' /\ Stage'
      BY <1>1, <2>1 DEF CheckArchive, IInv, RowShape, Alone, Storage, Stage, In, Goto,
         Verified, NoExec
    <3>2. OriginalsSurvive' /\ GoneIsExplained' /\ StaysGone
      BY <1>1, <2>1 DEF CheckArchive, IInv, RowShape, OriginalsSurvive, GoneIsExplained,
         StaysGone, Storage, Verified, IsDue
    <3> QED BY <1>0, <3>1, <3>2, Working DEF IInv
  <2>2. CASE Partial /\ UNCHANGED row
    <3>1. Quiet
      BY <1>1, <2>2 DEF Quiet, CheckArchive, Partial
    <3> QED BY <3>1, Rest
  <2>3. CASE Verified /\ Goto("verify") /\ UNCHANGED row
    <3>1. RowShape' /\ Alone' /\ Storage' /\ Stage'
      BY <1>1, <2>3 DEF CheckArchive, IInv, RowShape, Alone, Storage, Stage, In, Goto,
         Verified, NoExec
    <3>2. OriginalsSurvive' /\ GoneIsExplained' /\ StaysGone
      BY <1>1, <2>3 DEF CheckArchive, IInv, OriginalsSurvive, GoneIsExplained,
         StaysGone, Verified, IsDue
    <3> QED BY <1>0, <3>1, <3>2, Working DEF IInv
  <2> QED BY <1>1, <2>1, <2>2, <2>3 DEF CheckArchive
<1>2. CASE CopyPack
  <2>1. CASE Partial /\ UNCHANGED pack
    <3>1. Quiet
      BY <1>2, <2>1 DEF Quiet, CopyPack, Partial
    <3> QED BY <3>1, Rest
  <2>2. CASE pack' = Members /\ Goto("commit")
    <3>1. RowShape' /\ Alone' /\ Storage' /\ Stage'
      BY <1>2, <2>2 DEF CopyPack, IInv, RowShape, Alone, Storage, Stage, In, Goto,
         Verified, NoExec
    <3>2. OriginalsSurvive' /\ GoneIsExplained' /\ StaysGone
      BY <1>2, <2>2 DEF CopyPack, IInv, RowShape, OriginalsSurvive, GoneIsExplained,
         StaysGone, Stage, Storage, Verified, IsDue
    <3> QED BY <1>0, <3>1, <3>2, Working DEF IInv
  <2> QED BY <1>2, <2>1, <2>2 DEF CopyPack
<1>3. CASE CommitArchive
  <2>1. /\ ~Verified /\ pack = Members /\ exec' = [exec EXCEPT !.stage = "verify"]
        /\ row' = [row EXCEPT !.storage = "archived", !.op = "idle",
                              !.due = now + RetentionTime]
        /\ UNCHANGED pack
    BY <1>3 DEF CommitArchive, IInv, Stage, Goto
  <2>2. row'.due \in Nat /\ row'.storage = "archived" /\ row'.op = "idle" /\ RowShape'
    <3>1. now + RetentionTime \in Nat
      BY MediaConstants DEF IInv, RowShape
    <3>2. /\ row'.storage = "archived" /\ row'.op = "idle" /\ row'.due = now + RetentionTime
          /\ row' = [storage |-> row'.storage, op |-> row'.op, due |-> row'.due,
                     intents |-> row'.intents, settled |-> row'.settled,
                     present |-> row'.present, released |-> row'.released,
                     restores |-> row'.restores, restoredAt |-> row'.restoredAt,
                     purgeHot |-> row'.purgeHot, request |-> row'.request]
      BY <2>1 DEF IInv, RowShape
    <3> QED BY <1>0, <3>1, <3>2 DEF IInv, RowShape
  <2>3. Verified'
    BY <2>2 DEF Verified, None
  <2>4. Alone' /\ Storage' /\ Stage'
    BY <1>0, <2>1, <2>2, <2>3 DEF IInv, Alone, Storage, Stage, In, NoExec
  <2>5. OriginalsSurvive' /\ GoneIsExplained' /\ StaysGone
    BY <1>0, <2>1, <2>2, <2>3 DEF IInv, RowShape, OriginalsSurvive, GoneIsExplained,
       StaysGone, Storage, IsDue
  <2> QED BY <1>0, <2>2, <2>4, <2>5, Working DEF IInv
<1>4. CASE VerifyArchive
  <2>1. CASE Partial
    <3>1. Quiet
      BY <1>4, <2>1 DEF Quiet, VerifyArchive, Partial
    <3> QED BY <3>1, Rest
  <2>2. CASE PackComplete /\ ~IsDue /\ Goto("settle")
    <3>1. RowShape' /\ Alone' /\ Storage' /\ Stage'
      BY <1>4, <2>2 DEF VerifyArchive, IInv, RowShape, Alone, Storage, Stage, In, Goto,
         Alive, OriginalsSurvive, Verified, IsDue, NoExec
    <3>2. OriginalsSurvive' /\ GoneIsExplained' /\ StaysGone
      BY <1>4, <2>2 DEF VerifyArchive, IInv, OriginalsSurvive, GoneIsExplained,
         StaysGone, Verified, IsDue
    <3> QED BY <1>0, <3>1, <3>2, Working DEF IInv
  <2> QED BY <1>4, <2>1, <2>2 DEF VerifyArchive
<1> QED BY <1>1, <1>2, <1>3, <1>4

\* One transaction of _settle_members: a file goes only under its own intent.
Settling(why, place) ==
    /\ RowShape' /\ SameLife
    /\ exec' = exec \/ exec' = NoExec
    /\ \/ /\ hot' = hot /\ pack' = pack
          /\ row.intents \subseteq row'.intents
          /\ row'.settled \subseteq row.settled \cup row'.intents
       \/ /\ row' = row
          /\ \E m : Deletion(why, place, m) \in row.intents /\ Remove(place, m)

LEMMA SettleOneStep ==
    ASSUME IInv, NEW why, NEW place, NEW ms, SettleOne(why, place, ms), now' = now
    PROVE  Settling(why, place)
<1> DEFINE m == Min(Unsettled(why, place, ms))
<1> DEFINE d == Deletion(why, place, m)
<1>1. CASE m \in Files(place) /\ d \in row.settled
  BY <1>1 DEF SettleOne, Settling, Partial, IInv, RowShape, SameLife
<1>2. CASE m \in Files(place) /\ d \notin row.settled /\ d \in row.intents
  <2>1. Remove(place, m) /\ UNCHANGED <<row, exec>>
    BY <1>2 DEF SettleOne, IntentFirst
  <2> QED BY <1>2, <2>1 DEF Settling, IInv, RowShape, SameLife
<1>3. CASE m \in Files(place) /\ d \notin row.settled /\ d \notin row.intents
  <2>1. /\ row' = [row EXCEPT !.intents = @ \cup {d}]
        /\ UNCHANGED <<hot, pack, exec>>
    BY <1>3 DEF SettleOne, IntentFirst
  <2> HIDE DEF m, d
  <2> QED BY <2>1 DEF Settling, IInv, RowShape, SameLife
<1>4. CASE m \notin Files(place) /\ d \in row.intents
  <2>1. /\ row' = [row EXCEPT !.settled = @ \cup {d}]
        /\ UNCHANGED <<hot, pack, exec>>
    BY <1>4 DEF SettleOne
  <2>2. d \in row.intents
    BY <1>4
  <2> HIDE DEF m, d
  <2> QED BY <2>1, <2>2 DEF Settling, IInv, RowShape, SameLife
<1>5. CASE m \notin Files(place) /\ d \notin row.intents
  BY <1>5 DEF SettleOne, Settling, Partial, IInv, RowShape, SameLife
<1> QED BY <1>1, <1>2, <1>3, <1>4, <1>5

\* What a deletion transaction keeps: an original goes only from the hot volume
\* once the archive is verified, and from the archive only in a purge.
LEMMA SettlingKeeps ==
    ASSUME IInv, NEW why, NEW place \in {"hot", "pack"}, Settling(why, place),
           exec.stage # "none", UNCHANGED <<now, readers>>, Verified,
           place = "pack" => row.op = "purging" /\ why = Purge
    PROVE  IInv' /\ StaysGone
<1> USE DEF IInv
<1>1. RowShape' /\ SameLife
  BY DEF Settling
<1>2. hot' \subseteq hot /\ pack' \subseteq pack /\ (place = "hot" => pack' = pack)
  BY DEF Settling, Remove
<1>3. Alone' /\ Storage'
  BY <1>1 DEF Settling, Alone, Storage, SameLife, Verified, NoExec
<1>4. Stage'
  BY <1>1, <1>2 DEF Settling, Stage, In, Alive, SameLife, Verified, NoExec, Task
<1>5. OriginalsSurvive'
  BY <1>1, <1>2 DEF OriginalsSurvive, SameLife, Verified, IsDue
<1>6. GoneIsExplained'
  <2>1. CASE hot' = hot /\ pack' = pack /\ row.intents \subseteq row'.intents
             /\ row'.settled \subseteq row.settled \cup row'.intents
    BY <1>1, <2>1 DEF GoneIsExplained, SameLife, Verified
  <2>2. ASSUME NEW m, row' = row, Deletion(why, place, m) \in row.intents, Remove(place, m)
        PROVE  GoneIsExplained'
    <3>1. CASE place = "hot"
      BY <2>2, <3>1 DEF GoneIsExplained, Remove, Deletion, Verified
    <3>2. CASE place = "pack"
      BY <2>2, <3>2 DEF GoneIsExplained, Remove, Verified
    <3> QED BY <3>1, <3>2
  <2> QED BY <2>1, <2>2 DEF Settling
<1>7. LeaseKeepsOriginals'
  BY Working
<1>8. StaysGone
  BY <1>1, <1>2 DEF StaysGone, SameLife
<1> QED BY <1>1, <1>3, <1>4, <1>5, <1>6, <1>7, <1>8

LEMMA Release ==
    ASSUME IInv, CheckHotRelease \/ ReleaseHot
    PROVE  IInv' /\ StaysGone
<1>1. CASE CheckHotRelease
  <2>1. CASE Partial
    <3>1. Quiet
      BY <1>1, <2>1 DEF Quiet, CheckHotRelease, Partial
    <3> QED BY <3>1, Rest
  <2>2. CASE row.op # "purging" /\ row.present /\ ~IsDue /\ Goto("settle")
    <3>1. /\ exec' = [exec EXCEPT !.stage = "settle"] /\ exec.task.op = "hot_release"
          /\ exec.stage = "check" /\ UNCHANGED <<now, readers, hot, pack, row>>
      BY <1>1, <2>2 DEF CheckHotRelease, In, Goto
    <3>2. Verified /\ Alive
      BY <2>2 DEF IInv, Storage, OriginalsSurvive, Alive
    <3>3. Alone' /\ Stage'
      BY <3>1, <3>2 DEF IInv, Alone, Stage, In, Alive, Verified, NoExec
    <3>4. RowShape' /\ Storage' /\ OriginalsSurvive' /\ GoneIsExplained' /\ StaysGone
      BY <3>1 DEF IInv, RowShape, Storage, OriginalsSurvive, GoneIsExplained, Verified,
         IsDue, StaysGone
    <3> QED BY <3>1, <3>3, <3>4, Working DEF IInv
  <2> QED BY <1>1, <2>1, <2>2 DEF CheckHotRelease
<1>2. CASE ReleaseHot
  <2> DEFINE why == IF exec.task.op = "archive" THEN Initial ELSE Restored(row.restores)
  <2>1. /\ exec.stage = "settle" /\ exec.task.op \in {"archive", "hot_release"}
        /\ Verified /\ Alive /\ UNCHANGED <<now, readers>>
    BY <1>2 DEF ReleaseHot, IInv, Stage
  <2>2. CASE SettleOne(why, "hot", Members)
    <3>1. Settling(why, "hot")
      BY <2>1, <2>2, SettleOneStep
    <3> HIDE DEF why
    <3> QED BY <2>1, <3>1, SettlingKeeps
  <2>3. CASE /\ row' = [row EXCEPT !.released = TRUE, !.present = FALSE, !.op = "idle"]
             /\ Goto("done") /\ UNCHANGED <<hot, pack>>
    <3>1. exec' = [exec EXCEPT !.stage = "done"]
      BY <2>3 DEF Goto
    <3>2. RowShape' /\ Alone' /\ Storage' /\ Stage'
      <4>1. RowShape'
        BY <2>1, <2>3, <3>1 DEF IInv, RowShape
      <4>2. Alone' /\ Storage'
        BY <2>1, <2>3, <3>1 DEF IInv, RowShape, Alone, Storage, Alive, Verified, IsDue, NoExec
      <4>3. Stage'
        BY <2>1, <2>3, <3>1 DEF IInv, RowShape, Alone, Stage, In
      <4> QED BY <4>1, <4>2, <4>3
    <3>3. OriginalsSurvive' /\ GoneIsExplained' /\ StaysGone
      BY <2>1, <2>3 DEF IInv, RowShape, OriginalsSurvive, GoneIsExplained, StaysGone,
         Alive, Verified, IsDue
    <3> QED BY <2>1, <3>2, <3>3, Working DEF IInv
  <2> QED BY <1>2, <2>2, <2>3 DEF ReleaseHot
<1> QED BY <1>1, <1>2

LEMMA Restore ==
    ASSUME IInv, CheckRestore \/ CopyHot \/ CommitRestore
    PROVE  IInv' /\ StaysGone
<1>0. exec.task.op = "restore" /\ exec.stage # "none" /\ UNCHANGED <<now, readers, pack>>
  BY DEF CheckRestore, CopyHot, CommitRestore, In
<1>1. CASE CheckRestore
  <2>1. CASE Restorable /\ row' = [row EXCEPT !.op = "restoring"] /\ Goto("copy")
    <3>1. exec' = [exec EXCEPT !.stage = "copy"] /\ hot' = hot
      BY <1>1, <2>1 DEF CheckRestore, Goto
    <3>2. RowShape' /\ Alone' /\ Storage' /\ Stage'
      BY <1>0, <2>1, <3>1 DEF IInv, RowShape, Alone, Storage, Stage, In, Alive,
         Restorable, Verified, NoExec
    <3>3. OriginalsSurvive' /\ GoneIsExplained' /\ StaysGone
      BY <1>0, <2>1, <3>1 DEF IInv, RowShape, OriginalsSurvive, GoneIsExplained,
         StaysGone, Restorable, Verified, IsDue
    <3> QED BY <1>0, <3>2, <3>3, Working DEF IInv
  <2>2. CASE Partial /\ UNCHANGED row
    <3>1. Quiet
      BY <1>1, <2>2 DEF Quiet, CheckRestore, Partial
    <3> QED BY <3>1, Rest
  <2>3. CASE FailRequest
    <3>1. SameLife /\ RowShape' /\ row'.intents = row.intents /\ row'.settled = row.settled
      BY <1>0, <2>3 DEF FailRequest, SameLife, IInv, RowShape
    <3>2. Quiet
      BY <1>1, <2>3, <3>1 DEF Quiet, CheckRestore, FailRequest
    <3> QED BY <3>2, Rest
  <2> QED BY <1>1, <2>1, <2>2, <2>3 DEF CheckRestore
<1>2. CASE CopyHot \/ CommitRestore
  <2>1. Verified /\ Alive /\ In("restore", "copy")
    BY <1>2 DEF CopyHot, CommitRestore, IInv, Stage
  <2>2. CASE CopyHot
    <3>1. hot \subseteq hot' /\ UNCHANGED <<row, exec>>
      BY <2>2 DEF CopyHot
    <3>2. RowShape' /\ Alone' /\ Storage' /\ Stage'
      BY <1>0, <3>1 DEF IInv, RowShape, Alone, Storage, Stage, In, Alive, Verified
    <3>3. OriginalsSurvive' /\ GoneIsExplained' /\ StaysGone
      BY <1>0, <2>1, <3>1 DEF IInv, OriginalsSurvive, GoneIsExplained, StaysGone,
         Alive, Verified, IsDue
    <3> QED BY <1>0, <3>2, <3>3, Working DEF IInv
  <2>3. CASE CommitRestore
    <3>1. /\ exec' = [exec EXCEPT !.stage = "done"] /\ hot' = hot
          /\ row' = [row EXCEPT !.op = "idle", !.present = TRUE, !.restores = @ + 1,
                                !.restoredAt = now, !.request.status = "succeeded"]
      BY <2>3 DEF CommitRestore, Goto
    <3>2. RowShape' /\ Alone' /\ Storage' /\ Stage'
      <4>1. RowShape'
        BY <1>0, <2>1, <3>1 DEF IInv, RowShape
      <4>2. Alone' /\ Storage'
        BY <1>0, <2>1, <3>1 DEF IInv, RowShape, Alone, Storage, Alive, Verified, IsDue, NoExec
      <4>3. Stage'
        BY <1>0, <2>1, <3>1 DEF IInv, RowShape, Alone, Stage, In
      <4> QED BY <4>1, <4>2, <4>3
    <3>3. OriginalsSurvive' /\ GoneIsExplained' /\ StaysGone
      BY <1>0, <2>1, <3>1 DEF IInv, RowShape, OriginalsSurvive, GoneIsExplained,
         StaysGone, Alive, Verified, IsDue
    <3> QED BY <1>0, <3>2, <3>3, Working DEF IInv
  <2> QED BY <1>2, <2>2, <2>3
<1> QED BY <1>1, <1>2

LEMMA PurgeKeeps ==
    ASSUME IInv, CheckPurge \/ PurgeArchive \/ PurgeHot
    PROVE  IInv' /\ StaysGone
<1>0. exec.task.op = "retention" /\ exec.stage # "none" /\ UNCHANGED <<now, readers>>
  BY DEF CheckPurge, PurgeArchive, PurgeHot, In
<1>1. CASE CheckPurge
  <2>1. CASE row.storage = "expired" /\ Goto("done") /\ UNCHANGED row
    <3>1. exec' = [exec EXCEPT !.stage = "done"] /\ UNCHANGED <<hot, pack>>
      BY <1>1, <2>1 DEF CheckPurge, Goto
    <3>2. RowShape' /\ Alone' /\ Storage' /\ Stage'
      BY <1>0, <2>1, <3>1 DEF IInv, RowShape, Alone, Storage, Stage, In, Alive, Verified,
         NoExec
    <3>3. OriginalsSurvive' /\ GoneIsExplained' /\ StaysGone
      BY <1>0, <2>1, <3>1 DEF IInv, OriginalsSurvive, GoneIsExplained, StaysGone,
         Verified, IsDue
    <3> QED BY <1>0, <3>2, <3>3, Working DEF IInv
  <2>2. CASE /\ row.storage # "expired" /\ MayPurge
             /\ row' = [row EXCEPT !.op = "purging",
                                   !.purgeHot = IF row.op = "purging" THEN @ ELSE hot]
             /\ Goto("archive")
    <3>1. exec' = [exec EXCEPT !.stage = "archive"] /\ UNCHANGED <<hot, pack>>
      BY <1>1, <2>2 DEF CheckPurge, Goto
    <3>2. RowShape' /\ Alone' /\ Storage' /\ Stage'
      <4>1. RowShape'
        BY <1>0, <2>2, <3>1 DEF IInv, RowShape
      <4>2. Alone' /\ Storage'
        BY <1>0, <2>2, <3>1 DEF IInv, RowShape, Alone, Storage, Alive, MayPurge, Verified, IsDue, NoExec
      <4>3. Stage'
        BY <1>0, <2>2, <3>1 DEF IInv, RowShape, Alone, Stage, In
      <4> QED BY <4>1, <4>2, <4>3
    <3>3. OriginalsSurvive' /\ GoneIsExplained' /\ StaysGone
      BY <1>0, <2>2, <3>1 DEF IInv, RowShape, OriginalsSurvive, GoneIsExplained,
         StaysGone, MayPurge, Verified, IsDue
    <3> QED BY <1>0, <3>2, <3>3, Working DEF IInv
  <2>3. CASE Partial /\ UNCHANGED row
    <3>1. Quiet
      BY <1>1, <2>3 DEF Quiet, CheckPurge, Partial
    <3> QED BY <3>1, Rest
  <2> QED BY <1>1, <2>1, <2>2, <2>3 DEF CheckPurge
<1>2. CASE PurgeArchive \/ PurgeHot
  <2>1. row.op = "purging" /\ IsDue /\ Verified
    BY <1>2 DEF PurgeArchive, PurgeHot, IInv, Stage, OriginalsSurvive, IsDue
  <2>2. CASE SettleOne(Purge, "pack", Members)
    <3>1. Settling(Purge, "pack")
      BY <1>0, <2>2, SettleOneStep
    <3> QED BY <1>0, <2>1, <3>1, SettlingKeeps
  <2>3. CASE SettleOne(Purge, "hot", row.purgeHot)
    <3>1. Settling(Purge, "hot")
      BY <1>0, <2>3, SettleOneStep
    <3> QED BY <1>0, <2>1, <3>1, SettlingKeeps
  <2>4. CASE PurgeArchive /\ Goto("hot") /\ UNCHANGED <<hot, pack, row>>
    <3>1. exec' = [exec EXCEPT !.stage = "hot"]
      BY <2>4 DEF Goto
    <3>2. RowShape' /\ Alone' /\ Storage' /\ Stage'
      BY <1>0, <2>1, <2>4, <3>1 DEF IInv, RowShape, Alone, Storage, Stage, In, Alive,
         Verified, NoExec
    <3>3. OriginalsSurvive' /\ GoneIsExplained' /\ StaysGone
      BY <1>0, <2>4 DEF IInv, OriginalsSurvive, GoneIsExplained, StaysGone,
         Verified, IsDue
    <3> QED BY <1>0, <3>2, <3>3, Working DEF IInv
  <2>5. CASE PurgeArchive /\ Partial /\ UNCHANGED <<hot, pack, row>>
    <3>1. Quiet
      BY <1>0, <2>5 DEF Quiet, PurgeArchive, Partial
    <3> QED BY <3>1, Rest
  <2>6. CASE /\ PurgeHot /\ Goto("done") /\ UNCHANGED <<hot, pack>>
             /\ row' = [row EXCEPT !.storage = "expired", !.op = "idle", !.present = FALSE]
    <3>1. exec' = [exec EXCEPT !.stage = "done"]
      BY <2>6 DEF Goto
    <3>2. RowShape' /\ Alone' /\ Storage' /\ Stage'
      <4>1. RowShape'
        BY <1>0, <2>1, <2>6, <3>1 DEF IInv, RowShape
      <4>2. Alone' /\ Storage'
        BY <1>0, <2>1, <2>6, <3>1 DEF IInv, RowShape, Alone, Storage, Alive, Verified, IsDue, NoExec
      <4>3. Stage'
        BY <1>0, <2>1, <2>6, <3>1 DEF IInv, RowShape, Alone, Stage, In
      <4> QED BY <4>1, <4>2, <4>3
    <3>3. OriginalsSurvive' /\ GoneIsExplained' /\ StaysGone
      BY <1>0, <2>1, <2>6 DEF IInv, RowShape, OriginalsSurvive, GoneIsExplained,
         StaysGone, Verified, IsDue
    <3> QED BY <1>0, <3>2, <3>3, Working DEF IInv
  <2> QED BY <1>2, <2>2, <2>3, <2>4, <2>5, <2>6 DEF PurgeArchive, PurgeHot
<1> QED BY <1>1, <1>2

-----------------------------------------------------------------------------
(* Types.  That a receipt number names a run needs a count: every restore    *)
(* beyond one for each request repeats one whose end a fault has lost.       *)

\* The restore runs that have succeeded, and the one about to.
Committed == {n \in 1..MaxRequests : run[Task("restore", n)].status = "succeeded"}
Owed == IF In("restore", "done") THEN 1 ELSE 0

\* The tasks there can be after k requests.
Live(k) == {t \in Tasks : t.op = "restore" => t.n <= k}

Counted ==
    /\ faults <= MaxFaults
    /\ row.restores <= Cardinality(Committed) + faults + Owed
    /\ row.present => row.restores > 0

Asked ==
    /\ row.request.id <= MaxRequests
    /\ Pending => row.request.id > 0
    /\ \A n \in 1..MaxRequests :
          n > row.request.id => run[Task("restore", n)].status = "none"
    /\ plan \in [Jobs -> Seq(Live(row.request.id))]
    /\ exec = NoExec \/ exec.task \in Live(row.request.id)

TInv == MediaTypeOK /\ Counted /\ Asked

\* What surrounds row, runs and plans.
Surroundings ==
    /\ now \in Nat /\ activity \in Nat \cup {None} /\ readers \subseteq Readers
    /\ hot \subseteq Members /\ pack \subseteq Members /\ litter \subseteq {"hot", "pack"}

LEMMA MinIsIn == ASSUME NEW S, S \subseteq Nat, S # {} PROVE Min(S) \in S
<1> DEFINE R == OpToRel(<, Nat)
<1>1. IsWellFoundedOn(R, Nat) /\ \A x, y \in Nat : y < x => <<y, x>> \in R
  BY NatLessThanWellFounded DEF OpToRel
<1> HIDE DEF R
<1>2. PICK x \in S : \A y \in S : <<y, x>> \notin R
  BY WFMin, <1>1
<1>3. ASSUME NEW y \in S PROVE x <= y
  <2>1. y \in Nat /\ x \in Nat /\ ~(y < x)
    BY <1>1, <1>2
  <2> QED BY <2>1
<1> QED BY <1>3 DEF Min

LEMMA CommittedCount ==
    /\ Committed \subseteq 1..MaxRequests /\ IsFiniteSet(Committed)
    /\ Cardinality(Committed) \in Nat /\ Cardinality(Committed) <= MaxRequests
<1>1. MaxRequests \in Nat /\ Committed \subseteq 1..MaxRequests
  BY MediaConstants DEF Committed
<1>2. IsFiniteSet(1..MaxRequests) /\ Cardinality(1..MaxRequests) = MaxRequests
  BY <1>1, FS_Interval
<1>3. /\ IsFiniteSet(Committed)
      /\ Cardinality(Committed) <= MaxRequests
  BY <1>1, <1>2, FS_Subset
<1>4. Cardinality(Committed) \in Nat
  BY <1>3, FS_CardinalityType
<1> QED BY <1>1, <1>3, <1>4

LEMMA InitTypes == InitMedia => TInv
<1> SUFFICES ASSUME InitMedia PROVE TInv
  OBVIOUS
<1>1. row \in Row /\ run \in [Tasks -> Run]
  BY DEF InitMedia, Row, Run, None
<1>2. plan \in [Jobs -> Seq(Tasks)] /\ plan \in [Jobs -> Seq(Live(row.request.id))]
  BY DEF InitMedia
<1>3. MediaTypeOK
  BY <1>1, <1>2 DEF InitMedia, MediaTypeOK, None
<1>4. row.restores = 0 /\ row.request.id = 0 /\ ~Pending /\ ~row.present /\ faults = 0
  BY DEF InitMedia, Pending
<1>5. Owed \in {0, 1} /\ Cardinality(Committed) \in Nat /\ {MaxRequests, MaxFaults} \subseteq Nat
  BY CommittedCount, MediaConstants DEF Owed
<1>6. Counted
  BY <1>4, <1>5 DEF Counted
<1>7. \A n \in 1..MaxRequests : run[Task("restore", n)].status = "none"
  <2> SUFFICES ASSUME NEW n \in 1..MaxRequests
               PROVE  run[Task("restore", n)].status = "none"
    OBVIOUS
  <2>1. Task("restore", n) \in Tasks
    BY DEF Tasks
  <2> QED BY <2>1 DEF InitMedia
<1>8. Asked
  BY <1>2, <1>4, <1>5, <1>7 DEF Asked, InitMedia
<1> QED BY <1>3, <1>6, <1>8 DEF TInv

\* What a pass decides names runs that exist.
LEMMA PlansTyped ==
    ASSUME TInv, NEW j \in Jobs, NEW p \in Plans(j)
    PROVE  p \in Seq(Live(row.request.id))
<1> DEFINE L == Live(row.request.id)
<1>1. Task("retention", 0) \in L /\ Task("archive", 0) \in L
  BY DEF Live, Tasks, Task
<1>2. row.request.id \in Nat /\ row.restores \in Nat /\ faults \in Nat
  BY DEF TInv, MediaTypeOK, Row
<1>3. Pending => Task("restore", row.request.id) \in L
  <2> SUFFICES ASSUME Pending PROVE Task("restore", row.request.id) \in L
    OBVIOUS
  <2>1. row.request.id \in 1..MaxRequests
    BY <1>2, MediaConstants DEF TInv, Asked
  <2>2. Task("restore", row.request.id) \in Tasks
    BY <2>1 DEF Tasks
  <2> QED BY <1>2, <2>2 DEF Live, Task
<1>4. row.present => Task("hot_release", row.restores) \in L
  <2> SUFFICES ASSUME row.present PROVE Task("hot_release", row.restores) \in L
    OBVIOUS
  <2>1. Owed = 1 => Cardinality(Committed) + 1 <= MaxRequests
    <3> SUFFICES ASSUME In("restore", "done") PROVE Cardinality(Committed) + 1 <= MaxRequests
      BY CommittedCount, MediaConstants DEF Owed
    <3>1. exec # NoExec /\ exec.task \in Tasks /\ exec.task.op = "restore"
          /\ run[exec.task].status = "running"
      BY DEF In, NoExec, TInv, MediaTypeOK
    <3>2. PICK n \in 1..MaxRequests : exec.task = Task("restore", n)
      BY <3>1 DEF Tasks, Task
    <3>3. n \notin Committed
      BY <3>1, <3>2 DEF Committed
    <3>4. Cardinality(Committed \cup {n}) = Cardinality(Committed) + 1
      BY <3>3, CommittedCount, FS_AddElement
    <3>5. Committed \cup {n} \subseteq 1..MaxRequests
      BY CommittedCount
    <3>6. IsFiniteSet(1..MaxRequests) /\ Cardinality(1..MaxRequests) = MaxRequests
      BY MediaConstants, FS_Interval
    <3>7. Cardinality(Committed \cup {n}) <= Cardinality(1..MaxRequests)
      BY <3>5, <3>6, FS_Subset
    <3> QED BY <3>4, <3>6, <3>7
  <2>2. Owed \in {0, 1}
    BY DEF Owed
  <2>3. row.restores \in 1..MaxRestores
    BY <1>2, <2>1, <2>2, CommittedCount, MediaConstants DEF TInv, Counted, MaxRestores
  <2>4. Task("hot_release", row.restores) \in Tasks
    BY <2>3 DEF Tasks
  <2> QED BY <2>4 DEF Live, Task
<1> HIDE DEF L
<1>5. <<>> \in Seq(L) /\ \A t \in L : <<t>> \in Seq(L)
  OBVIOUS
<1>6. DuePlan(j) \in Seq(L)
  <2> DEFINE first == IF Pending THEN <<Task("restore", row.request.id)>> ELSE <<>>
             second == IF j = "media_retention" \/ row.op = "purging"
                       THEN <<Task("retention", 0)>> ELSE <<>>
  <2>1. first \in Seq(L) /\ second \in Seq(L)
    BY <1>1, <1>3, <1>5
  <2>2. DuePlan(j) = first \o second
    BY DEF DuePlan
  <2> HIDE DEF first, second
  <2> QED BY <2>1, <2>2, ConcatProperties
<1>7. ArchivePlan \in Seq(L)
  BY <1>1, <1>4, <1>5 DEF ArchivePlan
<1>8. p \in Seq(L)
  BY <1>3, <1>5, <1>6, <1>7 DEF Plans
<1> QED BY <1>8 DEF L

\* A step that leaves the runs alone, and of an operation changes its stage.
LEMMA MovesTyped ==
    ASSUME TInv, UNCHANGED <<run, faults>>, Surroundings', row' \in Row,
           plan' \in [Jobs -> Seq(Live(row.request.id))],
           row'.request.id = row.request.id, Pending' => Pending,
           row'.present => row'.restores > 0,
           row'.restores + Owed <= row.restores + Owed',
           \/ exec' = exec
           \/ exec # NoExec /\ \E s \in Stages : exec' = [exec EXCEPT !.stage = s]
    PROVE  TInv'
<1>1. Live(row.request.id) \subseteq Tasks
  BY DEF Live
<1>2. plan' \in [Jobs -> Seq(Tasks)]
  BY <1>1, SeqMonotonic
<1>3. \/ exec' = NoExec
      \/ /\ exec' \in [task : Tasks, job : Jobs, stage : Stages]
         /\ exec'.task = exec.task /\ exec # NoExec
  <2>1. CASE exec' = exec
    BY <2>1 DEF TInv, MediaTypeOK
  <2>2. ASSUME exec # NoExec, NEW s \in Stages, exec' = [exec EXCEPT !.stage = s]
        PROVE  /\ exec' \in [task : Tasks, job : Jobs, stage : Stages]
               /\ exec'.task = exec.task
    BY <2>2 DEF TInv, MediaTypeOK
  <2>3. NoExec.task \notin Tasks
    BY DEF NoExec, Tasks, Task
  <2> QED BY <2>1, <2>2, <2>3
<1>4. MediaTypeOK'
  BY <1>2, <1>3 DEF TInv, MediaTypeOK, Surroundings
<1>5. Committed' = Committed
  BY DEF Committed
<1>6. {row.restores, row'.restores, faults} \subseteq Nat /\ Cardinality(Committed) \in Nat
      /\ Owed \in {0, 1} /\ Owed' \in {0, 1}
  BY CommittedCount DEF TInv, MediaTypeOK, Row, Owed
<1>7. Counted'
  BY <1>5, <1>6 DEF TInv, Counted
<1>8. Asked'
  BY <1>3 DEF TInv, Asked
<1> QED BY <1>4, <1>7, <1>8 DEF TInv

\* A step that ends the run of an operation: with its receipt, or by a fault.
LEMMA EndsTyped ==
    ASSUME TInv, Surroundings', row' \in Row, exec # NoExec, exec' = NoExec, NEW u \in Run,
           run' = [run EXCEPT ![exec.task] = u],
           plan' = plan, row'.request.id = row.request.id, Pending' => Pending,
           row'.restores = row.restores, row'.present => row.present,
           faults' \in Nat, faults <= faults', faults' <= MaxFaults,
           In("restore", "done") => u.status = "succeeded" \/ faults' = faults + 1
    PROVE  TInv'
<1>1. exec.task \in Tasks /\ exec.task \in Live(row.request.id) /\ run \in [Tasks -> Run]
      /\ run[exec.task].status = "running"
  BY DEF TInv, MediaTypeOK, Asked
<1>2. run' \in [Tasks -> Run] /\ run'[exec.task] = u
      /\ \A t \in Tasks : t # exec.task => run'[t] = run[t]
  BY <1>1
<1>3. MediaTypeOK'
  BY <1>2 DEF TInv, MediaTypeOK, Surroundings
<1>4. \A n \in 1..MaxRequests : Task("restore", n) \in Tasks
  BY DEF Tasks
<1>5. Asked'
  <2> SUFFICES ASSUME NEW n \in 1..MaxRequests, n > row.request.id
               PROVE  run'[Task("restore", n)].status = "none"
    BY DEF TInv, Asked
  <2>1. run[Task("restore", n)].status = "none"
    BY DEF TInv, Asked
  <2>2. Task("restore", n) # exec.task
    BY <1>1, <2>1
  <2> QED BY <1>2, <1>4, <2>1, <2>2
<1>6. Committed \subseteq Committed'
  BY <1>1, <1>2, <1>4 DEF Committed
<1>7. IsFiniteSet(Committed') /\ Cardinality(Committed') \in Nat
  <2>1. Committed' \subseteq 1..MaxRequests /\ IsFiniteSet(1..MaxRequests)
    BY MediaConstants, FS_Interval DEF Committed
  <2> QED BY <2>1, FS_Subset, FS_CardinalityType
<1>8. Cardinality(Committed) <= Cardinality(Committed')
  BY <1>6, <1>7, FS_Subset
<1>9. In("restore", "done") /\ u.status = "succeeded" =>
          Cardinality(Committed) + 1 <= Cardinality(Committed')
  <2> SUFFICES ASSUME In("restore", "done"), u.status = "succeeded"
               PROVE  Cardinality(Committed) + 1 <= Cardinality(Committed')
    OBVIOUS
  <2>1. PICK n \in 1..MaxRequests : exec.task = Task("restore", n)
    BY <1>1 DEF In, Tasks, Task
  <2>2. n \in Committed' /\ n \notin Committed
    BY <1>1, <1>2, <2>1 DEF Committed
  <2>3. Committed # Committed'
    BY <2>2
  <2>4. Cardinality(Committed) # Cardinality(Committed')
    BY <1>6, <1>7, <2>3, FS_Subset
  <2> QED BY <1>7, <1>8, <2>4, CommittedCount
<1>10. Owed \in {0, 1} /\ (Owed = 1 => In("restore", "done")) /\ Owed' = 0
  BY DEF Owed, In, NoExec, Task
<1>11. Counted'
  <2>1. {row.restores, row'.restores, faults} \subseteq Nat
    BY DEF TInv, MediaTypeOK, Row
  <2>2. row'.restores <= Cardinality(Committed') + faults'
    BY <1>7, <1>8, <1>9, <1>10, <2>1, CommittedCount DEF TInv, Counted
  <2> QED BY <1>7, <1>10, <2>1, <2>2 DEF TInv, Counted
<1> QED BY <1>3, <1>5, <1>11 DEF TInv

\* A step that creates or starts a run that has not succeeded.
LEMMA StartsTyped ==
    ASSUME TInv, UNCHANGED faults, Surroundings', row' \in Row,
           NEW t \in Live(row'.request.id), NEW u \in Run,
           run[t].status # "succeeded", u.status # "succeeded",
           run' = [run EXCEPT ![t] = u],
           plan' \in [Jobs -> Seq(Live(row'.request.id))],
           row.request.id <= row'.request.id, row'.request.id <= MaxRequests,
           Pending' => row'.request.id > 0,
           row'.restores = row.restores, row'.present = row.present,
           exec = NoExec,
           \/ exec' = NoExec
           \/ \E j \in Jobs : exec' = [task |-> t, job |-> j, stage |-> "check"]
                              /\ u.status = "running"
    PROVE  TInv'
<1>1. t \in Tasks /\ run \in [Tasks -> Run]
  BY DEF Live, TInv, MediaTypeOK
<1>2. run' \in [Tasks -> Run] /\ run'[t] = u /\ \A s \in Tasks : s # t => run'[s] = run[s]
  BY <1>1
<1>3. plan' \in [Jobs -> Seq(Tasks)]
  <2>1. Live(row'.request.id) \subseteq Tasks
    BY DEF Live
  <2> QED BY <2>1, SeqMonotonic
<1>4. \/ exec' = NoExec
      \/ /\ exec' \in [task : Tasks, job : Jobs, stage : Stages]
         /\ exec'.task = t /\ run'[exec'.task].status = "running"
  <2> SUFFICES ASSUME NEW j \in Jobs,
                      exec' = [task |-> t, job |-> j, stage |-> "check"], u.status = "running"
               PROVE  /\ exec' \in [task : Tasks, job : Jobs, stage : Stages]
                      /\ exec'.task = t /\ run'[exec'.task].status = "running"
    OBVIOUS
  <2>1. "check" \in Stages
    BY DEF Stages
  <2> QED BY <1>1, <1>2, <2>1
<1>5. MediaTypeOK'
  BY <1>2, <1>3, <1>4 DEF MediaTypeOK, Surroundings, TInv
<1>6. \A n \in 1..MaxRequests : Task("restore", n) \in Tasks
  BY DEF Tasks
<1>7. Committed' = Committed
  BY <1>1, <1>2, <1>6 DEF Committed
<1>8. Owed = 0 /\ Owed' = 0
  BY DEF Owed, In, NoExec, Task
<1>9. Counted'
  BY <1>7, <1>8 DEF TInv, Counted
<1>10. Asked'
  <2>1. {row.request.id, row'.request.id} \subseteq Nat
    BY DEF TInv, MediaTypeOK, Row
  <2>2. ASSUME NEW n \in 1..MaxRequests, n > row'.request.id
        PROVE  run'[Task("restore", n)].status = "none"
    <3>1. n > row.request.id
      BY <2>1, <2>2
    <3>2. run[Task("restore", n)].status = "none"
      BY <3>1 DEF TInv, Asked
    <3>3. Task("restore", n) # t
      BY <2>1, <2>2 DEF Live, Task
    <3> QED BY <1>2, <1>6, <3>2, <3>3
  <2> QED BY <1>4, <2>2 DEF Asked
<1> QED BY <1>5, <1>9, <1>10 DEF TInv

\* A step that loses the operation and leaves its run running.
LEMMA DiesTyped ==
    ASSUME TInv, UNCHANGED <<row, run>>, Surroundings', exec' = NoExec,
           plan' \in [Jobs -> Seq(Live(row.request.id))],
           faults' = faults + 1, faults < MaxFaults
    PROVE  TInv'
<1>1. plan' \in [Jobs -> Seq(Tasks)]
  <2>1. Live(row.request.id) \subseteq Tasks
    BY DEF Live
  <2> QED BY <2>1, SeqMonotonic
<1>2. MediaTypeOK' /\ faults \in Nat /\ row.restores \in Nat /\ MaxFaults \in Nat
  BY <1>1, MediaConstants DEF TInv, MediaTypeOK, Surroundings, Row
<1>3. Committed' = Committed /\ Cardinality(Committed) \in Nat
  BY CommittedCount DEF Committed
<1>4. Owed \in {0, 1} /\ Owed' = 0
  BY DEF Owed, In, NoExec, Task
<1>5. Counted'
  BY <1>2, <1>3, <1>4 DEF TInv, Counted
<1>6. Asked'
  BY DEF TInv, Asked, Pending
<1> QED BY <1>2, <1>5, <1>6 DEF TInv

LEMMA PartialTyped ==
    ASSUME TInv, Partial, exec # NoExec, exec.stage # "done",
           row' = row, plan' = plan, Surroundings',
           faults' \in Nat, faults <= faults', faults' <= MaxFaults
    PROVE  TInv'
<1>1. Resume \in Nat
  <2>1. now + RetryTime \in Nat /\ MaxNow \in Nat
    BY MediaConstants DEF TInv, MediaTypeOK
  <2>2. {now + RetryTime, MaxNow} \subseteq Nat /\ {now + RetryTime, MaxNow} # {}
    BY <2>1
  <2> QED BY <2>2, MinIsIn DEF Resume
<1>2. [status |-> "partial", resume |-> Resume] \in Run
  BY <1>1 DEF Run
<1>3. row' \in Row /\ ~In("restore", "done") /\ (Pending' => Pending)
  BY DEF TInv, MediaTypeOK, In, Pending
<1> QED BY <1>2, <1>3, EndsTyped DEF Partial

LEMMA ConsumersTyped ==
    ASSUME TInv,
           \/ \E r \in Readers : OpenLease(r) \/ CloseLease(r)
           \/ RequestRestore \/ RequestAgain
    PROVE  TInv'
<1>1. row \in Row /\ run \in [Tasks -> Run] /\ Surroundings /\ row.request.id \in Nat
  BY DEF TInv, MediaTypeOK, Surroundings, Row
<1>2. ASSUME NEW r \in Readers, OpenLease(r) \/ CloseLease(r) PROVE TInv'
  <2>1. UNCHANGED <<run, faults, row, plan, exec>> /\ Surroundings' /\ Owed' = Owed
    BY <1>1, <1>2 DEF OpenLease, CloseLease, Surroundings, Owed, In
  <2>2. /\ row'.restores + Owed <= row.restores + Owed' /\ (Pending' => Pending)
        /\ row'.present => row'.restores > 0
        /\ plan' \in [Jobs -> Seq(Live(row.request.id))]
    BY <2>1 DEF Pending, TInv, Counted, Asked, MediaTypeOK, Row, Owed
  <2> QED BY <1>1, <2>1, <2>2, MovesTyped
<1>3. CASE RequestRestore
  <2> DEFINE n == row.request.id + 1
             t == Task("restore", n)
  <2>1. /\ exec = NoExec /\ exec' = NoExec /\ n \in 1..MaxRequests
        /\ row' = [row EXCEPT !.request = [id |-> n, status |-> "pending"]]
        /\ UNCHANGED <<faults, plan, now, hot, pack, litter, readers, activity>>
    BY <1>1, <1>3, MediaConstants DEF RequestRestore
  <2>2. row'.request.id = n /\ row'.restores = row.restores /\ row'.present = row.present
    BY <1>1, <2>1 DEF Row
  <2>3. row' \in Row
    BY <1>1, <2>1 DEF Row
  <2>4. t \in Tasks /\ t \in Live(n)
    BY <2>1 DEF Tasks, Live, Task
  <2>5. run[t].status = "none"
    BY <1>1, <2>1 DEF TInv, Asked
  <2>6. PICK left \in {"none", "running", "interrupted"} :
            run' = [run EXCEPT ![t].status = left]
    BY <1>3, <2>2 DEF RequestRestore
  <2>7. [run[t] EXCEPT !.status = left] \in Run
        /\ [run[t] EXCEPT !.status = left].status # "succeeded"
        /\ run' = [run EXCEPT ![t] = [run[t] EXCEPT !.status = left]]
    BY <1>1, <2>4, <2>6 DEF Run
  <2>8. plan' \in [Jobs -> Seq(Live(n))]
    <3>1. Live(row.request.id) \subseteq Live(n)
      BY <1>1 DEF Live, Tasks, Task
    <3> QED BY <2>1, <3>1, SeqMonotonic DEF TInv, Asked
  <2>9. Surroundings'
    BY <1>1, <2>1 DEF Surroundings
  <2>10. row.request.id <= n /\ n <= MaxRequests /\ n > 0
    BY <1>1, <2>1, MediaConstants
  <2> HIDE DEF n, t
  <2> QED BY <2>1, <2>2, <2>3, <2>4, <2>5, <2>7, <2>8, <2>9, <2>10, StartsTyped
<1>4. CASE RequestAgain
  <2> DEFINE t == Task("restore", row.request.id)
  <2>1. /\ exec = NoExec /\ exec' = NoExec /\ Pending /\ run[t].status = "none"
        /\ run' = [run EXCEPT ![t].status = "interrupted"]
        /\ UNCHANGED <<faults, plan, row, now, hot, pack, litter, readers, activity>>
    BY <1>4 DEF RequestAgain
  <2>2. row.request.id \in 1..MaxRequests
    BY <1>1, <2>1, MediaConstants DEF TInv, Asked
  <2>3. t \in Tasks /\ t \in Live(row.request.id)
    BY <2>2 DEF Tasks, Live, Task
  <2>4. [run[t] EXCEPT !.status = "interrupted"] \in Run
        /\ [run[t] EXCEPT !.status = "interrupted"].status # "succeeded"
        /\ run' = [run EXCEPT ![t] = [run[t] EXCEPT !.status = "interrupted"]]
    BY <1>1, <2>1, <2>3 DEF Run
  <2>5. Surroundings' /\ plan' \in [Jobs -> Seq(Live(row.request.id))]
        /\ row.request.id <= MaxRequests /\ row.request.id > 0
    BY <1>1, <2>1, <2>2 DEF Surroundings, TInv, Asked
  <2>6. row' \in Row /\ row'.request.id = row.request.id /\ row'.restores = row.restores
        /\ row'.present = row.present
    BY <1>1, <2>1
  <2>7. t \in Live(row'.request.id) /\ plan' \in [Jobs -> Seq(Live(row'.request.id))]
        /\ row.request.id <= row'.request.id
    BY <1>1, <2>3, <2>5, <2>6
  <2> HIDE DEF t
  <2> QED BY <2>1, <2>4, <2>5, <2>6, <2>7, StartsTyped
<1> QED BY <1>2, <1>3, <1>4

LEMMA DecisionsTyped ==
    ASSUME TInv, NEW j \in Jobs, Decide(j) \/ Blocked(j) \/ Begin(j)
    PROVE  TInv'
<1> DEFINE P == Seq(Live(row.request.id))
<1>1. /\ row \in Row /\ run \in [Tasks -> Run] /\ Surroundings /\ row.request.id \in Nat
      /\ plan \in [Jobs -> P] /\ row.request.id <= MaxRequests
      /\ (row.present => row.restores > 0) /\ (Pending => row.request.id > 0)
  BY DEF TInv, MediaTypeOK, Surroundings, Row, Asked, Counted
<1>2. UNCHANGED <<faults, row>> /\ Surroundings' /\ Pending' = Pending
  BY <1>1 DEF Decide, Blocked, Begin, Surroundings, Pending
<1>3. plan[j] # <<>> => Head(plan[j]) \in Live(row.request.id) /\ Tail(plan[j]) \in P
  BY <1>1, HeadTailProperties
<1> HIDE DEF P
<1>4. plan' \in [Jobs -> P]
  <2>1. CASE Decide(j)
    <3>1. PICK p \in Plans(j) : plan' = [plan EXCEPT ![j] = p]
      BY <2>1 DEF Decide
    <3>2. p \in P
      BY PlansTyped DEF P
    <3> QED BY <1>1, <3>1, <3>2
  <2>2. CASE Blocked(j) \/ Begin(j)
    <3>1. plan[j] # <<>> /\ plan' = [plan EXCEPT ![j] = Tail(@)]
      BY <2>2 DEF Blocked, Begin
    <3> QED BY <1>1, <1>3, <3>1
  <2> QED BY <2>1, <2>2
<1>5. CASE UNCHANGED <<exec, run>>
  <2>1. Owed' = Owed /\ row'.restores + Owed <= row.restores + Owed'
    BY <1>1, <1>2, <1>5 DEF Owed, In, Row
  <2> QED BY <1>1, <1>2, <1>4, <1>5, <2>1, MovesTyped DEF P
<1>6. CASE Begin(j) /\ ~UNCHANGED <<exec, run>>
  <2> DEFINE t == Head(plan[j])
  <2>1. /\ exec = NoExec /\ ClaimableRun(t) /\ plan[j] # <<>>
        /\ exec' = [task |-> t, job |-> j, stage |-> "check"]
        /\ run' = [run EXCEPT ![t].status = "running"]
    BY <1>6 DEF Begin, LocksFree
  <2>2. t \in Live(row.request.id) /\ t \in Tasks
    BY <1>3, <2>1 DEF Live
  <2>3. run[t].status # "succeeded"
    BY <2>1 DEF ClaimableRun
  <2>4. [run[t] EXCEPT !.status = "running"] \in Run
        /\ [run[t] EXCEPT !.status = "running"].status = "running"
        /\ run' = [run EXCEPT ![t] = [run[t] EXCEPT !.status = "running"]]
    BY <1>1, <2>1, <2>2 DEF Run
  <2>5. row' \in Row /\ row'.request.id = row.request.id /\ row'.restores = row.restores
        /\ row'.present = row.present
    BY <1>1, <1>2
  <2>6. t \in Live(row'.request.id) /\ plan' \in [Jobs -> Seq(Live(row'.request.id))]
        /\ row.request.id <= row'.request.id /\ row'.request.id <= MaxRequests
        /\ (Pending' => row'.request.id > 0)
    BY <1>1, <1>2, <1>4, <2>2, <2>5 DEF P
  <2>7. \E k \in Jobs : exec' = [task |-> t, job |-> k, stage |-> "check"]
    BY <2>1
  <2> HIDE DEF t
  <2> QED BY <1>2, <2>1, <2>3, <2>4, <2>5, <2>6, <2>7, StartsTyped
<1> QED BY <1>5, <1>6 DEF Decide, Blocked

LEMMA FaultsTyped ==
    ASSUME TInv, FailIO \/ LoseOwnership \/ Crash \/ Tick \/ Finish \/ UNCHANGED mediaVars
    PROVE  TInv'
<1> DEFINE P == Seq(Live(row.request.id))
<1>1. /\ row \in Row /\ run \in [Tasks -> Run] /\ Surroundings /\ faults \in Nat
      /\ plan \in [Jobs -> P] /\ (row.present => row.restores > 0)
      /\ MaxFaults \in Nat /\ faults <= MaxFaults
  BY MediaConstants DEF TInv, MediaTypeOK, Surroundings, Asked, Counted
<1>2. <<>> \in P
  OBVIOUS
<1> HIDE DEF P
<1>3. Surroundings'
  BY <1>1 DEF FailIO, LoseOwnership, Crash, Tick, Finish, mediaVars, Surroundings, LeaveLitter
<1>4. UNCHANGED row
  BY DEF FailIO, LoseOwnership, Crash, Tick, Finish, mediaVars
<1>5. CASE FailIO
  <2>1. /\ Partial /\ exec # NoExec /\ exec.stage # "done" /\ plan' = plan
        /\ faults' = faults + 1 /\ faults < MaxFaults
    BY <1>5 DEF FailIO
  <2>2. faults' \in Nat /\ faults <= faults' /\ faults' <= MaxFaults
    BY <1>1, <2>1
  <2> QED BY <1>3, <1>4, <2>1, <2>2, PartialTyped
<1>6. CASE LoseOwnership \/ Crash
  <2>1. /\ exec' = NoExec /\ faults' = faults + 1 /\ faults < MaxFaults /\ UNCHANGED run
    BY <1>6 DEF LoseOwnership, Crash
  <2>2. plan' \in [Jobs -> P]
    BY <1>1, <1>2, <1>6 DEF LoseOwnership, Crash
  <2> QED BY <1>3, <1>4, <2>1, <2>2, DiesTyped DEF P
<1>7. CASE Tick \/ UNCHANGED mediaVars
  <2>1. UNCHANGED <<run, faults, plan, exec>> /\ Owed' = Owed /\ Pending' = Pending
    BY <1>4, <1>7 DEF Tick, mediaVars, Owed, In, Pending
  <2>2. row'.restores + Owed <= row.restores + Owed'
    BY <1>1, <1>4, <2>1 DEF Owed, Row
  <2> QED BY <1>1, <1>3, <1>4, <2>1, <2>2, MovesTyped DEF P
<1>8. CASE Finish
  <2>1. /\ exec.stage = "done" /\ exec' = NoExec /\ UNCHANGED <<plan, faults>>
        /\ run' = [run EXCEPT ![exec.task].status = "succeeded"]
    BY <1>8 DEF Finish
  <2>2. exec # NoExec /\ exec.task \in Tasks
    BY <2>1 DEF NoExec, TInv, MediaTypeOK
  <2>3. [run[exec.task] EXCEPT !.status = "succeeded"] \in Run
        /\ [run[exec.task] EXCEPT !.status = "succeeded"].status = "succeeded"
        /\ run' = [run EXCEPT ![exec.task] = [run[exec.task] EXCEPT !.status = "succeeded"]]
    BY <1>1, <2>1, <2>2 DEF Run
  <2>4. Pending' = Pending /\ faults' \in Nat /\ faults <= faults' /\ faults' <= MaxFaults
    BY <1>1, <1>4, <2>1 DEF Pending
  <2> QED BY <1>1, <1>3, <1>4, <2>1, <2>2, <2>3, <2>4, EndsTyped
<1> QED BY <1>5, <1>6, <1>7, <1>8

\* A step of an operation that goes on.
LEMMA WorksTyped ==
    ASSUME TInv, exec # NoExec, exec.stage # "done",
           UNCHANGED <<run, faults, plan, now, activity, readers, litter>>,
           row' \in Row, row'.request = row.request, row'.restores = row.restores,
           row'.present => row.present, hot' \subseteq Members, pack' \subseteq Members,
           exec' = exec \/ \E s \in Stages : exec' = [exec EXCEPT !.stage = s]
    PROVE  TInv'
<1>1. Surroundings' /\ (Pending' => Pending)
  BY DEF TInv, MediaTypeOK, Surroundings, Pending
<1>2. row'.restores + Owed <= row.restores + Owed'
  BY DEF Owed, In, TInv, MediaTypeOK, Row
<1>3. plan' \in [Jobs -> Seq(Live(row.request.id))] /\ (row'.present => row'.restores > 0)
  BY DEF TInv, Asked, Counted
<1> QED BY <1>1, <1>2, <1>3, MovesTyped

\* What the steps of an operation have in common.
AtWork ==
    /\ exec # NoExec /\ exec.stage # "done"
    /\ row \in Row /\ hot \subseteq Members /\ pack \subseteq Members
    /\ faults \in Nat /\ faults <= MaxFaults

LEMMA Work ==
    ASSUME TInv, exec.stage \notin {"none", "done"}
    PROVE  AtWork
BY DEF AtWork, TInv, MediaTypeOK, Counted, NoExec

\* Nothing else changes when an operation gives up.
LEMMA GivesUp ==
    ASSUME TInv, AtWork, Partial,
           UNCHANGED <<hot, pack, row, now, litter, plan, readers, activity, faults>>
    PROVE  TInv'
<1>1. Surroundings' /\ faults' \in Nat /\ faults <= faults' /\ faults' <= MaxFaults
  BY DEF TInv, MediaTypeOK, Surroundings, AtWork
<1> QED BY <1>1, PartialTyped DEF AtWork

LEMMA ArchiveTyped ==
    ASSUME TInv, CheckArchive \/ CopyPack \/ CommitArchive \/ VerifyArchive
    PROVE  TInv'
<1>1. AtWork /\ UNCHANGED <<now, hot, litter, plan, readers, activity, faults>>
  BY Work DEF CheckArchive, CopyPack, CommitArchive, VerifyArchive, In
<1>2. {"copy", "verify", "commit", "settle"} \subseteq Stages
  BY DEF Stages
<1>3. CASE Partial /\ UNCHANGED <<row, pack>>
  BY <1>1, <1>3, GivesUp
<1>4. CASE ~(Partial /\ UNCHANGED <<row, pack>>)
  <2>1. UNCHANGED run /\ \E s \in Stages : exec' = [exec EXCEPT !.stage = s]
    BY <1>2, <1>4 DEF CheckArchive, CopyPack, CommitArchive, VerifyArchive, Goto
  <2>2. pack' \subseteq Members
    BY <1>1 DEF CheckArchive, CopyPack, CommitArchive, VerifyArchive, AtWork
  <2>3. /\ row' \in Row /\ row'.request = row.request /\ row'.restores = row.restores
        /\ row'.present = row.present
    <3>1. CASE UNCHANGED row
      BY <1>1, <3>1 DEF AtWork
    <3>2. CASE row' = [row EXCEPT !.op = "archiving"]
      BY <1>1, <3>2 DEF AtWork, Row
    <3>3. CASE row' = [row EXCEPT !.storage = "archived", !.op = "idle",
                                  !.due = now + RetentionTime]
      <4>1. now + RetentionTime \in Nat
        BY MediaConstants DEF TInv, MediaTypeOK
      <4> QED BY <1>1, <3>3, <4>1 DEF AtWork, Row
    <3> QED BY <1>4, <3>1, <3>2, <3>3
         DEF CheckArchive, CopyPack, CommitArchive, VerifyArchive
  <2> QED BY <1>1, <2>1, <2>2, <2>3, WorksTyped DEF AtWork
<1> QED BY <1>3, <1>4

\* One transaction of a deletion.
LEMMA SettleTyped ==
    ASSUME TInv, AtWork, NEW why \in {"initial_release", "restored_release", "purge"} \X Nat,
           NEW place \in {"hot", "pack"}, NEW ms \in SUBSET Members,
           Unsettled(why, place, ms) # {}, SettleOne(why, place, ms),
           UNCHANGED <<now, litter, plan, readers, activity, faults>>
    PROVE  TInv'
<1> DEFINE m == Min(Unsettled(why, place, ms))
           d == Deletion(why, place, m)
<1>1. m \in Members
  <2>1. Unsettled(why, place, ms) \subseteq Members /\ Members \subseteq Nat
    BY MediaConstants DEF Unsettled
  <2>2. m \in Unsettled(why, place, ms)
    BY <2>1, MinIsIn
  <2> QED BY <2>1, <2>2
<1>2. d \in Deletions
  BY <1>1 DEF Deletions, Deletion
<1>3. CASE Partial /\ UNCHANGED <<hot, pack, row>>
  BY <1>3, GivesUp
<1>4. CASE UNCHANGED <<exec, run, row>> /\ Remove(place, m)
  <2>1. hot' \subseteq Members /\ pack' \subseteq Members
    BY <1>4 DEF Remove, AtWork
  <2> QED BY <1>4, <2>1, WorksTyped DEF AtWork
<1>5. CASE /\ UNCHANGED <<exec, run, hot, pack>>
           /\ \/ row' = [row EXCEPT !.intents = @ \cup {d}]
              \/ row' = [row EXCEPT !.settled = @ \cup {d}]
  <2> HIDE DEF d, m
  <2>1. /\ row' \in Row /\ row'.request = row.request /\ row'.restores = row.restores
        /\ row'.present = row.present
    BY <1>2, <1>5 DEF AtWork, Row
  <2> QED BY <1>5, <2>1, WorksTyped DEF AtWork
<1> QED BY <1>3, <1>4, <1>5 DEF SettleOne

LEMMA ReleaseTyped ==
    ASSUME TInv, CheckHotRelease \/ ReleaseHot
    PROVE  TInv'
<1>1. AtWork /\ UNCHANGED <<now, litter, plan, readers, activity, faults>>
  BY Work DEF CheckHotRelease, ReleaseHot, In
<1>2. CASE CheckHotRelease
  <2>1. CASE Partial
    BY <1>1, <1>2, <2>1, GivesUp DEF CheckHotRelease
  <2>2. CASE Goto("settle")
    BY <1>1, <1>2, <2>2, WorksTyped DEF CheckHotRelease, Goto, Stages, AtWork
  <2> QED BY <1>2, <2>1, <2>2 DEF CheckHotRelease
<1>3. CASE ReleaseHot
  <2> DEFINE why == IF exec.task.op = "archive" THEN Initial ELSE Restored(row.restores)
  <2>1. why \in {"initial_release", "restored_release", "purge"} \X Nat
    BY <1>1 DEF Initial, Restored, AtWork, Row
  <2>2. CASE Unsettled(why, "hot", Members) # {}
    <3>1. SettleOne(why, "hot", Members)
      BY <1>3, <2>2 DEF ReleaseHot
    <3> HIDE DEF why
    <3> QED BY <1>1, <2>1, <2>2, <3>1, SettleTyped
  <2>3. CASE Unsettled(why, "hot", Members) = {}
    <3>1. /\ row' = [row EXCEPT !.released = TRUE, !.present = FALSE, !.op = "idle"]
          /\ Goto("done") /\ UNCHANGED <<hot, pack>>
      BY <1>3, <2>3 DEF ReleaseHot
    <3>2. /\ row' \in Row /\ row'.request = row.request /\ row'.restores = row.restores
          /\ row'.present = FALSE
      BY <1>1, <3>1 DEF AtWork, Row
    <3> QED BY <1>1, <3>1, <3>2, WorksTyped DEF AtWork, Goto, Stages
  <2> QED BY <2>2, <2>3
<1> QED BY <1>2, <1>3

LEMMA RestoreTyped ==
    ASSUME TInv, CheckRestore \/ CopyHot \/ CommitRestore
    PROVE  TInv'
<1>1. AtWork /\ UNCHANGED <<now, pack, litter, plan, readers, activity, faults>>
  BY Work DEF CheckRestore, CopyHot, CommitRestore, In
<1>2. CASE CheckRestore
  <2>1. CASE Partial /\ UNCHANGED row
    BY <1>1, <1>2, <2>1, GivesUp DEF CheckRestore
  <2>2. CASE row' = [row EXCEPT !.op = "restoring"] /\ Goto("copy")
    <3>1. /\ row' \in Row /\ row'.request = row.request /\ row'.restores = row.restores
          /\ row'.present = row.present
      BY <1>1, <2>2 DEF AtWork, Row
    <3> QED BY <1>1, <1>2, <2>2, <3>1, WorksTyped DEF AtWork, Goto, Stages, CheckRestore
  <2>3. CASE FailRequest
    <3>1. /\ row' \in Row /\ row'.request.id = row.request.id /\ row'.restores = row.restores
          /\ row'.present = row.present /\ row'.request.status = "failed"
      BY <1>1, <2>3 DEF AtWork, Row, FailRequest
    <3>2. exec.task \in Tasks /\ run \in [Tasks -> Run]
      BY <1>1 DEF AtWork, TInv, MediaTypeOK
    <3>3. [run[exec.task] EXCEPT !.status = "failed"] \in Run
          /\ run' = [run EXCEPT ![exec.task] = [run[exec.task] EXCEPT !.status = "failed"]]
      BY <2>3, <3>2 DEF FailRequest, Run
    <3>4. Surroundings' /\ ~Pending' /\ ~In("restore", "done")
      BY <1>1, <1>2, <3>1 DEF Surroundings, TInv, MediaTypeOK, Pending, In, CheckRestore
    <3>5. /\ exec # NoExec /\ exec' = NoExec /\ plan' = plan
          /\ faults' \in Nat /\ faults <= faults' /\ faults' <= MaxFaults
      BY <1>1, <2>3 DEF AtWork, FailRequest
    <3> QED BY <3>1, <3>3, <3>4, <3>5, EndsTyped
  <2> QED BY <1>2, <2>1, <2>2, <2>3 DEF CheckRestore
<1>3. CASE CopyHot
  <2>1. Members \ hot # {} /\ Members \ hot \subseteq Nat
    BY <1>1, <1>3, MediaConstants DEF CopyHot, AtWork
  <2>2. hot' \subseteq Members
    BY <1>1, <1>3, <2>1, MinIsIn DEF CopyHot, AtWork
  <2> QED BY <1>1, <1>3, <2>2, WorksTyped DEF CopyHot, AtWork
<1>4. CASE CommitRestore
  <2>1. /\ row' = [row EXCEPT !.op = "idle", !.present = TRUE, !.restores = @ + 1,
                              !.restoredAt = now, !.request.status = "succeeded"]
        /\ exec' = [exec EXCEPT !.stage = "done"] /\ UNCHANGED <<run, hot>>
        /\ In("restore", "copy")
    BY <1>4 DEF CommitRestore, Goto
  <2>2. now \in Nat /\ row.restores \in Nat /\ row.request.id \in Nat
    BY <1>1 DEF TInv, MediaTypeOK, AtWork, Row
  <2>3. /\ row' \in Row /\ row'.request.id = row.request.id
        /\ row'.restores = row.restores + 1 /\ row'.request.status = "succeeded"
    <3>1. [row.request EXCEPT !.status = "succeeded"]
            = [id |-> row.request.id, status |-> "succeeded"]
      BY <1>1 DEF AtWork, Row
    <3>2. row' = [row EXCEPT !.op = "idle", !.present = TRUE, !.restores = @ + 1,
                             !.restoredAt = now,
                             !.request = [id |-> row.request.id, status |-> "succeeded"]]
      BY <2>1, <3>1
    <3>3. PICK q \in [id : Nat, status : {"none", "pending", "succeeded", "failed"}] :
             q = [id |-> row.request.id, status |-> "succeeded"]
      BY <2>2
    <3>4. PICK k \in Nat : k = row.restores + 1
      BY <2>2
    <3>5. PICK w \in Nat \cup {None} : w = now
      BY <2>2
    <3>6. row' = [row EXCEPT !.op = "idle", !.present = TRUE, !.restores = k,
                             !.restoredAt = w, !.request = q]
      BY <3>2, <3>3, <3>4, <3>5
    <3>7. row \in Row
      BY <1>1 DEF AtWork
    <3>8. row' \in Row /\ row'.request = q /\ row'.restores = k
      BY <3>6, <3>7 DEF Row
    <3> QED BY <3>3, <3>4, <3>8
  <2>4. Surroundings' /\ ~Pending' /\ row'.restores > 0
    BY <1>1, <2>1, <2>2, <2>3 DEF Surroundings, TInv, MediaTypeOK, Pending
  <2>5. Owed = 0
    BY <2>1 DEF Owed, In
  <2>6. Owed' = 1
    <3>1. exec \in [task : Tasks, job : Jobs, stage : Stages]
      BY <1>1 DEF AtWork, TInv, MediaTypeOK
    <3> QED BY <2>1, <3>1 DEF Owed, In
  <2>7. row'.restores + Owed <= row.restores + Owed'
    BY <2>2, <2>3, <2>5, <2>6
  <2>8. plan' \in [Jobs -> Seq(Live(row.request.id))] /\ "done" \in Stages
    BY <1>1 DEF TInv, Asked, Stages
  <2> QED BY <1>1, <2>1, <2>3, <2>4, <2>7, <2>8, MovesTyped DEF AtWork
<1> QED BY <1>2, <1>3, <1>4

LEMMA PurgeTyped ==
    ASSUME TInv, CheckPurge \/ PurgeArchive \/ PurgeHot
    PROVE  TInv'
<1>1. AtWork /\ UNCHANGED <<now, litter, plan, readers, activity, faults>>
  BY Work DEF CheckPurge, PurgeArchive, PurgeHot, In
<1>2. {"done", "archive", "hot"} \subseteq Stages
      /\ Purge \in {"initial_release", "restored_release", "purge"} \X Nat
      /\ row.purgeHot \in SUBSET Members
  BY <1>1 DEF Stages, Purge, AtWork, Row
<1>3. CASE Partial /\ UNCHANGED <<hot, pack, row>>
  BY <1>1, <1>3, GivesUp
<1>4. CASE CheckPurge /\ ~(Partial /\ UNCHANGED <<hot, pack, row>>)
  <2>1. /\ UNCHANGED <<run, hot, pack>>
        /\ \E s \in Stages : exec' = [exec EXCEPT !.stage = s]
    BY <1>2, <1>4 DEF CheckPurge, Goto
  <2>2. \/ UNCHANGED row
        \/ row' = [row EXCEPT !.op = "purging",
                              !.purgeHot = IF row.op = "purging" THEN @ ELSE hot]
    BY <1>4 DEF CheckPurge
  <2>3. /\ row' \in Row /\ row'.request = row.request /\ row'.restores = row.restores
        /\ row'.present = row.present
    BY <1>1, <2>2 DEF AtWork, Row
  <2> QED BY <1>1, <2>1, <2>3, WorksTyped DEF AtWork
<1>5. CASE PurgeArchive /\ ~(Partial /\ UNCHANGED <<hot, pack, row>>)
  <2>1. CASE Unsettled(Purge, "pack", Members) # {}
    BY <1>1, <1>2, <1>5, <2>1, SettleTyped DEF PurgeArchive
  <2>2. CASE Goto("hot") /\ UNCHANGED <<hot, pack, row>>
    BY <1>1, <1>2, <2>2, WorksTyped DEF AtWork, Goto
  <2> QED BY <1>5, <2>1, <2>2 DEF PurgeArchive
<1>6. CASE PurgeHot
  <2>1. CASE Unsettled(Purge, "hot", row.purgeHot) # {}
    BY <1>1, <1>2, <1>6, <2>1, SettleTyped DEF PurgeHot
  <2>2. CASE /\ row' = [row EXCEPT !.storage = "expired", !.op = "idle", !.present = FALSE]
             /\ Goto("done") /\ UNCHANGED <<hot, pack>>
    <3>1. /\ row' \in Row /\ row'.request = row.request /\ row'.restores = row.restores
          /\ row'.present = FALSE
      BY <1>1, <2>2 DEF AtWork, Row
    <3> QED BY <1>1, <1>2, <2>2, <3>1, WorksTyped DEF AtWork, Goto
  <2> QED BY <1>6, <2>1, <2>2 DEF PurgeHot
<1> QED BY <1>3, <1>4, <1>5, <1>6

(* Every variable has its type, and an operation that executes has a run of  *)
(* its own that is running (_execute, _claim).                               *)
THEOREM TypeCorrect == MediaSpec => []MediaTypeOK
<1>1. TInv /\ [NextMedia]_mediaVars => TInv'
  BY ConsumersTyped, DecisionsTyped, FaultsTyped, ArchiveTyped, ReleaseTyped, RestoreTyped,
     PurgeTyped DEF NextMedia, Operate
<1>2. TInv => MediaTypeOK
  BY DEF TInv
<1> QED BY InitTypes, <1>1, <1>2, PTL DEF MediaSpec

-----------------------------------------------------------------------------
(* What TLC checks on a small bundle, for any.                              *)

LEMMA Step == ASSUME IInv, [NextMedia]_mediaVars PROVE IInv' /\ StaysGone
<1>1. CASE Finish
  <2>1. Quiet
    BY <1>1 DEF Quiet, Finish
  <2> QED BY <2>1, Rest
<1> QED
  BY <1>1, Consumers, Decisions, Faults, Archive, Release, Restore, PurgeKeeps
     DEF NextMedia, Operate

(* The inductive invariant holds throughout.                               *)
THEOREM Inductive == MediaSpec => []IInv
<1>1. IInv /\ [NextMedia]_mediaVars => IInv'
  BY Step
<1> QED BY InitInductive, <1>1, PTL DEF MediaSpec

(* Until its retention is over no member can be lost, whichever operation is *)
(* interrupted where (_perform_archive, _perform_purge).                     *)
THEOREM OriginalsAreSafe == MediaSpec => []OriginalsSurvive
<1>1. IInv => OriginalsSurvive
  BY DEF IInv
<1> QED BY Inductive, <1>1, PTL

(* Whatever is missing has a durable intent of its own (_settle_members).    *)
THEOREM DeletionsAreExplained == MediaSpec => []GoneIsExplained
<1>1. IInv => GoneIsExplained
  BY DEF IInv
<1> QED BY Inductive, <1>1, PTL

(* A consumer keeps the originals it opened (media_read_lease).              *)
THEOREM LeasesAreSafe == MediaSpec => []LeaseKeepsOriginals
<1>1. IInv => LeaseKeepsOriginals
  BY DEF IInv
<1> QED BY Inductive, <1>1, PTL

(* Deletion is final: no file comes back (update_state, _perform_restore).   *)
THEOREM DeletionIsFinal == MediaSpec => NothingComesBack
<1>1. IInv /\ [NextMedia]_mediaVars => [StaysGone]_mediaVars
  BY Step
<1>2. [StaysGone]_mediaVars <=>
        [row.op = "purging" \/ row.storage = "expired" =>
            /\ row'.op = "purging" \/ row'.storage = "expired"
            /\ row.storage = "expired" => row'.storage = "expired"
            /\ hot' \subseteq hot /\ pack' \subseteq pack /\ row'.due = row.due]_mediaVars
  BY DEF StaysGone
<1> QED BY Inductive, <1>1, <1>2, PTL DEF MediaSpec, NothingComesBack
=============================================================================
