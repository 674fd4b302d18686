----------------------------- MODULE FreshReads -----------------------------
(***************************************************************************)
(* What the read service promises its users, with no cache, revision,      *)
(* generations or shared computations: a reader is answered with contents  *)
(* that were committed, no older than what was acknowledged to writers     *)
(* when it asked, once, or not at all.  Readers may be answered together,  *)
(* and answers to different readers may come in any order of age.          *)
(* ReadCache implements this specification.                                *)
(***************************************************************************)
EXTENDS Integers

CONSTANTS Readers, Domains

VARIABLES
    written,  \* [Domains -> Nat]: the commits of a domain
    known,    \* [Domains -> Nat]: the last one acknowledged to its writer
    read      \* what each reader asked for and was answered

readVars == <<written, known, read>>

Quiet == [phase |-> "quiet"]
Asked(d, floor) == [phase |-> "asked", domain |-> d, floor |-> floor]
Answered(d, floor, version) ==
    [phase |-> "answered", domain |-> d, floor |-> floor, version |-> version]

ReadInit ==
    /\ written = [d \in Domains |-> 0] /\ known = written
    /\ read = [c \in Readers |-> Quiet]

Write(d) ==
    /\ written' = [written EXCEPT ![d] = @ + 1]
    /\ UNCHANGED <<known, read>>

Acknowledge(d) ==
    /\ \E n \in known[d]..written[d] : known' = [known EXCEPT ![d] = n]
    /\ UNCHANGED <<written, read>>

Ask(c, d) ==
    /\ read[c] = Quiet
    /\ read' = [read EXCEPT ![c] = Asked(d, known[d])]
    /\ UNCHANGED <<written, known>>

\* The readers in S get one version of the domain they all asked for.
Answer(S, d) ==
    /\ S # {}
    /\ \E version \in 0..written[d] :
          /\ \A c \in S : \E floor \in 0..version : read[c] = Asked(d, floor)
          /\ read' = [c \in Readers |-> IF c \in S THEN Answered(d, read[c].floor, version)
                                        ELSE read[c]]
    /\ UNCHANGED <<written, known>>

\* Readers return with their answer, or are refused, or give up.
Finish(S) ==
    /\ S # {} /\ \A c \in S : read[c] # Quiet
    /\ read' = [c \in Readers |-> IF c \in S THEN Quiet ELSE read[c]]
    /\ UNCHANGED <<written, known>>

ReadNext ==
    \/ \E d \in Domains : Write(d) \/ Acknowledge(d)
    \/ \E c \in Readers, d \in Domains : Ask(c, d)
    \/ \E S \in SUBSET Readers : Finish(S) \/ (\E d \in Domains : Answer(S, d))

ReadSpec == ReadInit /\ [][ReadNext]_readVars
=============================================================================
