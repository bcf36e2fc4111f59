---------------------------- MODULE MCRadioPicker ----------------------------
(* Instances of RadioPicker for TLC.                                       *)
EXTENDS RadioPicker, TLC
LOCAL INSTANCE SequencesExt

CONSTANTS t1, t2, t3, t4, p1

\* Two tracks of one performer, and two of a badly tagged compilation.
OneAndVA == t1 :> p1 @@ t2 :> p1 @@ t3 :> VA @@ t4 :> VA

\* A banned batch is read as a set, and of a full banlist only the last batch is:
\* one sequence stands for each set, one banlist for those that end alike.
BanBatch == {SetToSeq(S) : S \in (SUBSET Track) \ {{}}}
Histories ==
    (UNION {[1..n -> BanBatch] : n \in 0..(BanlistMax - 1)}) \cup
    {[n \in 1..BanlistMax |-> b] : b \in BanBatch}
=============================================================================
