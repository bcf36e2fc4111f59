---------------------------- MODULE MCRadioStation ----------------------------
(* Instances of RadioStation for TLC.                                      *)
EXTENDS RadioStation, TLC

\* Every track has a performer of its own and lasts one unit of time.
OwnPerformer == [t \in Track |-> t]
OneUnit == [t \in Track |-> 1]

Interchangeable == Permutations(Track)
=============================================================================
