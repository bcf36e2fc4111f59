---------------------------- MODULE MCExclusiveHub ----------------------------
(* Instances of ExclusiveHub for TLC.                                      *)
EXTENDS ExclusiveHub, TLC

Interchangeable == Permutations(Conn) \cup Permutations(Device)
                   \cup Permutations(Session)
=============================================================================
