----------------------------- MODULE MCTranscoder -----------------------------
(* Instances of Transcoder for TLC.                                        *)
EXTENDS Transcoder, TLC

Interchangeable == Permutations(Path) \cup Permutations(Caller)
=============================================================================
