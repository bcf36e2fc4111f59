---------------------------- MODULE MCCddaReader ----------------------------
(* An instance of CddaReader for TLC.                                       *)
EXTENDS CddaReader
=============================================================================
