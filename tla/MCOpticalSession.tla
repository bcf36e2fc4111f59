--------------------------- MODULE MCOpticalSession ---------------------------
(* An instance of OpticalSession for TLC.                                   *)
EXTENDS OpticalSession
=============================================================================
