----------------------------- MODULE MCDownloadQueue -----------------------------
(* Instances of DownloadQueue for TLC.                                     *)
EXTENDS DownloadQueue

\* The promises hold until two functions have crossed; TLC looks no further.
Apart == ~raced
=============================================================================
