------------------------------ MODULE DownloadFile ------------------------------
(***************************************************************************)
(* One downloaded audio file in the browser's private file system          *)
(* (downloads/opfs.ts): the file under its final name and the partial that *)
(* a job writes, and renames to it or copies.                              *)
(*                                                                         *)
(* A writable stream of that file system works on a copy: what a job       *)
(* writes reaches the partial when the stream is closed, and is discarded  *)
(* when it is aborted.                                                     *)
(***************************************************************************)
\* The bytes of one file, compared with the track's stream: nothing, a
\* proper prefix, all of them, or as many with a gap of zeros between.
Bytes == {"none", "prefix", "whole", "torn"}

\* The final name may stand for a file that was created and holds nothing yet.
File == [part : Bytes, final : Bytes \cup {"empty"}]
Absent == [part |-> "none", final |-> "none"]

\* partialByteSize: where a job resumes.
Resume(f) == f.part

\* Mutant: the writable is opened without keeping the data (keepExistingData).
OpenedEmpty(f, offset) == IF offset = "none" THEN "clean" ELSE "gap"

\* What the writable holds once it stands at the offset a job resumes from:
\* kept bytes, or zeros where the partial has become shorter meanwhile.
Opened(f, offset) ==
    IF offset # "none" /\ (f.part \in {"none", "torn"} \/ (offset = "whole" /\ f.part = "prefix"))
    THEN "gap" ELSE "clean"

\* The stream closed over a body that was complete, or that ended early.
Closed(f, base) == [f EXCEPT !.part = IF base = "gap" THEN "torn" ELSE "whole"]
Short(f, base) == [f EXCEPT !.part = IF base = "gap" THEN "torn" ELSE "prefix"]

\* removePartial; deleteBinary removes both names.
Discarded(f) == [f EXCEPT !.part = "none"]
Deleted(f) == Absent

\* finalizePartial: the old file goes first, then the partial takes its name.
Cleared(f) == [f EXCEPT !.final = "none"]
Promoted(f) == [part |-> "none", final |-> f.part]

\* Where there is no move, or it throws, the final file is created empty, and the
\* copy shows when its stream is closed.
Created(f) == [f EXCEPT !.final = "empty"]
Copied(f) == [f EXCEPT !.final = f.part]
=============================================================================
