---- MODULE MCLibraryJobs ----
(* Instances of LibraryJobs for TLC.                                       *)
EXTENDS LibraryJobs

\* The promises about the row hold until two writers have crossed; TLC looks
\* no further.
Apart == ~crossed

\* Albums share nothing with artists and tracks but the job that fetches them:
\* TLC follows a behaviour as long as it has fetched one or the others.
Fetched(rows) ==
    <<rows.cov # Unfetched.cov, rows.art # Unfetched.art \/ rows.lyr # Unfetched.lyr>>
OneArt ==
    LET album == Fetched(row)[1] \/ Fetched(session)[1] \/ disk \cap Album # {}
                     \/ fill # NoFill
        other == Fetched(row)[2] \/ Fetched(session)[2] \/ disk \cap Artist # {}
    IN  ~(album /\ other)
====
