--------------------------- MODULE LibraryJobsProofs ---------------------------
(***************************************************************************)
(* Proofs about LibraryJobs and Enrichment: the status row tells the job,  *)
(* a cancel hits its job, rows and art on disk agree, and good lyrics are  *)
(* kept, for any albums, artists, tracks, providers and bounds.            *)
(***************************************************************************)
EXTENDS LibraryJobs, FiniteSetTheorems, TLAPS

-----------------------------------------------------------------------------
(* What the updates of the session and of the batch say, field by field.   *)

\* A batch that has changed but for what it is about.
SameBatch == batch'.kind = batch.kind /\ batch'.todo = batch.todo /\ batch'.force = batch.force

LEMMA AtSays ==
    ASSUME batch \in Batch, NEW stage \in {"open", "walk", "ask", "miss", "settle"}, At(stage)
    PROVE  /\ batch' \in Batch /\ SameBatch
           /\ batch'.item = batch.item /\ batch'.next = batch.next /\ batch'.stage = stage
PROOF
<1>1. batch' \in Batch
  BY DEF At, Batch
<1>2. SameBatch
  BY DEF At, Batch, SameBatch
<1>3. batch'.item = batch.item /\ batch'.next = batch.next /\ batch'.stage = stage
  BY DEF At, Batch
<1> QED BY <1>1, <1>2, <1>3

LEMMA OpenSays ==
    ASSUME batch \in Batch, NEW i \in Item, Open(i)
    PROVE  /\ batch' \in Batch /\ SameBatch
           /\ batch'.item = i /\ batch'.stage = "open" /\ batch'.next = batch.next
PROOF
<1>1. batch' \in Batch
  BY DEF Open, Batch
<1>2. SameBatch
  BY DEF Open, Batch, SameBatch
<1>3. batch'.item = i /\ batch'.stage = "open" /\ batch'.next = batch.next
  BY DEF Open, Batch
<1> QED BY <1>1, <1>2, <1>3

LEMMA SkipSays ==
    ASSUME batch \in Batch, NEW i \in Item, Skip(i)
    PROVE  /\ batch' \in Batch /\ batch'.kind = batch.kind
           /\ batch'.todo = batch.todo \ {i} /\ batch'.item = batch.item
           /\ batch'.stage = batch.stage /\ batch'.next = batch.next
PROOF
<1>1. batch' \in Batch
  <2>1. batch.todo \ {i} \in SUBSET Item /\ batch.done + 1 \in Nat
    BY DEF Batch
  <2> QED BY <2>1 DEF Skip, Batch
<1>2. batch'.kind = batch.kind /\ batch'.todo = batch.todo \ {i}
  BY DEF Skip, Batch
<1>3. batch'.item = batch.item /\ batch'.stage = batch.stage /\ batch'.next = batch.next
  BY DEF Skip, Batch
<1> QED BY <1>1, <1>2, <1>3

LEMMA FurtherSays ==
    ASSUME batch \in Batch, batch.next <= Providers, NEW asked \in BOOLEAN, Further(asked)
    PROVE  /\ batch' \in Batch /\ SameBatch
           /\ batch'.item = batch.item
           /\ batch'.stage \in {"ask", "miss"}
           /\ batch'.stage = "ask" => batch'.next <= Providers
PROOF
<1> USE EnrichmentAssumption
<1> DEFINE stage == IF batch.next = Providers THEN "miss" ELSE "ask"
           next == batch.next + 1
           any == batch.asked \/ asked
<1>1. stage \in {"ask", "miss"} /\ next \in 1..Providers + 1 /\ any \in BOOLEAN
      /\ (stage = "ask" => next <= Providers)
  BY DEF Batch
<1>2. batch' = [[[batch EXCEPT !.next = next] EXCEPT !.asked = any] EXCEPT !.stage = stage]
  BY DEF Further
<1> HIDE DEF stage, next, any
<1>3. batch' \in Batch
  BY <1>1, <1>2 DEF Batch
<1>4. SameBatch
  BY <1>2 DEF Batch, SameBatch
<1>5. batch'.item = batch.item /\ batch'.stage = stage /\ batch'.next = next
  BY <1>2 DEF Batch
<1> QED BY <1>1, <1>3, <1>4, <1>5

LEMMA SetCoverSays ==
    ASSUME session \in Rows, NEW c \in Album, NEW has \in BOOLEAN, SetCover(c, has)
    PROVE  /\ session' \in Rows
           /\ session'.art = session.art /\ session'.lyr = session.lyr
           /\ session'.cov[c] = has
           /\ \A d \in Album \ {c} : session'.cov[d] = session.cov[d]
PROOF
<1>1. session' \in Rows
  BY DEF SetCover, Rows
<1> QED BY <1>1 DEF SetCover, Rows

LEMMA SetPortraitSays ==
    ASSUME session \in Rows, NEW a \in Artist, NEW has \in BOOLEAN, NEW cool \in BOOLEAN,
           SetPortrait(a, has, cool)
    PROVE  /\ session' \in Rows
           /\ session'.cov = session.cov /\ session'.lyr = session.lyr
           /\ session'.art[a].has = has
           /\ \A b \in Artist \ {a} : session'.art[b] = session.art[b]
PROOF
<1> DEFINE portrait == [has |-> has, cool |-> cool]
           art == [session.art EXCEPT ![a] = portrait]
<1>1. portrait \in Portrait /\ portrait.has = has
  BY DEF Portrait
<1>2. session' = [session EXCEPT !.art = art]
  BY DEF SetPortrait
<1> HIDE DEF portrait
<1>3. /\ art \in [Artist -> Portrait] /\ art[a] = portrait
      /\ \A b \in Artist \ {a} : art[b] = session.art[b]
  BY <1>1 DEF Rows
<1> HIDE DEF art
<1>4. session' \in Rows /\ session'.art = art
      /\ session'.cov = session.cov /\ session'.lyr = session.lyr
  BY <1>2, <1>3 DEF Rows
<1> QED BY <1>1, <1>3, <1>4

LEMMA PersistLyricsSays ==
    ASSUME session \in Rows, NEW t \in Track,
           NEW st \in {"ok", "lrc", "not_found", "error", "skipped"},
           PersistLyrics(t, st)
    PROVE  /\ session' \in Rows
           /\ session'.cov = session.cov /\ session'.art = session.art
           /\ session'.lyr[t].status = st
           /\ \A u \in Track \ {t} : session'.lyr[u] = session.lyr[u]
PROOF
<1> DEFINE cool == st \in {"not_found", "error"}
           lyrics == [status |-> st, match |-> TRUE, cool |-> cool]
           lyr == [session.lyr EXCEPT ![t] = lyrics]
<1>1. cool \in BOOLEAN
  OBVIOUS
<1>2. session' = [session EXCEPT !.lyr = lyr]
  BY DEF PersistLyrics
<1> HIDE DEF cool
<1>3. lyrics \in Lyrics /\ lyrics.status = st
  BY <1>1 DEF Lyrics
<1> HIDE DEF lyrics
<1>4. /\ lyr \in [Track -> Lyrics] /\ lyr[t] = lyrics
      /\ \A u \in Track \ {t} : lyr[u] = session.lyr[u]
  BY <1>3 DEF Rows
<1> HIDE DEF lyr
<1>5. session' \in Rows /\ session'.lyr = lyr
      /\ session'.cov = session.cov /\ session'.art = session.art
  BY <1>2, <1>4 DEF Rows
<1> QED BY <1>3, <1>4, <1>5

-----------------------------------------------------------------------------
(* What the steps of a batch share.                                        *)

LEMMA PoolFacts ==
    ASSUME batch \in Batch
    PROVE  /\ Pool \subseteq Item
           /\ batch.kind = "covers" => Pool = Album
           /\ batch.kind = "artist_images" => Pool = Artist
           /\ batch.kind = "lyrics" => Pool = Track
           /\ batch.kind = "none" => Pool = {}
BY DEF Pool, Batch, Item

\* A step that keeps to its item keeps the control of the batch.
LEMMA SameItemControl ==
    ASSUME BatchControl, SameBatch,
           batch'.item \in batch.todo, batch'.item # Nothing,
           batch'.stage \in {"open", "walk"} => batch'.next = 1,
           batch'.stage = "ask" /\ batch'.kind = "artist_images" => batch'.next <= Providers
    PROVE  BatchControl'
BY DEF BatchControl, SameBatch, Pool

\* Where no lyrics are fetched, the session has the lyrics that are committed.
LEMMA NoLyricsFetched ==
    ASSUME batch'.kind # "lyrics", session'.lyr = row'.lyr
    PROVE  LyricsControl'
BY DEF LyricsControl

LEMMA FetchedFrom ==
    ASSUME EnrichmentTypeOK, BatchControl, batch.item # Nothing
    PROVE  /\ batch.item \in batch.todo
           /\ batch.kind # "none"
           /\ batch.kind = "covers" => batch.item \in Album
           /\ batch.kind = "artist_images" => batch.item \in Artist
           /\ batch.kind = "lyrics" => batch.item \in Track
BY PoolFacts DEF EnrichmentTypeOK, BatchControl

LEMMA EnrichmentInvUnchanged ==
    ASSUME EnrichmentInv, UNCHANGED enrichment
    PROVE  EnrichmentInv'
BY DEF EnrichmentInv, enrichment, EnrichmentTypeOK, BatchControl, Pool, SessionControl,
       ArtMatchesDisk, FillControl, LyricsControl

\* Of what a step does to portraits, the albums see nothing.
LEMMA CoversAside ==
    ASSUME ArtMatchesDisk, FillControl, UNCHANGED <<row, fill>>, session'.cov = session.cov,
           NEW a, a \notin Album, disk' \in {disk, disk \cup {a}, disk \ {a}},
           torn' \in {torn, torn \ {a}}
    PROVE  /\ FillControl'
           /\ \A c \in Album \ (torn' \cup {fill'.album}) : session'.cov[c] <=> c \in disk'
PROOF
<1>1. \A c \in Album : (c \in disk' <=> c \in disk) /\ (c \in torn' <=> c \in torn)
  OBVIOUS
<1>2. FillControl'
  BY <1>1 DEF FillControl
<1>3. ASSUME NEW c \in Album \ (torn' \cup {fill'.album}) PROVE session'.cov[c] <=> c \in disk'
  BY <1>1, <1>3 DEF ArtMatchesDisk
<1> QED BY <1>2, <1>3

-----------------------------------------------------------------------------
(* The loops: the next id, the count, the commits, the end.                *)

LEMMA NextItemInv ==
    ASSUME EnrichmentInv, NEW canceled \in BOOLEAN, NextItem(canceled)
    PROVE  EnrichmentInv'
PROOF
<1> USE DEF EnrichmentInv
<1>1. /\ batch \in Batch /\ batch.kind # "none" /\ batch.item = Nothing
      /\ UNCHANGED <<disk, row, session, fill, torn>>
  BY DEF NextItem, EnrichmentTypeOK
<1>2. PICK i \in batch.todo : Open(i) \/ Skip(i)
  BY DEF NextItem
<1>3. i \in Item
  BY <1>1 DEF Batch
<1>4. CASE Open(i)
  <2>1. /\ batch' \in Batch /\ SameBatch /\ batch'.item = i /\ batch'.stage = "open"
        /\ batch'.next = batch.next
    BY <1>1, <1>3, <1>4, OpenSays
  <2>2. BatchControl'
    BY <1>1, <1>3, <2>1, SameItemControl, EnrichmentAssumption DEF BatchControl, Item
  <2>3. SessionControl' /\ ArtMatchesDisk' /\ FillControl'
    BY <1>1, <2>1 DEF SessionControl, ArtMatchesDisk, FillControl, SameBatch
  <2>4. LyricsFetch => LyricsControl'
    BY <1>1, <2>1, EnrichmentAssumption DEF LyricsControl, SameBatch, Item
  <2> QED BY <1>1, <2>1, <2>2, <2>3, <2>4 DEF EnrichmentTypeOK
<1>5. CASE Skip(i)
  <2>1. /\ batch' \in Batch /\ batch'.kind = batch.kind
        /\ batch'.todo = batch.todo \ {i} /\ batch'.item = batch.item
        /\ batch'.stage = batch.stage /\ batch'.next = batch.next
    BY <1>1, <1>3, <1>5, SkipSays
  <2>2. BatchControl'
    BY <1>1, <2>1 DEF BatchControl, Pool
  <2>3. SessionControl' /\ ArtMatchesDisk' /\ FillControl'
    BY <1>1, <2>1 DEF SessionControl, ArtMatchesDisk, FillControl
  <2>4. LyricsFetch => LyricsControl'
    BY <1>1, <2>1 DEF LyricsControl
  <2> QED BY <1>1, <2>1, <2>2, <2>3, <2>4 DEF EnrichmentTypeOK
<1> QED BY <1>2, <1>4, <1>5

LEMMA SettleInv ==
    ASSUME EnrichmentInv, Settle
    PROVE  EnrichmentInv'
PROOF
<1> USE DEF EnrichmentInv
<1> DEFINE i == batch.item
<1>1. /\ batch \in Batch /\ i # Nothing /\ batch.stage = "settle"
      /\ row' \in {row, session} /\ UNCHANGED <<disk, session, fill, torn>>
  BY DEF Settle, EnrichmentTypeOK
<1>2. i \in batch.todo /\ batch.kind # "none"
  BY <1>1, FetchedFrom
<1>3. /\ batch'.kind = batch.kind /\ batch'.todo = batch.todo \ {i}
      /\ batch'.item = Nothing /\ batch'.stage = "open" /\ batch'.next = 1
  BY DEF Settle, EnrichmentTypeOK, Batch
<1>4. batch' \in Batch
  <2>1. /\ batch.todo \ {i} \in SUBSET Item /\ batch.done + 1 \in Nat
        /\ 1 \in 1..Providers + 1
    BY <1>1, EnrichmentAssumption DEF Batch
  <2> QED BY <1>1, <2>1 DEF Settle, Batch
<1>5. EnrichmentTypeOK'
  BY <1>1, <1>4 DEF EnrichmentTypeOK
<1>6. BatchControl'
  BY <1>3 DEF BatchControl, Pool
<1>7. SessionControl' /\ ArtMatchesDisk' /\ FillControl'
  BY <1>1, <1>2, <1>3 DEF SessionControl, ArtMatchesDisk, FillControl
<1>8. LyricsFetch => LyricsControl'
  BY <1>1, <1>3 DEF LyricsControl
<1> QED BY <1>5, <1>6, <1>7, <1>8

LEMMA NoBatchSays == NoBatch \in Batch /\ NoBatch.kind = "none" /\ NoBatch.todo = {}
                     /\ NoBatch.item = Nothing /\ NoBatch.stage = "open" /\ NoBatch.next = 1
BY EnrichmentAssumption DEF NoBatch, Batch

\* The end of a batch, however it comes: the session and the rows are one.
LEMMA NoBatchInv ==
    ASSUME EnrichmentInv, batch' = NoBatch, session' = row', row' \in Rows,
           disk' = disk, torn' \subseteq Album \cup Artist, fill' \in Fill, ArtMatchesDisk'
    PROVE  EnrichmentInv'
PROOF
<1> USE DEF EnrichmentInv
<1>1. EnrichmentTypeOK'
  BY NoBatchSays DEF EnrichmentTypeOK
<1>2. BatchControl' /\ SessionControl'
  BY NoBatchSays DEF BatchControl, Pool, SessionControl
<1>3. FillControl'
  BY DEF FillControl
<1>4. LyricsControl'
  BY NoBatchSays, NoLyricsFetched
<1> QED BY <1>1, <1>2, <1>3, <1>4

LEMMA FinishBatchInv ==
    ASSUME EnrichmentInv, NEW canceled \in BOOLEAN, FinishBatch(canceled)
    PROVE  EnrichmentInv'
PROOF
<1>1. ArtMatchesDisk'
  BY DEF EnrichmentInv, FinishBatch, ArtMatchesDisk
<1> QED BY <1>1, NoBatchInv DEF EnrichmentInv, FinishBatch, EnrichmentTypeOK

LEMMA RollbackInv ==
    ASSUME EnrichmentInv, RaiseBatch \/ EndAll
    PROVE  EnrichmentInv' /\ batch' = NoBatch
PROOF
<1>1. PICK requests \in SUBSET Album :
          /\ Rollback(requests) /\ fill' \in Fill
          /\ \A c \in Album : fill.album = c => c \in requests \/ fill'.album = c
  <2>1. fill \in Fill /\ NoFill \in Fill /\ {fill.album} \ {Nothing} \in SUBSET Album
    BY DEF EnrichmentInv, EnrichmentTypeOK, Fill, NoFill
  <2>2. CASE RaiseBatch
    BY <2>1, <2>2 DEF RaiseBatch
  <2>3. CASE EndAll
    BY <2>1, <2>3, EnrichmentAssumption DEF EndAll
  <2> QED BY <2>2, <2>3
<1>2. torn' \subseteq Album \cup Artist /\ requests \subseteq torn' /\ torn \subseteq torn'
  BY <1>1 DEF EnrichmentInv, Rollback, EnrichmentTypeOK
<1>3. ArtMatchesDisk'
  <2>1. ASSUME NEW a \in Artist \ torn' PROVE session'.art[a].has <=> a \in disk'
    <3>1. a \notin torn /\ session.art[a].has = row.art[a].has
      BY <1>1, <2>1 DEF Rollback
    <3> QED BY <1>1, <3>1 DEF Rollback, EnrichmentInv, ArtMatchesDisk
  <2>2. ASSUME NEW c \in Album \ (torn' \cup {fill'.album})
        PROVE  session'.cov[c] <=> c \in disk'
    <3>1. c \notin torn /\ fill.album # c /\ session.cov[c] = row.cov[c]
      BY <1>1, <1>2, <2>2 DEF Rollback
    <3> QED BY <1>1, <3>1 DEF Rollback, EnrichmentInv, ArtMatchesDisk
  <2> QED BY <2>1, <2>2 DEF ArtMatchesDisk
<1>4. session' = row' /\ row' \in Rows /\ batch' = NoBatch /\ disk' = disk
  BY <1>1 DEF Rollback, EnrichmentInv, EnrichmentTypeOK
<1> QED BY <1>1, <1>2, <1>3, <1>4, NoBatchInv

LEMMA StartBatchInv ==
    ASSUME EnrichmentInv, batch.kind = "none",
           NEW kind \in {"covers", "artist_images", "lyrics"}, NEW force \in BOOLEAN,
           NEW todo \in SUBSET Item, StartBatch(kind, todo, force),
           kind = "covers" => todo \subseteq Album,
           kind = "artist_images" => todo \subseteq Artist,
           kind = "lyrics" => todo \subseteq Track
    PROVE  EnrichmentInv'
PROOF
<1> USE DEF EnrichmentInv
<1>1. Cardinality(todo) \in Nat
  <2>1. IsFiniteSet(Album \cup Artist \cup Track)
    BY EnrichmentAssumption, FS_Union
  <2> QED BY <2>1, FS_Subset, FS_CardinalityType DEF Item
<1> DEFINE total == Cardinality(todo)
<1>2. batch' = [NoBatch EXCEPT !.kind = kind, !.force = force, !.todo = todo, !.total = total]
      /\ UNCHANGED <<disk, row, session, fill, torn>>
  BY DEF StartBatch
<1>3. total \in Nat
  BY <1>1
<1> HIDE DEF total
<1>4. /\ batch' \in Batch /\ batch'.kind = kind /\ batch'.todo = todo
      /\ batch'.item = Nothing /\ batch'.stage = "open" /\ batch'.next = 1
  <2>1. batch' = [kind |-> kind, force |-> force, todo |-> todo, done |-> 0, total |-> total,
                  item |-> Nothing, stage |-> "open", next |-> 1, asked |-> FALSE]
    BY <1>2 DEF NoBatch
  <2>2. 1 \in 1..Providers + 1
    BY EnrichmentAssumption
  <2> QED BY <1>3, <2>1, <2>2 DEF Batch
<1>5. EnrichmentTypeOK'
  BY <1>2, <1>4 DEF EnrichmentTypeOK
<1>6. BatchControl'
  BY <1>4 DEF BatchControl, Pool
<1>7. SessionControl' /\ ArtMatchesDisk' /\ FillControl'
  BY <1>2, <1>4 DEF SessionControl, ArtMatchesDisk, FillControl
<1>8. LyricsFetch => LyricsControl'
  BY <1>2, <1>4 DEF LyricsControl, SessionControl
<1> QED BY <1>5, <1>6, <1>7, <1>8

-----------------------------------------------------------------------------
(* Covers, of the batch and of a request.                                  *)

LEMMA OpenCoverInv ==
    ASSUME EnrichmentInv, OpenCover
    PROVE  EnrichmentInv'
PROOF
<1> USE DEF EnrichmentInv
<1> DEFINE c == batch.item
<1>1. /\ batch \in Batch /\ session \in Rows /\ batch.kind = "covers" /\ c # Nothing
      /\ UNCHANGED <<disk, row, fill>>
  BY DEF OpenCover, Fetching, EnrichmentTypeOK
<1>2. c \in Album
  BY <1>1, FetchedFrom
<1>3. CASE SetCover(c, TRUE) /\ Concluded(c) /\ At("settle") /\ c \in disk
  <2>1. /\ session' \in Rows /\ session'.art = session.art /\ session'.lyr = session.lyr
        /\ session'.cov[c] = TRUE
        /\ \A d \in Album \ {c} : session'.cov[d] = session.cov[d]
    BY <1>1, <1>2, <1>3, SetCoverSays
  <2>2. batch' \in Batch /\ SameBatch /\ batch'.item = c /\ batch'.stage = "settle"
    BY <1>1, <1>3, AtSays
  <2>3. EnrichmentTypeOK'
    BY <1>1, <1>3, <2>1, <2>2 DEF EnrichmentTypeOK, Concluded
  <2>4. BatchControl' /\ SessionControl'
    BY <1>1, <2>2, SameItemControl, FetchedFrom DEF Fetching, SameBatch, SessionControl
  <2>5. ArtMatchesDisk' /\ FillControl'
    BY <1>1, <1>2, <1>3, <2>1, EnrichmentAssumption DEF ArtMatchesDisk, FillControl, Concluded
  <2>6. LyricsFetch => LyricsControl'
    BY <1>1, <2>1, <2>2, NoLyricsFetched DEF SameBatch, LyricsControl
  <2> QED BY <2>3, <2>4, <2>5, <2>6
<1>4. CASE At("ask") /\ UNCHANGED <<session, torn>>
  <2>1. batch' \in Batch /\ SameBatch /\ batch'.item = c /\ batch'.stage = "ask"
    BY <1>1, <1>4, AtSays
  <2>2. EnrichmentTypeOK'
    BY <1>1, <1>4, <2>1 DEF EnrichmentTypeOK
  <2>3. BatchControl' /\ SessionControl'
    BY <1>1, <2>1, SameItemControl, FetchedFrom DEF Fetching, SameBatch, SessionControl
  <2>4. ArtMatchesDisk' /\ FillControl'
    BY <1>1, <1>4 DEF ArtMatchesDisk, FillControl
  <2>5. LyricsFetch => LyricsControl'
    BY <1>1, <1>4, <2>1, NoLyricsFetched DEF SameBatch, LyricsControl
  <2> QED BY <2>2, <2>3, <2>4, <2>5
<1> QED BY <1>3, <1>4 DEF OpenCover

LEMMA AskCoverInv ==
    ASSUME EnrichmentInv, AskCover
    PROVE  EnrichmentInv'
PROOF
<1> USE DEF EnrichmentInv
<1> DEFINE c == batch.item
<1>1. /\ batch \in Batch /\ session \in Rows /\ batch.kind = "covers" /\ c # Nothing
      /\ UNCHANGED <<row, fill>>
  BY DEF AskCover, Fetching, EnrichmentTypeOK
<1>2. c \in Album /\ c \notin Artist /\ c \notin Track
  BY <1>1, FetchedFrom, EnrichmentAssumption
<1>3. PICK has \in BOOLEAN :
          /\ disk' \in {disk \cup {c}, disk \ {c}, disk}
          /\ torn' \in {torn \cup {c}, torn \ {c}}
          /\ c \in torn' \/ (has <=> c \in disk')
          /\ SetCover(c, has) /\ At("settle")
  <2>1. PICK source \in CoverSource :
            /\ disk' = CASE source = "image" -> disk \cup {c}
                         [] source # "image" /\ batch.force -> disk \ {c}
                         [] source # "image" /\ ~batch.force -> disk
            /\ SetCover(c, source = "image") /\ At("settle")
            /\ IF c \in disk /\ ~batch.force /\ source # "image"
               THEN torn' = torn \cup {c}
               ELSE Concluded(c)
    BY DEF AskCover
  <2>2. batch.force \in BOOLEAN
    BY <1>1 DEF Batch
  <2>3. CASE source = "image"
    <3>1. SetCover(c, TRUE)
      BY <2>1, <2>3 DEF SetCover
    <3>2. disk' = disk \cup {c} /\ torn' = torn \ {c}
      BY <2>1, <2>3 DEF Concluded
    <3> QED BY <2>1, <3>1, <3>2
  <2>4. CASE source # "image"
    <3>1. SetCover(c, FALSE)
      BY <2>1, <2>4 DEF SetCover
    <3>2. disk' = IF batch.force THEN disk \ {c} ELSE disk
      BY <2>1, <2>2, <2>4
    <3>3. torn' = IF c \in disk /\ ~batch.force THEN torn \cup {c} ELSE torn \ {c}
      BY <2>1, <2>4 DEF Concluded
    <3> QED BY <2>1, <3>1, <3>2, <3>3
  <2> QED BY <2>3, <2>4
<1>4. /\ session' \in Rows /\ session'.art = session.art /\ session'.lyr = session.lyr
      /\ session'.cov[c] = has
      /\ \A d \in Album \ {c} : session'.cov[d] = session.cov[d]
  BY <1>1, <1>2, <1>3, SetCoverSays
<1>5. batch' \in Batch /\ SameBatch /\ batch'.item = c /\ batch'.stage = "settle"
  BY <1>1, <1>3, AtSays
<1>6. EnrichmentTypeOK'
  BY <1>1, <1>2, <1>3, <1>4, <1>5 DEF EnrichmentTypeOK
<1>7. BatchControl' /\ SessionControl'
  BY <1>1, <1>5, SameItemControl, FetchedFrom DEF Fetching, SameBatch, SessionControl
<1>8. ArtMatchesDisk' /\ FillControl'
  <2>1. ASSUME NEW a \in Artist \ torn' PROVE session'.art[a].has <=> a \in disk'
    BY <1>2, <1>3, <1>4 DEF ArtMatchesDisk
  <2>2. ASSUME NEW d \in Album \ (torn' \cup {fill'.album})
        PROVE  session'.cov[d] <=> d \in disk'
    BY <1>1, <1>2, <1>3, <1>4 DEF ArtMatchesDisk
  <2>3. FillControl'
    BY <1>1, <1>2, <1>3, <1>4 DEF FillControl
  <2> QED BY <2>1, <2>2, <2>3 DEF ArtMatchesDisk
<1>9. LyricsFetch => LyricsControl'
  BY <1>1, <1>4, <1>5, NoLyricsFetched DEF SameBatch, LyricsControl
<1> QED BY <1>6, <1>7, <1>8, <1>9

\* The covers and the lyrics of a session are apart.
LEMMA OnlyCovers ==
    ASSUME NEW rows \in Rows, NEW c \in Album, NEW has \in BOOLEAN
    PROVE  LET new == [rows EXCEPT !.cov[c] = has] IN
           /\ new \in Rows /\ new.art = rows.art /\ new.lyr = rows.lyr
           /\ new.cov[c] = has /\ \A d \in Album \ {c} : new.cov[d] = rows.cov[d]
BY DEF Rows

LEMMA FillCoverInv ==
    ASSUME EnrichmentInv, NEW c \in Album, FillCover(c)
    PROVE  EnrichmentInv'
PROOF
<1> USE DEF EnrichmentInv
<1>1. PICK has \in BOOLEAN :
          /\ disk' = IF has THEN disk \cup {c} ELSE disk
          /\ fill' = IF has = row.cov[c] THEN NoFill ELSE [album |-> c, has |-> has]
          /\ torn' = IF has = row.cov[c] /\ has # session.cov[c] THEN torn \cup {c} ELSE torn
  BY DEF FillCover
<1>2. /\ UNCHANGED <<row, session, batch>> /\ fill = NoFill /\ c \notin disk
      /\ c \notin Artist /\ c \notin Track /\ c # Nothing
      /\ row.cov[c] \in BOOLEAN /\ session.cov[c] \in BOOLEAN
  BY EnrichmentAssumption DEF FillCover, EnrichmentTypeOK, Rows
<1>3. fill' \in Fill /\ torn' \subseteq Album \cup Artist /\ disk' \subseteq Album \cup Artist
  BY <1>1 DEF NoFill, Fill, EnrichmentTypeOK
<1>4. EnrichmentTypeOK'
  BY <1>2, <1>3 DEF EnrichmentTypeOK
<1>5. BatchControl'
  BY <1>2 DEF BatchControl, Pool
<1>6. ArtMatchesDisk'
  <2>1. ASSUME NEW a \in Artist \ torn' PROVE session'.art[a].has <=> a \in disk'
    BY <1>1, <1>2 DEF ArtMatchesDisk
  <2>2. ASSUME NEW d \in Album \ (torn' \cup {fill'.album})
        PROVE  session'.cov[d] <=> d \in disk'
    <3>1. CASE d = c
      <4>1. has = row.cov[c] /\ has = session.cov[c]
        BY <1>1, <1>2, <2>2, <3>1
      <4> QED BY <1>1, <1>2, <3>1, <4>1
    <3>2. CASE d # c
      <4>1. d \notin torn /\ fill.album # d /\ (d \in disk' <=> d \in disk)
        BY <1>1, <1>2, <2>2, <3>2, EnrichmentAssumption DEF NoFill
      <4> QED BY <1>2, <4>1 DEF ArtMatchesDisk
    <3> QED BY <3>1, <3>2
  <2> QED BY <2>1, <2>2 DEF ArtMatchesDisk
<1>7. FillControl'
  <2>1. ASSUME NEW d \in Album \ torn', fill'.album = d, session'.cov[d] # row'.cov[d]
        PROVE  session'.cov[d] <=> d \in disk'
    <3>1. d = c /\ has # row.cov[c]
      BY <1>1, <2>1, EnrichmentAssumption DEF NoFill
    <3> QED BY <1>1, <1>2, <2>1, <3>1
  <2> QED BY <2>1 DEF FillControl
<1>8. SessionControl'
  <2>1. batch.kind = "artist_images" /\ batch.stage \in {"walk", "ask", "miss"}
            => batch.item # c
    BY <1>2, FetchedFrom, EnrichmentAssumption
  <2> QED BY <1>1, <1>2, <2>1 DEF SessionControl
<1>9. LyricsFetch => LyricsControl'
  BY <1>2 DEF LyricsControl
<1> QED BY <1>4, <1>5, <1>6, <1>7, <1>8, <1>9

LEMMA CommitFillInv ==
    ASSUME EnrichmentInv, CommitFill
    PROVE  EnrichmentInv'
PROOF
<1> USE DEF EnrichmentInv
<1> DEFINE c == fill.album
           has == fill.has
<1>1. fill \in Fill /\ fill # NoFill /\ fill' = NoFill /\ UNCHANGED <<disk, batch>>
      /\ row \in Rows /\ session \in Rows
  BY DEF CommitFill, EnrichmentTypeOK
<1>2. c \in Album /\ has \in BOOLEAN /\ NoFill \in Fill
  BY <1>1 DEF Fill
<1>3. CASE torn' = torn \cup {c} /\ UNCHANGED <<row, session>>
  <2>1. EnrichmentTypeOK' /\ BatchControl' /\ SessionControl'
    BY <1>1, <1>2, <1>3 DEF EnrichmentTypeOK, BatchControl, Pool, SessionControl
  <2>2. ArtMatchesDisk' /\ FillControl'
    BY <1>1, <1>2, <1>3, EnrichmentAssumption DEF ArtMatchesDisk, FillControl, NoFill
  <2>3. LyricsFetch => LyricsControl'
    BY <1>1, <1>3 DEF LyricsControl
  <2> QED BY <2>1, <2>2, <2>3
<1>4. CASE /\ row' = [row EXCEPT !.cov[c] = has]
           /\ session' = IF session.cov[c] = row.cov[c]
                         THEN [session EXCEPT !.cov[c] = has] ELSE session
           /\ torn' = IF has = (c \in disk) THEN torn ELSE torn \cup {c}
  <2>1. row' \in Rows /\ row'.art = row.art /\ row'.lyr = row.lyr
    BY <1>1, <1>2, <1>4, OnlyCovers
  <2>2. /\ session' \in Rows /\ session'.art = session.art /\ session'.lyr = session.lyr
        /\ session'.cov[c] = IF session.cov[c] = row.cov[c] THEN has ELSE session.cov[c]
        /\ \A d \in Album \ {c} : session'.cov[d] = session.cov[d]
    BY <1>1, <1>2, <1>4, OnlyCovers
  <2>3. EnrichmentTypeOK'
    BY <1>1, <1>2, <1>4, <2>1, <2>2 DEF EnrichmentTypeOK
  <2>4. BatchControl' /\ SessionControl'
    BY <1>1, <1>4 DEF BatchControl, Pool, SessionControl
  <2>5. ArtMatchesDisk' /\ FillControl'
    <3>1. ASSUME NEW a \in Artist \ torn' PROVE session'.art[a].has <=> a \in disk'
      BY <1>1, <1>2, <1>4, <2>2, EnrichmentAssumption DEF ArtMatchesDisk
    <3>2. ASSUME NEW d \in Album \ (torn' \cup {fill'.album})
          PROVE  session'.cov[d] <=> d \in disk'
      <4>1. CASE d = c
        <5>1. c \notin torn /\ has = (c \in disk)
          BY <1>4, <3>2, <4>1
        <5>2. session.cov[c] # row.cov[c] => (session.cov[c] <=> c \in disk)
          BY <1>2, <5>1 DEF FillControl
        <5> QED BY <1>1, <1>2, <2>2, <4>1, <5>1, <5>2
      <4>2. CASE d # c
        <5>1. d \notin torn
          BY <1>4, <3>2, <4>2
        <5> QED BY <1>1, <2>2, <4>2, <5>1 DEF ArtMatchesDisk
      <4> QED BY <4>1, <4>2
    <3>3. FillControl'
      BY <1>1, EnrichmentAssumption DEF FillControl, NoFill
    <3> QED BY <3>1, <3>2, <3>3 DEF ArtMatchesDisk
  <2>6. LyricsFetch => LyricsControl'
    BY <1>1, <2>1, <2>2 DEF LyricsControl
  <2> QED BY <2>3, <2>4, <2>5, <2>6
<1> QED BY <1>3, <1>4 DEF CommitFill

-----------------------------------------------------------------------------
(* Portraits.                                                              *)

\* A step of a fetch that concludes about its artist.
LEMMA PortraitSettled ==
    ASSUME EnrichmentInv, Fetching("artist_images"), At("settle"), NEW a \in Artist,
           a = batch.item, NEW has \in BOOLEAN, NEW cool \in BOOLEAN,
           SetPortrait(a, has, cool), Concluded(a), UNCHANGED <<row, fill>>,
           disk' \in {disk, disk \cup {a}, disk \ {a}}, has <=> a \in disk'
    PROVE  EnrichmentInv'
PROOF
<1> USE DEF EnrichmentInv
<1>1. batch \in Batch /\ session \in Rows /\ batch.kind = "artist_images" /\ a \notin Album
  BY EnrichmentAssumption DEF Fetching, EnrichmentTypeOK
<1>2. /\ session' \in Rows /\ session'.cov = session.cov /\ session'.lyr = session.lyr
      /\ session'.art[a].has = has
      /\ \A b \in Artist \ {a} : session'.art[b] = session.art[b]
  BY <1>1, SetPortraitSays
<1>3. batch' \in Batch /\ SameBatch /\ batch'.item = a /\ batch'.stage = "settle"
  BY <1>1, AtSays
<1>4. EnrichmentTypeOK'
  BY <1>2, <1>3 DEF EnrichmentTypeOK, Concluded
<1>5. BatchControl' /\ SessionControl'
  BY <1>1, <1>3, SameItemControl, FetchedFrom DEF Fetching, SameBatch, SessionControl
<1>6. ArtMatchesDisk' /\ FillControl'
  <2>1. ASSUME NEW b \in Artist \ torn' PROVE session'.art[b].has <=> b \in disk'
    <3>1. CASE b = a
      BY <1>2, <3>1
    <3>2. CASE b # a
      <4>1. b \notin torn
        BY <2>1, <3>2 DEF Concluded
      <4>2. session'.art[b].has = session.art[b].has
        BY <1>2, <3>2
      <4>3. b \in disk' <=> b \in disk
        BY <3>2
      <4>4. session.art[b].has <=> b \in disk
        BY <4>1 DEF ArtMatchesDisk
      <4> QED BY <4>2, <4>3, <4>4
    <3> QED BY <3>1, <3>2
  <2>2. /\ FillControl'
        /\ \A c \in Album \ (torn' \cup {fill'.album}) : session'.cov[c] <=> c \in disk'
    BY <1>1, <1>2, CoversAside DEF Concluded
  <2> QED BY <2>1, <2>2 DEF ArtMatchesDisk
<1>7. LyricsFetch => LyricsControl'
  BY <1>1, <1>2, <1>3, NoLyricsFetched DEF SameBatch, LyricsControl
<1> QED BY <1>4, <1>5, <1>6, <1>7

\* A step of a fetch that leaves the artist without a portrait, and goes on.
LEMMA PortraitPending ==
    ASSUME EnrichmentInv, Fetching("artist_images"), NEW a \in Artist, a = batch.item,
           batch' \in Batch, SameBatch, batch'.item = a, batch'.stage \in {"walk", "ask", "miss"},
           batch'.stage = "walk" => batch'.next = 1,
           batch'.stage = "ask" => batch'.next <= Providers,
           session' \in Rows, session'.cov = session.cov, session'.lyr = session.lyr,
           \A b \in Artist \ {a} : session'.art[b] = session.art[b],
           session'.art[a].has = session.art[a].has \/ ~session'.art[a].has,
           disk' = disk \ {a},
           a \in disk => ~session'.art[a].has,
           UNCHANGED <<row, fill, torn>>
    PROVE  EnrichmentInv'
PROOF
<1> USE DEF EnrichmentInv
<1>1. batch.kind = "artist_images" /\ a \notin Album
  BY EnrichmentAssumption DEF Fetching
<1>2. EnrichmentTypeOK'
  BY DEF EnrichmentTypeOK
<1>3. BatchControl' /\ SessionControl'
  BY <1>1, SameItemControl, FetchedFrom DEF Fetching, SameBatch, SessionControl
<1>4. ArtMatchesDisk' /\ FillControl'
  <2>1. ASSUME NEW b \in Artist \ torn' PROVE session'.art[b].has <=> b \in disk'
    <3>1. CASE b = a
      <4>1. session.art[b].has <=> b \in disk
        BY <2>1 DEF ArtMatchesDisk
      <4> QED BY <3>1, <4>1
    <3>2. CASE b # a
      <4>1. session.art[b].has <=> b \in disk
        BY <2>1 DEF ArtMatchesDisk
      <4> QED BY <3>2, <4>1
    <3> QED BY <3>1, <3>2
  <2>2. /\ FillControl'
        /\ \A c \in Album \ (torn' \cup {fill'.album}) : session'.cov[c] <=> c \in disk'
    BY <1>1, CoversAside
  <2> QED BY <2>1, <2>2 DEF ArtMatchesDisk
<1>5. LyricsFetch => LyricsControl'
  BY <1>1, NoLyricsFetched DEF SameBatch, LyricsControl
<1> QED BY <1>2, <1>3, <1>4, <1>5

\* A cancel leaves what is there.
LEMMA PortraitLeft ==
    ASSUME EnrichmentInv, Fetching("artist_images"), At("settle"),
           UNCHANGED <<disk, session, torn, row, fill>>
    PROVE  EnrichmentInv'
PROOF
<1> USE DEF EnrichmentInv
<1>1. batch \in Batch /\ batch.kind = "artist_images"
  BY DEF Fetching, EnrichmentTypeOK
<1>2. batch' \in Batch /\ SameBatch /\ batch'.item = batch.item /\ batch'.stage = "settle"
  BY <1>1, AtSays
<1>3. EnrichmentTypeOK'
  BY <1>2 DEF EnrichmentTypeOK
<1>4. BatchControl' /\ SessionControl' /\ ArtMatchesDisk' /\ FillControl'
  BY <1>1, <1>2, SameItemControl, FetchedFrom DEF Fetching, SameBatch, SessionControl,
     ArtMatchesDisk, FillControl
<1>5. LyricsFetch => LyricsControl'
  BY <1>1, <1>2, NoLyricsFetched DEF SameBatch, LyricsControl
<1> QED BY <1>3, <1>4, <1>5

LEMMA OpenPortraitInv ==
    ASSUME EnrichmentInv, NEW canceled \in BOOLEAN, OpenPortrait(canceled)
    PROVE  EnrichmentInv'
PROOF
<1> DEFINE a == batch.item
<1>1. /\ batch \in Batch /\ session \in Rows /\ Fetching("artist_images")
      /\ UNCHANGED <<row, fill>>
  BY DEF OpenPortrait, EnrichmentInv, EnrichmentTypeOK
<1>2. a \in Artist
  BY <1>1, FetchedFrom DEF EnrichmentInv, Fetching
<1>3. CASE At("settle") /\ UNCHANGED <<disk, session, torn>>
  BY <1>1, <1>3, PortraitLeft
<1>4. CASE /\ a \in disk /\ SetPortrait(a, TRUE, FALSE) /\ Concluded(a) /\ At("settle")
           /\ UNCHANGED disk
  BY <1>1, <1>2, <1>4, PortraitSettled
<1>5. CASE Forget(a) /\ UNCHANGED torn /\ At("walk") /\ batch.stage = "open"
  <2>1. /\ batch' \in Batch /\ SameBatch /\ batch'.item = a /\ batch'.stage = "walk"
        /\ batch'.next = 1
    BY <1>1, <1>5, AtSays DEF EnrichmentInv, BatchControl
  <2>2. disk' = disk \ {a} /\ (a \in disk => SetPortrait(a, FALSE, FALSE))
        /\ (a \notin disk => UNCHANGED session)
    BY <1>5 DEF Forget
  <2>3. CASE a \in disk
    <3>1. /\ session' \in Rows /\ session'.cov = session.cov /\ session'.lyr = session.lyr
          /\ session'.art[a].has = FALSE
          /\ \A b \in Artist \ {a} : session'.art[b] = session.art[b]
      BY <1>1, <1>2, <2>2, <2>3, SetPortraitSays
    <3> QED BY <1>1, <1>2, <1>5, <2>1, <2>2, <3>1, PortraitPending
  <2>4. CASE a \notin disk
    BY <1>1, <1>2, <1>5, <2>1, <2>2, <2>4, PortraitPending
  <2> QED BY <2>3, <2>4
<1> QED BY <1>3, <1>4, <1>5 DEF OpenPortrait

LEMMA WalkToRootInv ==
    ASSUME EnrichmentInv, NEW canceled \in BOOLEAN, WalkToRoot(canceled)
    PROVE  EnrichmentInv'
PROOF
<1> DEFINE a == batch.item
<1>1. /\ batch \in Batch /\ session \in Rows /\ Fetching("artist_images")
      /\ batch.stage = "walk" /\ UNCHANGED <<row, fill>>
  BY DEF WalkToRoot, EnrichmentInv, EnrichmentTypeOK
<1>2. a \in Artist /\ a \notin disk /\ batch.next = 1
  BY <1>1, FetchedFrom DEF EnrichmentInv, Fetching, SessionControl, BatchControl
<1>3. CASE Write(a) /\ Concluded(a) /\ At("settle")
  <2>1. SetPortrait(a, TRUE, FALSE) /\ disk' = disk \cup {a} /\ (TRUE <=> a \in disk')
    BY <1>3 DEF Write
  <2> QED BY <1>1, <1>2, <1>3, <2>1, PortraitSettled
<1>4. CASE SetPortrait(a, FALSE, TRUE) /\ Concluded(a) /\ At("settle") /\ UNCHANGED disk
  <2>1. FALSE <=> a \in disk'
    BY <1>2, <1>4
  <2> QED BY <1>1, <1>2, <1>4, <2>1, PortraitSettled
<1>5. CASE /\ At(IF canceled THEN "settle" ELSE IF Providers = 0 THEN "miss" ELSE "ask")
           /\ UNCHANGED <<disk, session, torn>>
  <2>1. CASE canceled
    BY <1>1, <1>5, <2>1, PortraitLeft
  <2>2. CASE ~canceled
    <3>1. PICK stage \in {"ask", "miss"} : At(stage) /\ (stage = "ask" => Providers # 0)
      BY <1>5, <2>2
    <3>2. /\ batch' \in Batch /\ SameBatch /\ batch'.item = a /\ batch'.stage = stage
          /\ batch'.next = batch.next
      BY <1>1, <3>1, AtSays
    <3>3. batch'.stage = "ask" => batch'.next <= Providers
      BY <1>2, <3>1, <3>2, EnrichmentAssumption
    <3>4. disk' = disk \ {a} /\ session' \in Rows
      BY <1>1, <1>2, <1>5
    <3> QED BY <1>1, <1>2, <1>5, <3>1, <3>2, <3>3, <3>4, PortraitPending
  <2> QED BY <2>1, <2>2
<1> QED BY <1>3, <1>4, <1>5 DEF WalkToRoot

LEMMA AskProviderInv ==
    ASSUME EnrichmentInv, NEW canceled \in BOOLEAN, AskProvider(canceled)
    PROVE  EnrichmentInv'
PROOF
<1> DEFINE a == batch.item
<1>1. /\ batch \in Batch /\ session \in Rows /\ Fetching("artist_images")
      /\ batch.stage = "ask" /\ UNCHANGED <<row, fill>>
  BY DEF AskProvider, EnrichmentInv, EnrichmentTypeOK
<1>2. a \in Artist
  BY <1>1, FetchedFrom DEF EnrichmentInv, Fetching
<1>3. batch.next <= Providers /\ a \notin disk
  BY <1>1 DEF EnrichmentInv, BatchControl, SessionControl, Fetching
<1>4. CASE At("settle") /\ UNCHANGED <<disk, session, torn>>
  BY <1>1, <1>4, PortraitLeft
<1>5. CASE Found(a)
  <2>1. SetPortrait(a, TRUE, FALSE) /\ disk' = disk \cup {a} /\ (TRUE <=> a \in disk')
    BY <1>5 DEF Found, Write
  <2> QED BY <1>1, <1>2, <1>5, <2>1, PortraitSettled DEF Found
<1>6. ASSUME NEW asked \in BOOLEAN, Further(asked), UNCHANGED <<disk, torn>>,
             SetPortrait(a, FALSE, TRUE) \/ UNCHANGED session
      PROVE  EnrichmentInv'
  <2>1. /\ batch' \in Batch /\ SameBatch /\ batch'.item = a
        /\ batch'.stage \in {"ask", "miss"}
        /\ batch'.stage = "ask" => batch'.next <= Providers
    BY <1>1, <1>3, <1>6, FurtherSays
  <2>2. disk' = disk \ {a}
    BY <1>3, <1>6
  <2>3. CASE SetPortrait(a, FALSE, TRUE)
    <3>1. /\ session' \in Rows /\ session'.cov = session.cov /\ session'.lyr = session.lyr
          /\ session'.art[a].has = FALSE
          /\ \A b \in Artist \ {a} : session'.art[b] = session.art[b]
      BY <1>1, <1>2, <2>3, SetPortraitSays
    <3> QED BY <1>1, <1>2, <1>3, <1>6, <2>1, <2>2, <3>1, PortraitPending
  <2>4. CASE UNCHANGED session
    BY <1>1, <1>2, <1>3, <1>6, <2>1, <2>2, <2>4, PortraitPending
  <2> QED BY <1>6, <2>3, <2>4
<1>7. CASE Unavailable \/ Unencodable(a) \/ Without
  BY <1>6, <1>7 DEF Unavailable, Unencodable, Without
<1> QED BY <1>4, <1>5, <1>7 DEF AskProvider

LEMMA MissPortraitInv ==
    ASSUME EnrichmentInv, MissPortrait
    PROVE  EnrichmentInv'
PROOF
<1> DEFINE a == batch.item
<1>1. /\ batch \in Batch /\ Fetching("artist_images") /\ batch.stage = "miss"
      /\ Concluded(a) /\ At("settle") /\ UNCHANGED <<disk, row, fill>>
  BY DEF MissPortrait, EnrichmentInv, EnrichmentTypeOK
<1>2. a \in Artist
  BY <1>1, FetchedFrom DEF EnrichmentInv, Fetching
<1>3. a \notin disk
  BY <1>1 DEF EnrichmentInv, SessionControl, Fetching
<1>4. PICK configured \in BOOLEAN : SetPortrait(a, FALSE, configured)
  BY <1>1 DEF MissPortrait, Batch
<1> QED BY <1>1, <1>2, <1>3, <1>4, PortraitSettled

-----------------------------------------------------------------------------
(* Lyrics.                                                                 *)

\* A step of a fetch of lyrics; the row of the track is only settled when the
\* fetch of it is.
LEMMA LyricsStep ==
    ASSUME EnrichmentInv, Fetching("lyrics"), NEW t \in Track, t = batch.item,
           NEW stage \in {"ask", "settle"}, At(stage),
           session' \in Rows, session'.cov = session.cov, session'.art = session.art,
           \A u \in Track \ {t} : session'.lyr[u] = session.lyr[u],
           stage = "ask" => UNCHANGED session
                            /\ ~(session.lyr[t].status \in Good /\ session.lyr[t].match),
           LyricsFetch => \/ UNCHANGED session
                          \/ session'.lyr[t].status \in Good
                          \/ /\ batch.stage = "ask"
                             /\ session'.lyr[t].status = "not_found"
                          \/ /\ batch.stage = "ask"
                             /\ session.lyr[t].status \notin Good,
           UNCHANGED <<disk, row, fill, torn>>, batch.stage \in {"open", "ask"}
    PROVE  EnrichmentInv'
PROOF
<1> USE DEF EnrichmentInv
<1>1. batch \in Batch /\ batch.kind = "lyrics" /\ t \in batch.todo /\ t # Nothing
  BY FetchedFrom DEF Fetching, EnrichmentTypeOK
<1>2. batch' \in Batch /\ SameBatch /\ batch'.item = t /\ batch'.stage = stage
  BY <1>1, AtSays
<1>3. EnrichmentTypeOK'
  BY <1>2 DEF EnrichmentTypeOK
<1>4. BatchControl' /\ SessionControl' /\ ArtMatchesDisk' /\ FillControl'
  BY <1>1, <1>2, SameItemControl DEF SameBatch, SessionControl, ArtMatchesDisk, FillControl
<1>5. ASSUME LyricsFetch PROVE LyricsControl'
  <2>0. LyricsControl /\ session.lyr[t] = row.lyr[t]
    BY <1>1, <1>5 DEF LyricsControl
  <2>1. \A u \in batch'.todo \cap Track :
            ~(batch'.item = u /\ batch'.stage = "settle") => session'.lyr[u] = row'.lyr[u]
    <3> SUFFICES ASSUME NEW u \in batch'.todo \cap Track,
                        ~(batch'.item = u /\ batch'.stage = "settle")
                 PROVE  session'.lyr[u] = row.lyr[u]
      OBVIOUS
    <3>1. CASE u = t
      BY <1>2, <2>0, <3>1
    <3>2. CASE u # t
      BY <1>2, <2>0, <3>2, <1>1 DEF LyricsControl, SameBatch
    <3> QED BY <3>1, <3>2
  <2>2. batch'.kind = "lyrics" /\ batch'.stage = "ask" =>
            LET r == session'.lyr[batch'.item] IN ~(r.status \in Good /\ r.match)
    BY <1>2
  <2>3. \A u \in Track :
            row'.lyr[u].status \in Good =>
                \/ session'.lyr[u].status \in Good
                \/ session'.lyr[u].status = "not_found" /\ ~row'.lyr[u].match
    <3> SUFFICES ASSUME NEW u \in Track, row.lyr[u].status \in Good
                 PROVE  \/ session'.lyr[u].status \in Good
                        \/ session'.lyr[u].status = "not_found" /\ ~row.lyr[u].match
      OBVIOUS
    <3>1. CASE u = t
      <4>1. CASE UNCHANGED session
        BY <2>0, <3>1, <4>1
      <4>2. CASE session'.lyr[t].status \in Good
        BY <3>1, <4>2
      <4>3. CASE batch.stage = "ask" /\ session'.lyr[t].status = "not_found"
        <5>1. ~row.lyr[t].match
          BY <1>1, <2>0, <3>1, <4>3 DEF LyricsControl
        <5> QED BY <3>1, <4>3, <5>1
      <4>4. CASE session.lyr[t].status \notin Good
        BY <2>0, <3>1, <4>4
      <4> QED BY <1>5, <4>1, <4>2, <4>3, <4>4
    <3>2. CASE u # t
      BY <2>0, <3>2 DEF LyricsControl
    <3> QED BY <3>1, <3>2
  <2> QED BY <1>1, <1>2, <2>1, <2>2, <2>3 DEF LyricsControl, SameBatch
<1> QED BY <1>3, <1>4, <1>5

LEMMA OpenLyricsInv ==
    ASSUME EnrichmentInv, NEW canceled \in BOOLEAN, OpenLyrics(canceled)
    PROVE  EnrichmentInv'
PROOF
<1> DEFINE t == batch.item
           r == session.lyr[t]
           stable == r.status \in Good /\ r.match
<1>1. /\ session \in Rows /\ Fetching("lyrics") /\ batch.stage = "open"
      /\ UNCHANGED <<disk, row, fill, torn>>
  BY DEF OpenLyrics, EnrichmentInv, EnrichmentTypeOK
<1>2. t \in Track
  BY <1>1, FetchedFrom DEF EnrichmentInv, Fetching
<1>3. CASE At("settle") /\ UNCHANGED session
  BY <1>1, <1>2, <1>3, LyricsStep
<1>4. CASE \E local \in LocalLyrics : PersistLyrics(t, local) /\ At("settle")
  <2>1. PICK local \in LocalLyrics : PersistLyrics(t, local)
    BY <1>4
  <2>2. local \in {"ok", "lrc"}
    BY DEF LocalLyrics
  <2>3. /\ session' \in Rows /\ session'.cov = session.cov /\ session'.art = session.art
        /\ session'.lyr[t].status = local
        /\ \A u \in Track \ {t} : session'.lyr[u] = session.lyr[u]
    BY <1>1, <1>2, <2>1, <2>2, PersistLyricsSays
  <2>4. session'.lyr[t].status \in Good
    BY <2>2, <2>3 DEF Good
  <2> QED BY <1>1, <1>2, <1>4, <2>3, <2>4, LyricsStep
<1>5. CASE /\ ~stable
           /\ IF LyricsFetch
              THEN At("ask") /\ UNCHANGED session
              ELSE At("settle") /\ PersistLyrics(t, "skipped")
  <2>1. CASE LyricsFetch
    BY <1>1, <1>2, <1>5, <2>1, LyricsStep
  <2>2. CASE ~LyricsFetch
    <3>1. /\ session' \in Rows /\ session'.cov = session.cov /\ session'.art = session.art
          /\ \A u \in Track \ {t} : session'.lyr[u] = session.lyr[u]
      BY <1>1, <1>2, <1>5, <2>2, PersistLyricsSays
    <3> QED BY <1>1, <1>2, <1>5, <2>2, <3>1, LyricsStep
  <2> QED BY <2>1, <2>2
<1> QED BY <1>3, <1>4, <1>5 DEF OpenLyrics

LEMMA AskLyricsInv ==
    ASSUME EnrichmentInv, AskLyrics
    PROVE  EnrichmentInv'
PROOF
<1> DEFINE t == batch.item
<1>1. /\ session \in Rows /\ Fetching("lyrics") /\ batch.stage = "ask" /\ At("settle")
      /\ UNCHANGED <<disk, row, fill, torn>>
  BY DEF AskLyrics, EnrichmentInv, EnrichmentTypeOK
<1>2. t \in Track
  BY <1>1, FetchedFrom DEF EnrichmentInv, Fetching
<1>3. PICK answer \in LrclibAnswer :
          IF answer = "error" /\ session.lyr[t].status \in Good
          THEN UNCHANGED session
          ELSE PersistLyrics(t, answer)
  BY DEF AskLyrics
<1>4. CASE UNCHANGED session
  BY <1>1, <1>2, <1>4, LyricsStep
<1>5. CASE /\ PersistLyrics(t, answer)
           /\ ~(answer = "error" /\ session.lyr[t].status \in Good)
  <2>1. answer \in {"ok", "not_found", "error"}
    BY DEF LrclibAnswer
  <2>2. /\ session' \in Rows /\ session'.cov = session.cov /\ session'.art = session.art
        /\ session'.lyr[t].status = answer
        /\ \A u \in Track \ {t} : session'.lyr[u] = session.lyr[u]
    BY <1>1, <1>2, <1>5, <2>1, PersistLyricsSays
  <2>3. \/ session'.lyr[t].status \in Good
        \/ session'.lyr[t].status = "not_found"
        \/ session.lyr[t].status \notin Good
    BY <1>5, <2>1, <2>2 DEF Good
  <2> QED BY <1>1, <1>2, <2>2, <2>3, LyricsStep
<1> QED BY <1>3, <1>4, <1>5

-----------------------------------------------------------------------------
(* The rows without a batch.                                               *)

LEMMA CoolDownSays ==
    ASSUME row \in Rows, CoolDownEnds
    PROVE  /\ row' \in Rows /\ row'.cov = row.cov
           /\ \A a \in Artist : row'.art[a].has = row.art[a].has
           /\ \A t \in Track : row'.lyr[t].status = row.lyr[t].status
PROOF
<1> DEFINE art == [a \in Artist |-> [row.art[a] EXCEPT !.cool = FALSE]]
           lyr == [t \in Track |-> [row.lyr[t] EXCEPT !.cool = FALSE]]
<1>1. row' = [row EXCEPT !.art = art, !.lyr = lyr]
  BY DEF CoolDownEnds
<1>2. art \in [Artist -> Portrait] /\ \A a \in Artist : art[a].has = row.art[a].has
  BY DEF Rows, Portrait
<1>3. lyr \in [Track -> Lyrics] /\ \A t \in Track : lyr[t].status = row.lyr[t].status
  BY DEF Rows, Lyrics
<1> HIDE DEF art, lyr
<1>4. row' \in Rows /\ row'.cov = row.cov /\ row'.art = art /\ row'.lyr = lyr
  BY <1>1, <1>2, <1>3 DEF Rows
<1> QED BY <1>2, <1>3, <1>4

LEMMA RetagSays ==
    ASSUME row \in Rows, NEW tracks \in SUBSET Track, Retag(tracks)
    PROVE  /\ row' \in Rows /\ row'.cov = row.cov /\ row'.art = row.art
           /\ \A t \in Track : row'.lyr[t].status = row.lyr[t].status
PROOF
<1> DEFINE lyr == [t \in Track |-> IF t \in tracks /\ row.lyr[t].status # "none"
                                   THEN [row.lyr[t] EXCEPT !.match = FALSE]
                                   ELSE row.lyr[t]]
<1>1. row' = [row EXCEPT !.lyr = lyr]
  BY DEF Retag
<1>2. lyr \in [Track -> Lyrics]
  BY DEF Rows, Lyrics
<1>3. \A t \in Track : lyr[t].status = row.lyr[t].status
  BY DEF Rows, Lyrics
<1> HIDE DEF lyr
<1>4. row' \in Rows /\ row'.cov = row.cov /\ row'.art = row.art /\ row'.lyr = lyr
  BY <1>1, <1>2 DEF Rows
<1> QED BY <1>3, <1>4

\* Without a batch, rows that change for the session too.
LEMMA RowsInv ==
    ASSUME EnrichmentInv, batch.kind = "none", UNCHANGED <<disk, batch, fill, torn>>,
           row' \in Rows, session' = row', row'.cov = row.cov,
           \A a \in Artist : row'.art[a].has = row.art[a].has
    PROVE  EnrichmentInv'
PROOF
<1> USE DEF EnrichmentInv
<1>1. session = row
  BY DEF SessionControl
<1>2. EnrichmentTypeOK' /\ BatchControl' /\ SessionControl'
  BY DEF EnrichmentTypeOK, BatchControl, Pool, SessionControl
<1>3. ArtMatchesDisk' /\ FillControl'
  BY <1>1 DEF ArtMatchesDisk, FillControl
<1>4. LyricsControl'
  BY NoLyricsFetched
<1> QED BY <1>2, <1>3, <1>4

LEMMA CoolDownEndsInv ==
    ASSUME EnrichmentInv, CoolDownEnds
    PROVE  EnrichmentInv'
BY CoolDownSays, RowsInv DEF EnrichmentInv, EnrichmentTypeOK, CoolDownEnds

LEMMA RetagInv ==
    ASSUME EnrichmentInv, batch.kind = "none", NEW tracks \in SUBSET Track, Retag(tracks)
    PROVE  EnrichmentInv'
BY RetagSays, RowsInv DEF EnrichmentInv, EnrichmentTypeOK, Retag

LEMMA EnrichmentInitInv ==
    ASSUME EnrichmentInit
    PROVE  EnrichmentInv
PROOF
<1> USE DEF EnrichmentInit
<1>1. Unfetched \in Rows
  <2>1. [has |-> FALSE, cool |-> FALSE] \in Portrait
        /\ [status |-> "none", match |-> TRUE, cool |-> FALSE] \in Lyrics
    BY DEF Portrait, Lyrics
  <2> QED BY <2>1 DEF Unfetched, Rows
<1>2. EnrichmentTypeOK
  BY <1>1, NoBatchSays DEF EnrichmentTypeOK, Fill
<1>3. BatchControl /\ SessionControl
  BY NoBatchSays DEF BatchControl, Pool, SessionControl
<1>4. ArtMatchesDisk /\ FillControl
  BY DEF ArtMatchesDisk, FillControl, Unfetched
<1>5. LyricsControl
  BY NoBatchSays DEF LyricsControl
<1> QED BY <1>2, <1>3, <1>4, <1>5 DEF EnrichmentInv

LEMMA StartPhaseInv ==
    ASSUME EnrichmentInv, batch.kind = "none", NEW force \in BOOLEAN,
           StartCovers(force) \/ StartPortraits(force) \/ StartLyrics(force)
    PROVE  EnrichmentInv' /\ batch'.kind # "none"
PROOF
<1>1. ASSUME NEW kind \in {"covers", "artist_images", "lyrics"}, NEW todo \in SUBSET Item,
             StartBatch(kind, todo, force)
      PROVE  batch'.kind # "none"
  <2> DEFINE total == Cardinality(todo)
  <2>1. batch' = [NoBatch EXCEPT !.kind = kind, !.force = force, !.todo = todo, !.total = total]
    BY <1>1 DEF StartBatch
  <2> HIDE DEF total
  <2> QED BY <2>1 DEF NoBatch
<1>2. CASE StartCovers(force)
  <2>1. PICK todo \in SUBSET Album : StartBatch("covers", todo, force)
    BY <1>2 DEF StartCovers
  <2> QED BY <1>1, <2>1, StartBatchInv DEF Item
<1>3. CASE StartPortraits(force)
  <2> DEFINE todo == {a \in Artist : NeedsPortrait(a, force)}
  <2>1. StartBatch("artist_images", todo, force)
    BY <1>3 DEF StartPortraits
  <2>2. todo \subseteq Artist /\ todo \in SUBSET Item
    BY DEF Item
  <2> HIDE DEF todo
  <2> QED BY <1>1, <2>1, <2>2, StartBatchInv
<1>4. CASE StartLyrics(force)
  <2>1. PICK sidecars \in SUBSET Track : StartBatch("lyrics", TodoLyrics(sidecars), force)
    BY <1>4 DEF StartLyrics
  <2>2. TodoLyrics(sidecars) \subseteq Track /\ TodoLyrics(sidecars) \in SUBSET Item
    BY DEF TodoLyrics, Item
  <2> QED BY <1>1, <2>1, <2>2, StartBatchInv
<1> QED BY <1>2, <1>3, <1>4

\* A step of the batch, which goes on, and its end.
LEMMA EnrichmentStepInv ==
    ASSUME EnrichmentInv, NEW canceled \in BOOLEAN, EnrichmentStep(canceled)
    PROVE  EnrichmentInv'
BY NextItemInv, SettleInv, OpenCoverInv, AskCoverInv, OpenPortraitInv, WalkToRootInv,
   AskProviderInv, MissPortraitInv, OpenLyricsInv, AskLyricsInv DEF EnrichmentStep

LEMMA EnrichmentStepKeepsBatch ==
    ASSUME batch \in Batch, NEW canceled \in BOOLEAN, EnrichmentStep(canceled)
    PROVE  batch'.kind = batch.kind
PROOF
<1>1. CASE \E stage \in {"open", "walk", "ask", "miss", "settle"} : At(stage)
  BY <1>1 DEF At, Batch
<1>2. CASE \E i \in batch.todo : Open(i) \/ Skip(i)
  BY <1>2 DEF Open, Skip, Batch
<1>3. CASE \E asked \in BOOLEAN : Further(asked)
  BY <1>3 DEF Further, Batch
<1>4. CASE Settle
  BY <1>4 DEF Settle, Batch
<1>5. CASE NextItem(canceled)
  BY <1>2, <1>5 DEF NextItem
<1>6. CASE OpenCover \/ AskCover \/ MissPortrait \/ AskLyrics
  BY <1>1, <1>6 DEF OpenCover, AskCover, MissPortrait, AskLyrics
<1>7. CASE OpenPortrait(canceled) \/ WalkToRoot(canceled)
  BY <1>1, <1>7 DEF OpenPortrait, WalkToRoot
<1>8. CASE AskProvider(canceled)
  BY <1>1, <1>3, <1>8 DEF AskProvider, Found, Unavailable, Unencodable, Without
<1>9. CASE OpenLyrics(canceled)
  BY <1>1, <1>9 DEF OpenLyrics
<1> QED BY <1>4, <1>5, <1>6, <1>7, <1>8, <1>9 DEF EnrichmentStep

-----------------------------------------------------------------------------
(* The runner, the row, the processes and the command.                     *)

\* Of TypeOK, what is not told of the enrichment.
JobsTypeOK ==
    /\ proc \in {"none", "boot", "serve", "stopping", "local"}
    /\ running \in BOOLEAN /\ cancel \in BOOLEAN /\ canceler \in BOOLEAN /\ probe \in BOOLEAN
    /\ job \in Job /\ status \in Status /\ cli \in Cli /\ call \in Call
    /\ begun \in 0..MaxJobs /\ lives \in 0..MaxLives /\ faults \in 0..MaxFaults
    /\ wanted \in BOOLEAN /\ crossed \in BOOLEAN

\* Of IInv, the same.
JobsInv == JobsTypeOK /\ JobControl /\ RowTellsTheJob /\ CancelHitsItsJob

LEMMA IInvParts ==
    ASSUME IInv
    PROVE  EnrichmentInv /\ JobsInv
BY DEF IInv, JobsInv, TypeOK, JobsTypeOK

LEMMA IInvNext ==
    ASSUME EnrichmentInv', JobsInv'
    PROVE  IInv'
PROOF
<1>1. EnrichmentTypeOK'
  BY DEF EnrichmentInv
<1>2. TypeOK'
  BY <1>1 DEF JobsInv, JobsTypeOK, TypeOK
<1> QED BY <1>2 DEF IInv, JobsInv

LEMMA BoundNext ==
    ASSUME NEW bound \in Nat, NEW n \in 0..bound, n < bound
    PROVE  n + 1 \in 0..bound
OBVIOUS

LEMMA PhasesOfType ==
    ASSUME NEW kind \in Kind
    PROVE  PhasesOf(kind) \in Seq(Phase)
PROOF
<1>1. Phases.scan \in Seq(Phase)
  BY DEF Phases, Phase
<1>2. Phases.regenCovers \in Seq(Phase)
  BY DEF Phases, Phase
<1>3. Phases.regenArtists \in Seq(Phase)
  BY DEF Phases, Phase
<1>4. Phases.regenLyrics \in Seq(Phase)
  BY DEF Phases, Phase
<1> QED BY <1>1, <1>2, <1>3, <1>4 DEF PhasesOf, Kind

LEMMA NoJobType == NoJob \in Job /\ NoJob.pc = "none"
BY DEF NoJob, Job

\* A runner that is free has no job, no batch and nobody that cancels.
LEMMA FreeRunner ==
    ASSUME JobsInv, ~running
    PROVE  job.pc = "none" /\ batch.kind = "none" /\ ~canceler
BY DEF JobsInv, JobControl

LEMMA LaunchInv ==
    ASSUME IInv, NEW kind \in Kind, NEW force \in BOOLEAN, Launch(kind, force),
           proc' \in {"boot", "serve"}, proc \in {"boot", "serve"},
           cli' = cli, call' \in Call, probe' = probe
    PROVE  IInv'
PROOF
<1> USE DEF JobsInv
<1>1. EnrichmentInv' /\ JobsInv
  BY IInvParts, EnrichmentInvUnchanged DEF Launch
<1>2. job' \in Job /\ job'.pc = "between"
  BY PhasesOfType DEF Launch, Job
<1>3. begun' \in 0..MaxJobs
  BY <1>1, BoundNext, LibraryJobsAssumption DEF Launch, JobsTypeOK
<1>4. JobsTypeOK'
  BY <1>1, <1>2, <1>3 DEF Launch, JobsTypeOK, Status, Busy
<1>5. JobControl'
  BY <1>1, <1>2, FreeRunner DEF Launch, JobControl, enrichment
<1>6. RowTellsTheJob' /\ CancelHitsItsJob'
  BY <1>2 DEF Launch, RowTellsTheJob, CancelHitsItsJob, Busy
<1> QED BY <1>1, <1>4, <1>5, <1>6, IInvNext

LEMMA LaunchFailsInv ==
    ASSUME IInv, LaunchFails, proc' = proc, proc \in {"boot", "serve"},
           cli' = cli, call' \in Call, probe' = probe
    PROVE  IInv'
PROOF
<1> USE DEF JobsInv
<1>1. EnrichmentInv' /\ JobsInv
  BY IInvParts, EnrichmentInvUnchanged DEF LaunchFails
<1>2. JobsTypeOK'
  BY <1>1, BoundNext, LibraryJobsAssumption DEF LaunchFails, JobsTypeOK
<1>3. JobControl'
  BY <1>1 DEF LaunchFails, JobControl, enrichment
<1>4. RowTellsTheJob' /\ CancelHitsItsJob'
  BY <1>1 DEF LaunchFails, RowTellsTheJob, CancelHitsItsJob
<1> QED BY <1>1, <1>2, <1>3, <1>4, IInvNext

LEMMA RequestCancelInv ==
    ASSUME IInv, RequestCancel, proc \in {"boot", "serve"},
           proc' \in {"boot", "serve", "stopping"}, call' \in Call
    PROVE  IInv'
PROOF
<1> USE DEF JobsInv
<1>1. EnrichmentInv' /\ JobsInv
  BY IInvParts, EnrichmentInvUnchanged DEF RequestCancel
<1>2. JobsTypeOK'
  BY <1>1 DEF RequestCancel, JobsTypeOK, bounds
<1>3. JobControl'
  BY <1>1 DEF RequestCancel, JobControl, enrichment
<1>4. RowTellsTheJob' /\ CancelHitsItsJob'
  BY <1>1 DEF RequestCancel, RowTellsTheJob, CancelHitsItsJob
<1> QED BY <1>1, <1>2, <1>3, <1>4, IInvNext

LEMMA CommitCancelInv ==
    ASSUME IInv, CommitCancel
    PROVE  IInv'
PROOF
<1> USE DEF JobsInv
<1>1. EnrichmentInv' /\ JobsInv
  BY IInvParts, EnrichmentInvUnchanged DEF CommitCancel
<1>2. JobsTypeOK'
  BY <1>1 DEF CommitCancel, JobsTypeOK, bounds, Status, Busy
<1>3. JobControl' /\ CancelHitsItsJob'
  BY <1>1 DEF CommitCancel, JobControl, CancelHitsItsJob, enrichment
<1>4. RowTellsTheJob'
  BY <1>1 DEF CommitCancel, RowTellsTheJob, Busy
<1> QED BY <1>1, <1>2, <1>3, <1>4, IInvNext

\* A step of the job's thread: its control, with the row and the batch.
LEMMA JobThreadInv ==
    ASSUME JobsInv, UNCHANGED <<proc, running, cancel, canceler, cli, call, probe, begun,
                                lives, wanted, crossed>>,
           faults' \in 0..MaxFaults, status' \in Status, job' \in Job,
           job.pc # "none", job'.pc # "none",
           job'.pc \in {"between", "batch"} => job.pc \in {"between", "batch"},
           job'.pc = "batch" <=> batch'.kind # "none",
           \/ /\ status' = status /\ job.pc # "leave" /\ job'.pc # "leave"
           \/ /\ status' \notin Busy /\ job'.pc = "leave"
    PROVE  JobsInv'
PROOF
<1> USE DEF JobsInv
<1>1. JobsTypeOK'
  BY DEF JobsTypeOK
<1>2. JobControl'
  BY DEF JobControl
<1>3. CancelHitsItsJob'
  BY DEF CancelHitsItsJob
<1>4. RowTellsTheJob'
  BY DEF RowTellsTheJob, JobsTypeOK, Job
<1> QED BY <1>1, <1>2, <1>3, <1>4

LEMMA EndPhasesInv ==
    ASSUME IInv, EndPhases
    PROVE  IInv'
PROOF
<1>1. EnrichmentInv' /\ JobsInv /\ batch' = batch
  BY IInvParts, EnrichmentInvUnchanged DEF EndPhases, enrichment
<1>2. job' \in Job /\ job'.pc = "idle"
  <2>1. job \in Job /\ <<>> \in Seq(Phase)
    BY <1>1 DEF JobsInv, JobsTypeOK
  <2> QED BY <2>1 DEF EndPhases, Job
<1>3. JobsInv'
  BY <1>1, <1>2, JobThreadInv DEF EndPhases, Other, JobsInv, JobControl, JobsTypeOK
<1> QED BY <1>1, <1>3, IInvNext

LEMMA WalkPhaseInv ==
    ASSUME IInv, WalkPhase
    PROVE  IInv'
PROOF
<1>1. JobsInv /\ EnrichmentInv /\ job.pc = "between"
  BY IInvParts DEF WalkPhase, PhaseBegins
<1>2. batch.kind = "none"
  BY <1>1 DEF JobsInv, JobControl
<1>3. EnrichmentInv' /\ batch' = batch
  <2>1. ASSUME NEW tracks \in SUBSET Track, Retag(tracks)
        PROVE  EnrichmentInv' /\ batch' = batch
    BY <1>1, <1>2, <2>1, RetagInv DEF Retag
  <2>2. CASE UNCHANGED enrichment
    BY <1>1, <2>2, EnrichmentInvUnchanged DEF enrichment
  <2> QED BY <2>1, <2>2 DEF WalkPhase
<1>4. job' \in Job /\ job'.pc = "between"
  <2>1. Tail(job.left) \in Seq(Phase)
    BY <1>1 DEF WalkPhase, PhaseBegins, JobsInv, JobsTypeOK, Job
  <2> QED BY <1>1, <2>1 DEF WalkPhase, JobsInv, JobsTypeOK, Job
<1>5. JobsInv'
  BY <1>1, <1>2, <1>3, <1>4, JobThreadInv DEF WalkPhase, Other, JobsInv, JobsTypeOK
<1> QED BY <1>3, <1>5, IInvNext

LEMMA BatchPhaseInv ==
    ASSUME IInv, BatchPhase
    PROVE  IInv'
PROOF
<1>1. JobsInv /\ EnrichmentInv /\ job.pc = "between"
  BY IInvParts DEF BatchPhase, PhaseBegins
<1>2. batch.kind = "none"
  BY <1>1 DEF JobsInv, JobControl
<1>3. job.force \in BOOLEAN
  BY <1>1 DEF JobsInv, JobsTypeOK, Job
<1>4. EnrichmentInv' /\ batch'.kind # "none"
  BY <1>1, <1>2, <1>3, StartPhaseInv DEF BatchPhase
<1>5. job' \in Job /\ job'.pc = "batch"
  <2>1. Tail(job.left) \in Seq(Phase)
    BY <1>1 DEF BatchPhase, PhaseBegins, JobsInv, JobsTypeOK, Job
  <2> QED BY <1>1, <2>1 DEF BatchPhase, JobsInv, JobsTypeOK, Job
<1>6. JobsInv'
  BY <1>1, <1>4, <1>5, JobThreadInv DEF BatchPhase, Other, JobsInv, JobsTypeOK
<1> QED BY <1>4, <1>6, IInvNext

LEMMA InBatchInv ==
    ASSUME IInv, InBatch
    PROVE  IInv'
PROOF
<1>1. JobsInv /\ EnrichmentInv /\ job.pc = "batch" /\ cancel \in BOOLEAN /\ batch \in Batch
  BY IInvParts DEF InBatch, JobsInv, JobsTypeOK, EnrichmentInv, EnrichmentTypeOK
<1>2. CASE EnrichmentStep(cancel) /\ UNCHANGED job
  <2>1. EnrichmentInv' /\ batch'.kind = batch.kind
    BY <1>1, <1>2, EnrichmentStepInv, EnrichmentStepKeepsBatch
  <2>2. JobsInv'
    BY <1>1, <1>2, <2>1, JobThreadInv DEF InBatch, Other, JobsInv, JobsTypeOK, JobControl
  <2> QED BY <2>1, <2>2, IInvNext
<1>3. CASE FinishBatch(cancel) /\ job' = [job EXCEPT !.pc = "between"]
  <2>1. EnrichmentInv' /\ batch'.kind = "none"
    BY <1>1, <1>3, FinishBatchInv, NoBatchSays DEF FinishBatch
  <2>2. job' \in Job /\ job'.pc = "between"
    BY <1>1, <1>3 DEF JobsInv, JobsTypeOK, Job
  <2>3. JobsInv'
    BY <1>1, <2>1, <2>2, JobThreadInv DEF InBatch, Other, JobsInv, JobsTypeOK
  <2> QED BY <2>1, <2>3, IInvNext
<1> QED BY <1>2, <1>3 DEF InBatch

LEMMA RaiseInv ==
    ASSUME IInv, Raise
    PROVE  IInv'
PROOF
<1>1. JobsInv /\ EnrichmentInv
  BY IInvParts
<1>2. EnrichmentInv' /\ batch'.kind = "none"
  BY <1>1, RollbackInv, NoBatchSays DEF Raise
<1>3. faults' \in 0..MaxFaults
  BY <1>1, BoundNext, LibraryJobsAssumption DEF Raise, JobsInv, JobsTypeOK
<1>4. job' \in Job /\ job'.pc = "failed"
  <2>1. job \in Job /\ <<>> \in Seq(Phase)
    BY <1>1 DEF JobsInv, JobsTypeOK
  <2> QED BY <2>1 DEF Raise, Job
<1>5. JobsInv'
  BY <1>1, <1>2, <1>3, <1>4, JobThreadInv DEF Raise, Other, JobsInv, JobsTypeOK
<1> QED BY <1>2, <1>5, IInvNext

LEMMA WriteEndInv ==
    ASSUME IInv, WriteEnd
    PROVE  IInv'
PROOF
<1>1. EnrichmentInv' /\ JobsInv /\ batch' = batch
  BY IInvParts, EnrichmentInvUnchanged DEF WriteEnd, enrichment
<1>2. job' \in Job /\ job'.pc = "leave" /\ status' \in Status \ Busy
  BY <1>1 DEF WriteEnd, JobsInv, JobsTypeOK, Job, Status, Busy
<1>3. JobsInv'
  BY <1>1, <1>2, JobThreadInv DEF WriteEnd, Other, JobsInv, JobControl, JobsTypeOK
<1> QED BY <1>1, <1>3, IInvNext

LEMMA LeaveInv ==
    ASSUME IInv, Leave
    PROVE  IInv'
PROOF
<1> USE DEF JobsInv
<1>1. EnrichmentInv' /\ JobsInv
  BY IInvParts, EnrichmentInvUnchanged DEF Leave
<1>2. JobsTypeOK'
  BY <1>1, NoJobType DEF Leave, JobsTypeOK, bounds
<1>3. JobControl' /\ CancelHitsItsJob'
  BY <1>1, NoJobType DEF Leave, JobControl, CancelHitsItsJob, enrichment, Locked
<1>4. RowTellsTheJob'
  BY <1>1, NoJobType DEF Leave, RowTellsTheJob
<1> QED BY <1>1, <1>2, <1>3, <1>4, IInvNext

\* A step of a process, of the command or of a request that leaves the job alone.
LEMMA AsideInv ==
    ASSUME JobsInv, JobsTypeOK', UNCHANGED <<running, cancel, job, canceler, wanted>>,
           batch'.kind = batch.kind,
           cli' = "local" <=> proc' = "local",
           running => proc' = proc,
           \/ UNCHANGED <<status, crossed>> /\ proc' \in {proc, "none"}
           \/ UNCHANGED <<status, crossed>> /\ proc = "serve"
           \/ status' \notin Busy /\ job.pc = "none"
    PROVE  JobsInv'
PROOF
<1> USE DEF JobsInv
<1>1. JobControl' /\ CancelHitsItsJob'
  BY DEF JobControl, CancelHitsItsJob
<1>2. RowTellsTheJob'
  BY DEF RowTellsTheJob
<1> QED BY <1>1, <1>2

\* The process of a job is gone.
LEMMA GoneInv ==
    ASSUME IInv, proc' = "none", running' = FALSE, cancel' = FALSE, job' = NoJob,
           canceler' = FALSE, RaiseBatch \/ EndAll, cli' \in Cli \ {"local"},
           call' \in Call, status' \in Status, UNCHANGED <<probe, bounds, wanted, crossed>>
    PROVE  IInv'
PROOF
<1> USE DEF JobsInv
<1>1. JobsInv /\ EnrichmentInv' /\ batch'.kind = "none"
  BY IInvParts, RollbackInv, NoBatchSays
<1>2. JobsTypeOK'
  BY <1>1, NoJobType DEF JobsTypeOK, bounds
<1>3. JobControl' /\ CancelHitsItsJob' /\ RowTellsTheJob'
  BY <1>1, NoJobType DEF JobControl, CancelHitsItsJob, RowTellsTheJob
<1> QED BY <1>1, <1>2, <1>3, IInvNext

LEMMA ServeInv ==
    ASSUME IInv, Serve
    PROVE  IInv'
PROOF
<1>1. JobsInv /\ EnrichmentInv' /\ batch' = batch
  BY IInvParts, EnrichmentInvUnchanged DEF Serve, enrichment
<1>2. ~running /\ job.pc = "none" /\ proc = "none"
  BY <1>1, FreeRunner DEF Serve, TakeLock, JobsInv, JobControl
<1>3. status' \in Status \ Busy
  BY <1>1 DEF Serve, Migrated, JobsInv, JobsTypeOK, Status, Busy
<1>4. lives' \in 0..MaxLives
  BY <1>1, BoundNext, LibraryJobsAssumption DEF Serve, TakeLock, JobsInv, JobsTypeOK
<1>5. JobsTypeOK'
  BY <1>1, <1>3, <1>4 DEF Serve, TakeLock, JobsInv, JobsTypeOK, runner
<1>6. JobsInv'
  BY <1>1, <1>2, <1>3, <1>5, AsideInv DEF Serve, TakeLock, runner, JobsInv, JobControl
<1> QED BY <1>1, <1>6, IInvNext

LEMMA BootScanInv ==
    ASSUME IInv, BootScan
    PROVE  IInv'
PROOF
<1>1. CASE Launch("scan", FALSE)
  BY <1>1, LaunchInv, IInvParts DEF BootScan, Kind, JobsInv, JobsTypeOK
<1>2. CASE UNCHANGED <<runner, status, bounds, enrichment, wanted, crossed>>
           /\ (running \/ begun = MaxJobs)
  <2>1. JobsInv /\ EnrichmentInv' /\ batch' = batch
    BY <1>2, IInvParts, EnrichmentInvUnchanged DEF enrichment
  <2>2. JobsTypeOK'
    BY <1>2, <2>1 DEF BootScan, JobsInv, JobsTypeOK, runner, bounds
  <2>3. JobControl' /\ CancelHitsItsJob' /\ RowTellsTheJob'
    BY <1>2, <2>1 DEF BootScan, JobsInv, JobControl, CancelHitsItsJob, RowTellsTheJob, runner
  <2> QED BY <2>1, <2>2, <2>3, IInvNext DEF JobsInv
<1> QED BY <1>1, <1>2 DEF BootScan

LEMMA HangupType ==
    ASSUME call \in Call
    PROVE  Hangup \in Call
BY DEF Hangup, Call

LEMMA StopInv ==
    ASSUME IInv, Stop
    PROVE  IInv'
PROOF
<1>1. JobsInv /\ call' \in Call
  BY IInvParts, HangupType DEF Stop, JobsInv, JobsTypeOK
<1>2. CASE RequestCancel
  BY <1>1, <1>2, RequestCancelInv DEF Stop
<1>3. CASE ~running /\ UNCHANGED <<runner, status, cli, probe, bounds, enrichment,
                                   wanted, crossed>>
  <2>1. EnrichmentInv' /\ batch' = batch
    BY <1>3, IInvParts, EnrichmentInvUnchanged DEF enrichment
  <2>2. JobsTypeOK'
    BY <1>1, <1>3 DEF Stop, JobsInv, JobsTypeOK, runner, bounds
  <2>3. JobsInv'
    BY <1>1, <1>3, <2>1, <2>2, AsideInv DEF Stop, runner, JobsInv, JobControl
  <2> QED BY <2>1, <2>3, IInvNext
<1> QED BY <1>2, <1>3 DEF Stop

LEMMA ExitInv ==
    ASSUME IInv, Exit
    PROVE  IInv'
PROOF
<1>1. JobsInv /\ cli # "local"
  BY IInvParts DEF Exit, JobsInv, JobControl
<1> QED BY <1>1, GoneInv DEF Exit, Gone, JobsInv, JobsTypeOK

LEMMA CrashInv ==
    ASSUME IInv, Crash
    PROVE  IInv'
PROOF
<1>1. JobsInv /\ call' \in Call
  BY IInvParts, HangupType DEF Crash, JobsInv, JobsTypeOK
<1>2. cli' \in Cli \ {"local"}
  BY <1>1 DEF Crash, JobsInv, JobsTypeOK, JobControl, Cli
<1> QED BY <1>1, <1>2, GoneInv DEF Crash, Gone, JobsInv, JobsTypeOK

\* The command waits, asks, is told, gives up.
LEMMA StillInv ==
    ASSUME IInv, UNCHANGED Still, cli' \in Cli \ {"local"}, cli # "local", call' \in Call
    PROVE  IInv'
PROOF
<1>1. JobsInv /\ EnrichmentInv' /\ batch' = batch
  BY IInvParts, EnrichmentInvUnchanged DEF Still, enrichment
<1>2. JobsTypeOK'
  BY <1>1 DEF Still, JobsInv, JobsTypeOK, runner, bounds
<1>3. JobsInv'
  BY <1>1, <1>2, AsideInv DEF Still, runner, JobsInv, JobControl
<1> QED BY <1>1, <1>3, IInvNext

LEMMA CliWaitsInv ==
    ASSUME IInv, CliHealth \/ CliAsk \/ CliAnswered \/ CliGivesUp \/ CliPoll
    PROVE  IInv'
PROOF
<1>1. call \in Call /\ cli \in Cli
  BY IInvParts DEF JobsInv, JobsTypeOK
<1>2. UNCHANGED Still /\ cli # "local"
  BY DEF CliHealth, CliAsk, CliAnswered, CliGivesUp, CliPoll
<1>3. cli' \in Cli \ {"local"} /\ call' \in Call
  BY <1>1 DEF CliHealth, CliAsk, CliAnswered, CliGivesUp, CliPoll, Cli, Call
<1> QED BY <1>2, <1>3, StillInv

LEMMA HandleStartInv ==
    ASSUME IInv, HandleStart
    PROVE  IInv'
PROOF
<1>1. JobsInv /\ proc \in {"boot", "serve"}
  BY IInvParts DEF HandleStart, Listening
<1>2. UNCHANGED <<proc, cli, probe>> /\ call' \in Call
  BY DEF HandleStart, Call
<1>3. CASE \E kind \in Kind, force \in BOOLEAN : Launch(kind, force)
  BY <1>1, <1>2, <1>3, LaunchInv
<1>4. CASE LaunchFails
  BY <1>1, <1>2, <1>4, LaunchFailsInv
<1>5. CASE UNCHANGED <<runner, status, enrichment, bounds, wanted, crossed>>
  <2>1. EnrichmentInv' /\ batch' = batch
    BY <1>5, IInvParts, EnrichmentInvUnchanged DEF enrichment
  <2>2. JobsTypeOK'
    BY <1>1, <1>2, <1>5 DEF JobsInv, JobsTypeOK, runner, bounds
  <2>3. JobsInv'
    BY <1>1, <1>2, <1>5, <2>1, <2>2, AsideInv DEF runner, JobsInv, JobControl
  <2> QED BY <2>1, <2>3, IInvNext
<1> QED BY <1>3, <1>4, <1>5 DEF HandleStart

LEMMA CliLockInv ==
    ASSUME IInv, CliLock
    PROVE  IInv'
PROOF
<1>1. JobsInv /\ EnrichmentInv' /\ batch' = batch
  BY IInvParts, EnrichmentInvUnchanged DEF CliLock, enrichment
<1>2. CASE TakeLock("local") /\ begun < MaxJobs /\ cli' = "local" /\ running' /\ ~cancel'
           /\ begun' = begun + 1 /\ status' = "running" /\ wanted' = FALSE
           /\ UNCHANGED <<canceler, faults>>
           /\ \E kind \in Kind, force \in BOOLEAN :
                  job' = [pc |-> "between", force |-> force, left |-> PhasesOf(kind)]
  <2>1. ~running /\ job.pc = "none" /\ batch.kind = "none" /\ ~canceler
    BY <1>1, <1>2, FreeRunner DEF TakeLock, JobsInv, JobControl
  <2>2. job' \in Job /\ job'.pc = "between"
    BY <1>2, PhasesOfType DEF Job
  <2>3. begun' \in 0..MaxJobs /\ lives' \in 0..MaxLives
    BY <1>1, <1>2, BoundNext, LibraryJobsAssumption DEF TakeLock, JobsInv, JobsTypeOK
  <2>4. running' = TRUE /\ cancel' = FALSE /\ UNCHANGED <<call, probe, crossed>>
    BY <1>1, <1>2 DEF CliLock, TakeLock
  <2>5. JobsTypeOK'
    BY <1>1, <1>2, <2>2, <2>3, <2>4 DEF TakeLock, JobsInv, JobsTypeOK, Status, Busy, Cli
  <2>6. JobControl' /\ CancelHitsItsJob' /\ RowTellsTheJob'
    BY <1>1, <1>2, <2>1, <2>2, <2>4
       DEF TakeLock, JobControl, CancelHitsItsJob, RowTellsTheJob, Busy
  <2> QED BY <1>1, <2>5, <2>6, IInvNext DEF JobsInv
<1>3. CASE cli = "lock" /\ cli' = "done" /\ UNCHANGED <<proc, runner, status, bounds, wanted>>
  BY <1>3, IInvParts, StillInv DEF CliLock, Still, Cli, JobsInv, JobsTypeOK
<1> QED BY <1>2, <1>3 DEF CliLock

LEMMA CliInterruptInv ==
    ASSUME IInv, CliInterrupt
    PROVE  IInv'
PROOF
<1>1. JobsInv /\ canceler = FALSE
  BY IInvParts DEF CliInterrupt, JobsInv, JobControl, JobsTypeOK
<1> QED BY <1>1, GoneInv DEF CliInterrupt, JobsInv, JobsTypeOK, Cli, Status

LEMMA CliReturnInv ==
    ASSUME IInv, CliReturn
    PROVE  IInv'
PROOF
<1>1. JobsInv /\ EnrichmentInv' /\ batch' = batch
  BY IInvParts, EnrichmentInvUnchanged DEF CliReturn, enrichment
<1>2. JobsTypeOK'
  BY <1>1 DEF CliReturn, JobsInv, JobsTypeOK, runner, bounds, Cli
<1>3. JobsInv'
  BY <1>1, <1>2, AsideInv DEF CliReturn, runner
<1> QED BY <1>1, <1>3, IInvNext

LEMMA ProbeLockInv ==
    ASSUME IInv, ProbeLock
    PROVE  IInv'
PROOF
<1>1. JobsInv /\ EnrichmentInv' /\ batch' = batch
  BY IInvParts, EnrichmentInvUnchanged DEF ProbeLock, enrichment
<1>2. JobsTypeOK'
  BY <1>1 DEF ProbeLock, JobsInv, JobsTypeOK, runner, bounds
<1>3. JobsInv'
  BY <1>1, <1>2, AsideInv DEF ProbeLock, runner, JobsInv, JobControl
<1> QED BY <1>1, <1>3, IInvNext

LEMMA ProbeMigratesInv ==
    ASSUME IInv, ProbeMigrates
    PROVE  IInv'
PROOF
<1>1. JobsInv /\ EnrichmentInv' /\ batch' = batch
  BY IInvParts, EnrichmentInvUnchanged DEF ProbeMigrates, enrichment
<1>2. JobsTypeOK'
  BY <1>1 DEF ProbeMigrates, Migrated, JobsInv, JobsTypeOK, runner, bounds, Status
<1>3. JobControl' /\ CancelHitsItsJob'
  BY <1>1 DEF ProbeMigrates, runner, JobsInv, JobControl, CancelHitsItsJob
<1>4. RowTellsTheJob'
  BY <1>1, FreeRunner DEF ProbeMigrates, Migrated, runner, JobsInv, JobsTypeOK, RowTellsTheJob,
     Busy
<1> QED BY <1>1, <1>2, <1>3, <1>4, IInvNext DEF JobsInv

\* The rows change, but no job does.
LEMMA RowsAsideInv ==
    ASSUME IInv, CoverRequest \/ RetryDaysPass
    PROVE  IInv'
PROOF
<1>1. JobsInv /\ EnrichmentInv
  BY IInvParts
<1>2. EnrichmentInv' /\ batch' = batch
  BY <1>1, FillCoverInv, CommitFillInv, CoolDownEndsInv
     DEF CoverRequest, RetryDaysPass, FillCover, CommitFill, CoolDownEnds
<1>3. UNCHANGED <<proc, runner, status, cli, call, probe, bounds, wanted, crossed>>
  BY DEF CoverRequest, RetryDaysPass
<1>4. JobsTypeOK'
  BY <1>1, <1>3 DEF JobsInv, JobsTypeOK, runner, bounds
<1>5. JobsInv'
  BY <1>1, <1>2, <1>3, <1>4, AsideInv DEF runner, JobsInv, JobControl
<1> QED BY <1>2, <1>5, IInvNext

-----------------------------------------------------------------------------
(* The theorems.                                                           *)

LEMMA InitInv ==
    ASSUME Init
    PROVE  IInv
PROOF
<1>1. EnrichmentInv /\ batch.kind = "none"
  BY EnrichmentInitInv, NoBatchSays DEF Init, EnrichmentInit
<1>2. TypeOK
  <2>1. EnrichmentTypeOK
    BY <1>1 DEF EnrichmentInv
  <2>2. 0 \in 0..MaxJobs /\ 0 \in 0..MaxLives /\ 0 \in 0..MaxFaults
    BY LibraryJobsAssumption
  <2> QED BY <2>1, <2>2, NoJobType DEF Init, TypeOK, Status, Cli, Call
<1>3. JobControl /\ RowTellsTheJob /\ CancelHitsItsJob
  BY <1>1, NoJobType DEF Init, JobControl, RowTellsTheJob, CancelHitsItsJob
<1> QED BY <1>1, <1>2, <1>3 DEF IInv

LEMMA NextInv ==
    ASSUME IInv, [Next]_vars
    PROVE  IInv'
PROOF
<1>1. CASE HttpStart
  <2>1. \E mode \in {"quick", "full"} : Launch("scan", mode = "full")
    BY <1>1 DEF HttpStart
  <2>2. PICK force \in BOOLEAN : Launch("scan", force)
    BY <2>1
  <2> QED BY <1>1, <2>2, LaunchInv, IInvParts DEF HttpStart, Kind, JobsInv, JobsTypeOK
<1>2. CASE HttpStartFails
  BY <1>2, LaunchFailsInv, IInvParts DEF HttpStartFails, JobsInv, JobsTypeOK
<1>3. CASE HttpCancel \/ CliCancel
  BY <1>3, RequestCancelInv, IInvParts DEF HttpCancel, CliCancel, Listening, JobsInv, JobsTypeOK
<1>4. CASE CommitCancel
  BY <1>4, CommitCancelInv
<1>5. CASE JobStep
  BY <1>5, EndPhasesInv, WalkPhaseInv, BatchPhaseInv, InBatchInv, WriteEndInv, LeaveInv
     DEF JobStep
<1>6. CASE Raise
  BY <1>6, RaiseInv
<1>7. CASE Serve \/ BootScan \/ Stop \/ Exit \/ Crash
  BY <1>7, ServeInv, BootScanInv, StopInv, ExitInv, CrashInv
<1>8. CASE CliStep
  BY <1>8, CliWaitsInv, CliLockInv, CliReturnInv, CliInterruptInv DEF CliStep, CliGoesOn
<1>9. CASE HandleStart
  BY <1>9, HandleStartInv
<1>10. CASE ProbeLock \/ ProbeMigrates
  BY <1>10, ProbeLockInv, ProbeMigratesInv
<1>11. CASE CoverRequest \/ RetryDaysPass
  BY <1>11, RowsAsideInv
<1>12. CASE UNCHANGED vars
  <2>1. EnrichmentInv' /\ JobsInv /\ batch' = batch
    BY <1>12, IInvParts, EnrichmentInvUnchanged DEF vars, enrichment
  <2>2. JobsTypeOK'
    BY <1>12, <2>1 DEF vars, runner, bounds, JobsInv, JobsTypeOK
  <2>3. JobControl' /\ CancelHitsItsJob' /\ RowTellsTheJob'
    BY <1>12, <2>1
       DEF vars, runner, JobsInv, JobControl, CancelHitsItsJob, RowTellsTheJob
  <2> QED BY <2>1, <2>2, <2>3, IInvNext DEF JobsInv
<1> QED
  BY <1>1, <1>2, <1>3, <1>4, <1>5, <1>6, <1>7, <1>8, <1>9, <1>10, <1>11, <1>12 DEF Next

\* The runner, its thread, the row, the processes, the command and the batch
\* keep to IInv in every state (jobs/runner.py, scan/jobs.py, runtime/).
THEOREM Inductive == Spec => []IInv
BY InitInv, NextInv, PTL DEF Spec

\* Every variable keeps to its type.
THEOREM TypeCorrect == Spec => []TypeOK
PROOF
<1>1. IInv => TypeOK
  BY DEF IInv
<1> QED BY <1>1, Inductive, PTL

\* The status row is busy exactly while the job it names runs, whatever
\* processes start, die and are asked, unless two writers of it have crossed.
THEOREM RowTells == Spec => []RowTellsTheJob
PROOF
<1>1. IInv => RowTellsTheJob
  BY DEF IInv
<1> QED BY <1>1, Inductive, PTL

\* No job is cut short by a cancel that was not accepted for it.
THEOREM CancelHits == Spec => []CancelHitsItsJob
PROOF
<1>1. IInv => CancelHitsItsJob
  BY DEF IInv
<1> QED BY <1>1, Inductive, PTL

\* Rows and the art on disk agree after every fetch, for any albums, artists,
\* providers, batch sizes and commit intervals.
THEOREM ArtMatches == Spec => []ArtMatchesDisk
PROOF
<1>1. IInv => ArtMatchesDisk
  BY DEF IInv, EnrichmentInv
<1> QED BY <1>1, Inductive, PTL

\* What a step may do to good lyrics, as GoodLyricsKept says it of every step.
LyricsKeptByStep ==
    \A t \in Track :
        row.lyr[t].status \in Good =>
            \/ row'.lyr[t].status \in Good
            \/ row'.lyr[t].status = "not_found" /\ ~row.lyr[t].match

LEMMA StatusKept ==
    ASSUME \A t \in Track : row'.lyr[t].status = row.lyr[t].status
    PROVE  LyricsKeptByStep
BY DEF LyricsKeptByStep

\* A commit writes what the session holds, and nothing else writes a status.
LEMMA BatchKeepsLyrics ==
    ASSUME EnrichmentInv, LyricsFetch, row' \in {row, session}
    PROVE  LyricsKeptByStep
BY DEF EnrichmentInv, LyricsControl, LyricsKeptByStep

LEMMA StepKeepsLyrics ==
    ASSUME IInv, LyricsFetch, [Next]_vars
    PROVE  LyricsKeptByStep
PROOF
<1>1. EnrichmentInv /\ row \in Rows
  BY IInvParts DEF EnrichmentInv, EnrichmentTypeOK
<1>2. CASE UNCHANGED row
  BY <1>2, StatusKept
<1>3. CASE JobStep
  <2>1. CASE InBatch
    <3>1. row' \in {row, session}
      <4>1. CASE Settle \/ FinishBatch(cancel)
        BY <4>1 DEF Settle, FinishBatch
      <4>2. CASE EnrichmentStep(cancel) /\ ~Settle
        BY <4>2 DEF EnrichmentStep, NextItem, OpenCover, AskCover, OpenPortrait, WalkToRoot, AskProvider,
           MissPortrait, OpenLyrics, AskLyrics
      <4> QED BY <2>1, <4>1, <4>2 DEF InBatch
    <3> QED BY <1>1, <3>1, BatchKeepsLyrics
  <2>2. CASE WalkPhase
    <3>1. CASE \E tracks \in SUBSET Track : Retag(tracks)
      BY <1>1, <3>1, RetagSays, StatusKept
    <3>2. CASE UNCHANGED enrichment
      BY <3>2, <1>2 DEF enrichment
    <3> QED BY <2>2, <3>1, <3>2 DEF WalkPhase
  <2>3. CASE BatchPhase
    <3>1. UNCHANGED row
      BY <2>3 DEF BatchPhase, StartCovers, StartPortraits, StartLyrics, StartBatch
    <3> QED BY <3>1, <1>2
  <2>4. CASE EndPhases \/ WriteEnd \/ Leave
    BY <2>4, <1>2 DEF EndPhases, WriteEnd, Leave, enrichment
  <2> QED BY <1>3, <2>1, <2>2, <2>3, <2>4 DEF JobStep
<1>4. CASE CoverRequest
  <2>1. CASE \E c \in Album : FillCover(c)
    BY <2>1, <1>2 DEF FillCover
  <2>2. CASE CommitFill
    <3>1. CASE UNCHANGED row
      BY <3>1, <1>2
    <3>2. CASE row' = [row EXCEPT !.cov[fill.album] = fill.has]
      <4>1. row'.lyr = row.lyr
        BY <1>1, <3>2 DEF Rows
      <4> QED BY <4>1, StatusKept
    <3> QED BY <2>2, <3>1, <3>2 DEF CommitFill
  <2> QED BY <1>4, <2>1, <2>2 DEF CoverRequest
<1>5. CASE RetryDaysPass
  BY <1>1, <1>5, CoolDownSays, StatusKept DEF RetryDaysPass
<1>6. CASE Raise \/ Exit \/ Crash \/ CliInterrupt
  BY <1>2, <1>6 DEF Raise, Exit, Crash, CliInterrupt, Gone, RaiseBatch, EndAll, Rollback
<1>7. CASE HttpStart \/ HttpStartFails \/ HandleStart \/ BootScan
  BY <1>2, <1>7 DEF HttpStart, HttpStartFails, HandleStart, BootScan, Launch, LaunchFails,
     enrichment
<1>8. CASE HttpCancel \/ CliCancel \/ CommitCancel \/ Stop
  BY <1>2, <1>8 DEF HttpCancel, CliCancel, CommitCancel, Stop, RequestCancel, enrichment
<1>9. CASE CliHealth \/ CliAsk \/ CliAnswered \/ CliGivesUp \/ CliPoll
  BY <1>2, <1>9 DEF CliHealth, CliAsk, CliAnswered, CliGivesUp, CliPoll, Still, enrichment
<1>10. CASE Serve \/ CliLock \/ CliReturn \/ ProbeLock \/ ProbeMigrates
  BY <1>2, <1>10 DEF Serve, CliLock, CliReturn, ProbeLock, ProbeMigrates, enrichment
<1>11. CASE UNCHANGED vars
  BY <1>2, <1>11 DEF vars, enrichment
<1> QED
  BY <1>3, <1>4, <1>5, <1>6, <1>7, <1>8, <1>9, <1>10, <1>11 DEF Next, CliStep, CliGoesOn

\* Where lyrics may be asked from the network, no step loses good ones but for
\* LRCLIB's word that a retagged track has none (lyrics/fetch.py).
THEOREM LyricsKept == LyricsFetch /\ Spec => GoodLyricsKept
PROOF
<1>1. LyricsFetch /\ IInv /\ [Next]_vars => [LyricsKeptByStep]_row
  BY StepKeepsLyrics
<1>2. GoodLyricsKept <=> [][LyricsKeptByStep]_row
  BY DEF GoodLyricsKept, LyricsKeptByStep
<1>3. CASE LyricsFetch
  BY <1>1, <1>2, <1>3, Inductive, PTL DEF Spec
<1>4. CASE ~LyricsFetch
  BY <1>4
<1> QED BY <1>3, <1>4

=============================================================================
