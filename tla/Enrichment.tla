------------------------------ MODULE Enrichment ------------------------------
(***************************************************************************)
(* The enrichment phases of a library job: covers of albums                *)
(* (scan/covers.py, cover.py), portraits of artists                        *)
(* (scan/artist_images.py, artist_images/fetch.py) and lyrics of tracks    *)
(* (scan/lyrics.py, lyrics/fetch.py), the last two driven by               *)
(* iter_enrichment; and the cover that a request fills in (routes/media).  *)
(*                                                                         *)
(* One session serves a whole batch: what it changes in the rows is seen   *)
(* by others, and survives a crash, from its next commit on; a picture     *)
(* is on disk at once.  The job may be canceled, raise or die with its     *)
(* process between any two steps.                                          *)
(***************************************************************************)
EXTENDS Naturals, FiniteSets

CONSTANTS
    Album,         \* albums, which keep their ids
    Artist,        \* artists with albums, Various Artists apart
    Track,         \* tracks that are present
    Providers,     \* how many remote providers of portraits there are
    CommitEvery,   \* commit_every of iter_enrichment
    LyricsFetch,   \* LYRICS_FETCH: lyrics may be asked from the network
    Nothing

ASSUME EnrichmentAssumption ==
    /\ IsFiniteSet(Album) /\ IsFiniteSet(Artist) /\ IsFiniteSet(Track)
    /\ Providers \in Nat /\ CommitEvery \in Nat \ {0}
    /\ LyricsFetch \in BOOLEAN
    /\ Artist \cap Track = {} /\ Album \cap (Artist \cup Track) = {}
    /\ Nothing \notin Album \cup Artist \cup Track

VARIABLES
    disk,     \* artists and albums with a full and a thumb under covers/
    row,      \* the committed rows: [cov |-> .., art |-> .., lyr |-> ..]
    session,  \* the rows as the session of the batch sees them
    batch,    \* the batch that runs
    fill,     \* what a request that looked for a cover is about to commit
    torn      \* ghost: those whose file and row a rollback, a crash or a late commit parted

enrichment == <<disk, row, session, batch, fill, torn>>

\* An artist's has_image, and whether a miss was stamped and still cools down.
Portrait == [has : BOOLEAN, cool : BOOLEAN]
\* "lrc": taken from the sidecar; "ok": from the tags, or LRCLIB had lyrics or
\* knew the track for an instrumental.
Lyrics == [status : {"none", "ok", "lrc", "not_found", "error", "skipped"},
           match : BOOLEAN,      \* match_fingerprint is that of the tags now
           cool : BOOLEAN]
\* cov: the has_cover of an album.
Rows == [cov : [Album -> BOOLEAN], art : [Artist -> Portrait], lyr : [Track -> Lyrics]]
Good == {"ok", "lrc"}

Unfetched == [cov |-> [c \in Album |-> FALSE],
              art |-> [a \in Artist |-> [has |-> FALSE, cool |-> FALSE]],
              lyr |-> [t \in Track |-> [status |-> "none", match |-> TRUE, cool |-> FALSE]]]

Item == Album \cup Artist \cup Track

\* stage: the item is opened, looked for along the path of its audio, asked for (a
\* picture in or beside the audio, the next of the providers, or LRCLIB), missed by
\* all of them, counted.
NoBatch == [kind |-> "none", force |-> FALSE, todo |-> {}, done |-> 0, total |-> 0,
            item |-> Nothing, stage |-> "open", next |-> 1, asked |-> FALSE]
Batch == [kind : {"none", "covers", "artist_images", "lyrics"}, force : BOOLEAN,
          todo : SUBSET Item, done : Nat, total : Nat, item : Item \cup {Nothing},
          stage : {"open", "walk", "ask", "miss", "settle"},
          next : 1..Providers + 1, asked : BOOLEAN]

\* A request of an album, and the has_cover it commits.
NoFill == [album |-> Nothing, has |-> FALSE]
Fill == {NoFill} \cup [album : Album, has : BOOLEAN]

EnrichmentTypeOK ==
    /\ disk \subseteq Album \cup Artist /\ torn \subseteq Album \cup Artist
    /\ row \in Rows /\ session \in Rows
    /\ batch \in Batch
    /\ fill \in Fill

EnrichmentInit ==
    /\ disk = {} /\ torn = {}
    /\ row = Unfetched /\ session = Unfetched
    /\ batch = NoBatch /\ fill = NoFill

(***************************************************************************)
(* Who is fetched.                                                         *)
(***************************************************************************)
NeedsPortrait(a, force) ==
    LET r == session.art[a] IN
    \/ force
    \/ r.has /\ a \notin disk
    \/ ~r.has /\ ~r.cool

\* An album that has its cover is left alone.
NeedsCover(c, force) == force \/ ~session.cov[c] \/ c \notin disk

\* sidecar: whether an .lrc lies beside the file when it is looked for.
NeedsLyrics(t, force, sidecar) ==
    LET r == session.lyr[t] IN
    \/ r.status = "none" \/ ~r.match \/ sidecar
    \/ r.status = "skipped" /\ (LyricsFetch \/ force)
    \/ r.status \in {"not_found", "error"} /\ (force \/ (LyricsFetch /\ ~r.cool))

\* The candidates: no good row, stale tags, or a sidecar that is not stored yet.
TodoLyrics(sidecars) ==
    {t \in Track : \/ row.lyr[t].status \notin Good
                   \/ ~row.lyr[t].match
                   \/ row.lyr[t].status # "lrc" /\ t \in sidecars}

StartBatch(kind, todo, force) ==
    /\ batch' = [NoBatch EXCEPT !.kind = kind, !.force = force, !.todo = todo,
                                !.total = Cardinality(todo)]
    /\ UNCHANGED <<disk, row, session, fill, torn>>

\* Of a scan: the albums the index came by; of regen-covers: those with a
\* present track.
StartCovers(force) == \E queue \in SUBSET Album : StartBatch("covers", queue, force)

StartPortraits(force) ==
    StartBatch("artist_images", {a \in Artist : NeedsPortrait(a, force)}, force)

StartLyrics(force) ==
    \E sidecars \in SUBSET Track : StartBatch("lyrics", TodoLyrics(sidecars), force)

(***************************************************************************)
(* iter_enrichment and extract_covers: the next id, the count, the commits. *)
(***************************************************************************)
Skip(i) == batch' = [batch EXCEPT !.todo = @ \ {i}, !.done = @ + 1]
Open(i) == batch' = [batch EXCEPT !.item = i, !.stage = "open"]
At(stage) == batch' = [batch EXCEPT !.stage = stage]

NextItem(canceled) ==
    /\ batch.kind # "none" /\ batch.item = Nothing /\ ~canceled
    /\ \E i \in batch.todo :
           LET Needed ==
                   CASE batch.kind = "covers" -> {NeedsCover(i, batch.force)}
                     [] batch.kind = "artist_images" -> {NeedsPortrait(i, batch.force)}
                     [] batch.kind = "lyrics" ->
                            {NeedsLyrics(i, batch.force, s) : s \in BOOLEAN}
           IN  \E needed \in Needed : IF needed THEN Open(i) ELSE Skip(i)
    /\ UNCHANGED <<disk, row, session, fill, torn>>

\* Covers are committed once, at the end.
CommitDue ==
    /\ batch.kind # "covers"
    /\ (batch.done + 1) % CommitEvery = 0 \/ batch.done + 1 = batch.total

Settle ==
    /\ batch.item # Nothing /\ batch.stage = "settle"
    /\ batch' = [batch EXCEPT !.todo = @ \ {batch.item}, !.done = @ + 1,
                              !.item = Nothing, !.stage = "open", !.next = 1,
                              !.asked = FALSE]
    /\ row' = IF CommitDue THEN session ELSE row
    /\ UNCHANGED <<disk, session, fill, torn>>

\* The loop ends, or a cancel breaks it: what was done is committed.
FinishBatch(canceled) ==
    /\ batch.kind # "none" /\ batch.item = Nothing
    /\ batch.todo = {} \/ canceled
    /\ row' = session
    /\ batch' = NoBatch
    /\ UNCHANGED <<disk, session, fill, torn>>

\* The session's changes are gone, and what the requests that end were about to
\* commit.
Rollback(requests) ==
    /\ session' = row
    /\ batch' = NoBatch
    /\ torn' = torn \cup {a \in Artist : session.art[a].has # row.art[a].has}
                    \cup {c \in Album : session.cov[c] # row.cov[c]}
                    \cup requests
    /\ UNCHANGED <<disk, row>>

\* An exception in the batch; the end of the process.
RaiseBatch == Rollback({}) /\ UNCHANGED fill
EndAll == Rollback({fill.album} \ {Nothing}) /\ fill' = NoFill

(***************************************************************************)
(* CoverStore.ensure_album_cover, of the batch and of a request.           *)
(***************************************************************************)
SetCover(c, has) == session' = [session EXCEPT !.cov[c] = has]
Concluded(x) == torn' = torn \ {x}
Fetching(kind) == batch.kind = kind /\ batch.item # Nothing

\* Art in the audio, or beside it: nothing, an image, or one that cannot be
\* decoded or stored.
CoverSource == {"nothing", "image", "undecodable"}

\* Files that are there already are taken for the cover, unless forced.
OpenCover ==
    /\ Fetching("covers") /\ batch.stage = "open"
    /\ LET c == batch.item IN
       IF ~batch.force /\ c \in disk
       THEN SetCover(c, TRUE) /\ Concluded(c) /\ At("settle")
       ELSE At("ask") /\ UNCHANGED <<session, torn>>
    /\ UNCHANGED <<disk, row, fill>>

\* Without one a forced extraction deletes the files that were there; files that a
\* request has put there meanwhile stay, and the row says there are none.
AskCover ==
    /\ Fetching("covers") /\ batch.stage = "ask"
    /\ \E source \in CoverSource :
           LET c == batch.item IN
           /\ disk' = CASE source = "image" -> disk \cup {c}
                        [] source # "image" /\ batch.force -> disk \ {c}
                        [] source # "image" /\ ~batch.force -> disk
           /\ SetCover(c, source = "image") /\ At("settle")
           /\ IF c \in disk /\ ~batch.force /\ source # "image"
              THEN torn' = torn \cup {c}
              ELSE Concluded(c)
    /\ UNCHANGED <<row, fill>>

\* GET /api/cover of an album without files looks for them beside the audio, and
\* is about to commit has_cover if the row says otherwise.  A batch that is about
\* to commit otherwise is not seen.
FillCover(c) ==
    /\ fill = NoFill /\ c \notin disk
    /\ \E has \in BOOLEAN :
           /\ disk' = IF has THEN disk \cup {c} ELSE disk
           /\ fill' = IF has = row.cov[c] THEN NoFill ELSE [album |-> c, has |-> has]
           /\ torn' = IF has = row.cov[c] /\ has # session.cov[c] THEN torn \cup {c}
                                                                ELSE torn
    /\ UNCHANGED <<row, session, batch>>

\* The request's session commits what it read.  The batch sees it unless it has
\* changed the row itself; the files may be gone by now, or there.  Or it cannot
\* commit, and the files it wrote stay.
CommitFill ==
    /\ fill # NoFill
    /\ fill' = NoFill
    /\ LET c == fill.album IN
       \/ /\ row' = [row EXCEPT !.cov[c] = fill.has]
          /\ session' = IF session.cov[c] = row.cov[c]
                        THEN [session EXCEPT !.cov[c] = fill.has] ELSE session
          /\ torn' = IF fill.has = (c \in disk) THEN torn ELSE torn \cup {c}
       \/ torn' = torn \cup {c} /\ UNCHANGED <<row, session>>
    /\ UNCHANGED <<disk, batch>>

(***************************************************************************)
(* ArtistImageFetcher.fetch_one.                                           *)
(***************************************************************************)
SetPortrait(a, has, cool) == session' = [session EXCEPT !.art[a] = [has |-> has, cool |-> cool]]
Write(a) == disk' = disk \cup {a} /\ SetPortrait(a, TRUE, FALSE)

\* Mutant: the file is deleted and the row still says has_image.
ForgetFile(a) == disk' = disk \ {a} /\ UNCHANGED session

\* force deletes the stored portrait and clears the row before anything is asked.
Forget(a) ==
    IF a \in disk
    THEN disk' = disk \ {a} /\ SetPortrait(a, FALSE, FALSE)
    ELSE UNCHANGED <<disk, session>>

\* A stored portrait is left alone, unless forced.
OpenPortrait(canceled) ==
    /\ Fetching("artist_images") /\ batch.stage = "open"
    /\ LET a == batch.item IN
       \/ /\ canceled /\ At("settle")
          /\ UNCHANGED <<disk, session, torn>>
       \/ /\ ~canceled /\ ~batch.force /\ a \in disk
          /\ SetPortrait(a, TRUE, FALSE) /\ Concluded(a) /\ At("settle")
          /\ UNCHANGED disk
       \/ /\ ~canceled /\ (batch.force \/ a \notin disk)
          /\ Forget(a) /\ UNCHANGED torn
          /\ At("walk")
    /\ UNCHANGED <<row, fill>>

\* The walk from the audio up to the root of the library: a file there wins; one
\* that cannot be encoded is a miss.
WalkToRoot(canceled) ==
    /\ Fetching("artist_images") /\ batch.stage = "walk"
    /\ LET a == batch.item IN
       \/ Write(a) /\ Concluded(a) /\ At("settle")
       \/ SetPortrait(a, FALSE, TRUE) /\ Concluded(a) /\ At("settle") /\ UNCHANGED disk
       \/ /\ At(IF canceled THEN "settle" ELSE IF Providers = 0 THEN "miss" ELSE "ask")
          /\ UNCHANGED <<disk, session, torn>>
    /\ UNCHANGED <<row, fill>>

Further(asked) ==
    batch' = [batch EXCEPT !.next = @ + 1, !.asked = @ \/ asked,
                           !.stage = IF batch.next = Providers THEN "miss" ELSE "ask"]

\* The next provider cannot be asked, has an image, has one that cannot be
\* encoded (a miss, stamped at once), or has none that can be had.
Unavailable == Further(FALSE) /\ UNCHANGED <<disk, session, torn>>
Found(a) == Write(a) /\ Concluded(a) /\ At("settle")
Unencodable(a) == Further(TRUE) /\ SetPortrait(a, FALSE, TRUE) /\ UNCHANGED <<disk, torn>>
Without == Further(TRUE) /\ UNCHANGED <<disk, session, torn>>

AskProvider(canceled) ==
    /\ Fetching("artist_images") /\ batch.stage = "ask"
    /\ \/ /\ canceled /\ At("settle")
          /\ UNCHANGED <<disk, session, torn>>
       \/ /\ ~canceled
          /\ Unavailable \/ Found(batch.item) \/ Unencodable(batch.item) \/ Without
    /\ UNCHANGED <<row, fill>>

\* No provider had one.  With no provider configured nothing is stamped.
MissPortrait ==
    /\ Fetching("artist_images") /\ batch.stage = "miss"
    /\ \E configured \in {batch.asked, TRUE} :
           SetPortrait(batch.item, FALSE, configured)
    /\ Concluded(batch.item) /\ At("settle")
    /\ UNCHANGED <<disk, row, fill>>

(***************************************************************************)
(* LyricsFetcher.fetch_one.                                                *)
(***************************************************************************)
PersistLyrics(t, status) ==
    session' = [session EXCEPT !.lyr[t] =
                   [status |-> status, match |-> TRUE, cool |-> status \in {"not_found", "error"}]]

\* What is read beside the audio or in its tags, and what LRCLIB answers.
LocalLyrics == {"lrc", "ok"}
LrclibAnswer == {"ok", "not_found", "error"}

OpenLyrics(canceled) ==
    /\ Fetching("lyrics") /\ batch.stage = "open"
    /\ LET t == batch.item
           r == session.lyr[t]
           stable == r.status \in Good /\ r.match
       IN
       \/ /\ canceled \/ stable
          /\ At("settle") /\ UNCHANGED session
       \/ /\ ~canceled
          /\ \E local \in LocalLyrics : PersistLyrics(t, local)
          /\ At("settle")
       \/ /\ ~canceled /\ ~stable
          /\ IF LyricsFetch
             THEN At("ask") /\ UNCHANGED session
             ELSE At("settle") /\ PersistLyrics(t, "skipped")
    /\ UNCHANGED <<disk, row, fill, torn>>

\* Mutant: an error is stored over whatever the row held.
AskLyricsAlways ==
    /\ Fetching("lyrics") /\ batch.stage = "ask"
    /\ \E answer \in LrclibAnswer : PersistLyrics(batch.item, answer)
    /\ At("settle")
    /\ UNCHANGED <<disk, row, fill, torn>>

\* The answer of LRCLIB; an error leaves a good row as it is.
AskLyrics ==
    /\ Fetching("lyrics") /\ batch.stage = "ask"
    /\ \E answer \in LrclibAnswer :
           IF answer = "error" /\ session.lyr[batch.item].status \in Good
           THEN UNCHANGED session
           ELSE PersistLyrics(batch.item, answer)
    /\ At("settle")
    /\ UNCHANGED <<disk, row, fill, torn>>

EnrichmentStep(canceled) ==
    \/ NextItem(canceled) \/ Settle
    \/ OpenCover \/ AskCover
    \/ OpenPortrait(canceled) \/ WalkToRoot(canceled)
    \/ AskProvider(canceled) \/ MissPortrait
    \/ OpenLyrics(canceled) \/ AskLyrics

(***************************************************************************)
(* What else touches the rows.                                             *)
(***************************************************************************)
\* The retry days of the misses pass.
CoolDownEnds ==
    /\ batch.kind = "none"
    /\ row' = [row EXCEPT !.art = [a \in Artist |-> [@[a] EXCEPT !.cool = FALSE]],
                          !.lyr = [t \in Track |-> [@[t] EXCEPT !.cool = FALSE]]]
    /\ row' # row
    /\ session' = row'
    /\ UNCHANGED <<disk, batch, fill, torn>>

\* A scan reads tags that changed: the fingerprint stored with the lyrics is stale.
Retag(tracks) ==
    /\ row' = [row EXCEPT !.lyr = [t \in Track |->
                  IF t \in tracks /\ @[t].status # "none" THEN [@[t] EXCEPT !.match = FALSE]
                                                          ELSE @[t]]]
    /\ session' = row'
    /\ UNCHANGED <<disk, batch, fill, torn>>

-----------------------------------------------------------------------------
\* What a fetch has concluded is true of the disk too: an artist's row says
\* has_image, and an album's has_cover, exactly when the files are there, through
\* forced deletes, cancels and providers that fail, unless a rollback, a crash or
\* the late or failed commit of a request came between the file and the row
\* (artist_images/fetch.py, cover.py, routes/media.py).
ArtMatchesDisk ==
    /\ \A a \in Artist \ torn : session.art[a].has <=> a \in disk
    /\ \A c \in Album \ (torn \cup {fill.album}) : session.cov[c] <=> c \in disk

\* Good lyrics are only ever replaced by good ones or by LRCLIB's word that a
\* retagged track has none: no network error, cancel, rollback or crash loses
\* them ("Do not clobber a previous good row when the network fails").
GoodLyricsKept ==
    [][\A t \in Track :
           row.lyr[t].status \in Good =>
               \/ row'.lyr[t].status \in Good
               \/ row'.lyr[t].status = "not_found" /\ ~row.lyr[t].match]_row

-----------------------------------------------------------------------------
(* What these rest on.                                                     *)

Pool == CASE batch.kind = "covers" -> Album
          [] batch.kind = "artist_images" -> Artist
          [] batch.kind = "lyrics" -> Track
          [] batch.kind = "none" -> {}

\* A batch is about its own pool, its item is not done yet, providers are
\* asked from the first on, and there is one left while one is asked.
BatchControl ==
    /\ batch.todo \subseteq Pool
    /\ batch.item \in batch.todo \cup {Nothing}
    /\ batch.item = Nothing => batch.stage = "open"
    /\ batch.stage \in {"open", "walk"} => batch.next = 1
    /\ batch.stage = "ask" /\ batch.kind = "artist_images" => batch.next <= Providers

\* A session without a batch has seen every commit; while providers are asked
\* for a portrait, or it is looked for, there is none on disk.
SessionControl ==
    /\ batch.kind = "none" => session = row
    /\ batch.kind = "artist_images" /\ batch.stage \in {"walk", "ask", "miss"} =>
           batch.item \notin disk

\* What the session holds about lyrics that are not settled yet is what is
\* committed, and what it would commit loses no good lyrics.
LyricsControl ==
    /\ batch.kind # "lyrics" => session.lyr = row.lyr
    /\ \A t \in batch.todo \cap Track :
           ~(batch.item = t /\ batch.stage = "settle") => session.lyr[t] = row.lyr[t]
    /\ batch.kind = "lyrics" /\ batch.stage = "ask" =>
           LET r == session.lyr[batch.item] IN ~(r.status \in Good /\ r.match)
    /\ \A t \in Track :
           row.lyr[t].status \in Good =>
               \/ session.lyr[t].status \in Good
               \/ session.lyr[t].status = "not_found" /\ ~row.lyr[t].match

\* While a request is about to commit, what the batch would commit otherwise about
\* the same album is true of the disk.
FillControl ==
    \A c \in Album \ torn :
        fill.album = c /\ session.cov[c] # row.cov[c] => (session.cov[c] <=> c \in disk)

EnrichmentInv ==
    /\ EnrichmentTypeOK
    /\ BatchControl /\ SessionControl /\ ArtMatchesDisk /\ FillControl
    /\ LyricsFetch => LyricsControl
=============================================================================
