----------------------------- MODULE LibraryIndex -----------------------------
(***************************************************************************)
(* The index phase of a library scan (scan/index_phase.py, batch.py,       *)
(* siblings.py, identity.py, finalize.py) against a disk that changes      *)
(* meanwhile, the confirmation of a CD (cd/identify.py), which leaves      *)
(* unripped stubs for a later rip, and the playlists, which hold track ids *)
(* by foreign key.                                                         *)
(*                                                                         *)
(* A file is its content (the fingerprint) and its tags, of which only the *)
(* place on an album is kept; two files of equal size and mtime are equal. *)
(* A batch is one transaction: its writes are in view until it commits.    *)
(***************************************************************************)
EXTENDS Integers, Sequences, FiniteSets, SequencesExt

CONSTANTS
    Path,        \* relative paths
    Dir,         \* the folder of each path
    Content,     \* fingerprints; a file's track id is made from it
    Lossy,       \* the contents that are MP3 or AAC
    Slot,        \* places on the album that the CD identifies
    Elsewhere,   \* a place on another album
    BatchSize,   \* DEFAULT_BATCH_SIZE
    None,
    MaxScans, MaxChanges,   \* bounds on the scans and the changes of the disk
    MaxEvents    \* bound on confirmed discs, playlists, cancels and failures

ASSUME LibraryIndexAssumption ==
    /\ DOMAIN Dir = Path
    /\ Lossy \subseteq Content
    /\ Content \cap Slot = {}
    /\ Elsewhere \notin Slot
    /\ BatchSize \in Nat \ {0}
    /\ {MaxScans, MaxChanges, MaxEvents} \subseteq Nat
    /\ None \notin Path

VARIABLES
    disk,      \* the library: path -> file or None
    rows,      \* the tracks table as committed: id -> row or None
    refs,      \* the track ids held by playlists
    disc,      \* the rows a confirmation of the CD has read and is to write, by
               \* place; None: none is under way
    pc,        \* the scan: "idle", "walk", "batch" or "finalize"
    mode,      \* "quick" or "full"
    cancel,    \* the cancel event of the runner
    todo,      \* folders not listed yet
    listed,    \* paths of the listed folder not visited yet
    batch,     \* paths walked and not flushed
    work,      \* paths of the batch not processed yet
    cur,       \* the file between its stat and its fingerprint
    txn,       \* the rows as the open transaction sees them; None: no write yet
    metas,     \* meta_by_path of the batch
    slots,     \* slot_cache of the batch
    skipped,   \* skipped_rels of the batch
    seen,      \* seen_paths
    result,    \* how the last scan ended, until the next one begins;
               \* "refused" is a failure by foreign key
    past,      \* what the properties remember of the scan
    used       \* the bounded events so far

scan == <<mode, todo, listed, batch, work, cur, txn, metas, slots, skipped, seen>>
vars == <<disk, rows, refs, disc, pc, cancel, scan, result, past, used>>

File == [fp : Content, slot : Slot \cup {Elsewhere}]

\* The stub of a place has the id and the fingerprint of the place.
Id == Content \cup Slot
Row == [fp : Id, slot : Slot \cup {Elsewhere}, stat : File \cup {None},
        path : Path \cup {None}, unripped : BOOLEAN]

ASSUME NoneAssumption ==
    None \notin File /\ None \notin Row /\ None \notin [Id -> Row \cup {None}]

TypeOK ==
    /\ disk \in [Path -> File \cup {None}]
    /\ rows \in [Id -> Row \cup {None}]
    /\ refs \subseteq Id
    /\ disc # None => /\ DOMAIN disc \subseteq Slot
                      /\ \A s \in DOMAIN disc : disc[s] \in Row \cup {None}
    /\ pc \in {"idle", "walk", "batch", "finalize"}
    /\ mode \in {"quick", "full"}
    /\ cancel \in BOOLEAN
    /\ todo \subseteq {Dir[p] : p \in Path}
    /\ listed \subseteq Path /\ seen \subseteq Path /\ skipped \subseteq Path
    /\ batch \in Seq(Path) /\ Len(batch) <= BatchSize
    /\ work \in Seq(Path)
    /\ cur \in [path : Path, stat : File, meta : File] \cup {None}
    /\ txn \in [Id -> Row \cup {None}] \cup {None}
    /\ metas \in [Path -> File \cup {None}]
    /\ DOMAIN slots \subseteq {Dir[p] : p \in Path}
    /\ result \in {"none", "done", "canceled", "failed", "refused"}
    /\ past \in [quiet : BOOLEAN, exact : BOOLEAN, fresh : BOOLEAN,
                 steady : SUBSET (Content \X Path)]
    /\ used \in [scans : 0..MaxScans, changes : 0..MaxChanges, events : 0..MaxEvents]

\* is_missing is kept as the absence of a path.
Present(r) == r # None /\ r.path # None

View == IF txn = None THEN rows ELSE txn

-----------------------------------------------------------------------------
(* What becomes of the table.                                              *)

\* Mutant: the row that held the path is left on it.
FreedNothing(t, p, c) == t

\* resolve_track: the row of the content takes the path, or a new row does;
\* a row of other content that held the path is hidden.
Freed(t, p, c) ==
    [i \in Id |-> IF Present(t[i]) /\ t[i].path = p /\ t[i].fp # c
                  THEN [t[i] EXCEPT !.path = None] ELSE t[i]]

Owner(t, c) == IF \E i \in Id : t[i] # None /\ t[i].fp = c
               THEN CHOOSE i \in Id : t[i] # None /\ t[i].fp = c ELSE c

Entry(c, f, meta, p, unripped) ==
    [fp |-> c, slot |-> meta.slot, stat |-> f, path |-> p, unripped |-> unripped]

\* resolve_track and apply_track_fields up to its flush.
Applied(t, c, e) ==
    LET i == Owner(t, c)
        keep == IF t[i] = None THEN FALSE ELSE t[i].unripped
    IN [Freed(t, e.path, c) EXCEPT ![i] = Entry(c, e.stat, e.meta, e.path, keep)]

\* _merge_unripped_hole: the stub that takes over the row i, if its place is
\* a hole.
Hole(t, i) ==
    {s \in Slot \ {i} :
        /\ t[s] # None /\ t[s].unripped
        /\ t[s].slot = t[i].slot
        /\ ~\E j \in Id \ {i} : Present(t[j]) /\ ~t[j].unripped /\ t[j].slot = t[i].slot}

\* Mutant: the stub goes and the new row stays.
MergedAway(t, i, s) == [t EXCEPT ![s] = None, ![i] = [@ EXCEPT !.unripped = FALSE]]

MergedInto(t, i, s) == [t EXCEPT ![s] = [t[i] EXCEPT !.unripped = FALSE], ![i] = None]

\* mark_missing
Hidden(t, paths) ==
    [i \in Id |-> IF Present(t[i]) /\ t[i].path \notin paths
                  THEN [t[i] EXCEPT !.path = None] ELSE t[i]]

-----------------------------------------------------------------------------
(* The scan.                                                               *)

NoBatch ==
    /\ work' = <<>> /\ cur' = None /\ txn' = None /\ skipped' = {}
    /\ metas' = [p \in Path |-> None] /\ slots' = <<>>

Init ==
    /\ disk \in [Path -> File \cup {None}]
    /\ rows = [i \in Id |-> None]
    /\ refs = {}
    /\ disc = None
    /\ pc = "idle" /\ mode = "quick" /\ cancel = FALSE
    /\ todo = {} /\ listed = {} /\ batch = <<>> /\ seen = {}
    /\ work = <<>> /\ cur = None /\ txn = None /\ skipped = {}
    /\ metas = [p \in Path |-> None] /\ slots = <<>>
    /\ result = "none"
    /\ past = [quiet |-> TRUE, exact |-> TRUE, fresh |-> FALSE, steady |-> {}]
    /\ used = [scans |-> 0, changes |-> 0, events |-> 0]

Exact(t) == \A i \in Id : Present(t[i]) => t[i].stat = [fp |-> t[i].fp, slot |-> t[i].slot]

Steady ==
    {x \in (Content \ Lossy) \X Path :
        /\ disk[x[2]] # None /\ disk[x[2]].fp = x[1]
        /\ \E i \in Id : rows[i] # None /\ rows[i].path = x[2] /\ rows[i].fp = x[1]}

\* run_scan up to the walk.
StartScan ==
    /\ pc = "idle"
    /\ used.scans < MaxScans
    /\ used' = [used EXCEPT !.scans = @ + 1]
    /\ mode' \in {"quick", "full"}
    /\ pc' = "walk"
    /\ cancel' = FALSE /\ result' = "none"
    /\ todo' = {Dir[p] : p \in Path}
    /\ listed' = {} /\ batch' = <<>> /\ seen' = {}
    /\ NoBatch
    /\ past' = [past EXCEPT !.quiet = TRUE, !.exact = mode' = "full" \/ Exact(rows),
                            !.steady = Steady]
    /\ UNCHANGED <<disk, rows, refs, disc>>

\* rglob lists one folder after the other.
ListFolder ==
    /\ pc = "walk" /\ ~cancel
    /\ listed = {} /\ Len(batch) < BatchSize
    /\ \E d \in todo :
           /\ todo' = todo \ {d}
           /\ listed' = {p \in Path : Dir[p] = d /\ disk[p] # None}
    /\ UNCHANGED <<disk, rows, refs, disc, pc, cancel, mode, batch, work, cur, txn, metas,
                   slots, skipped, seen, result, past, used>>

\* iter_indexable_audio: what is still a file joins the batch.
Visit ==
    /\ pc = "walk" /\ ~cancel
    /\ Len(batch) < BatchSize
    /\ \E p \in listed :
           /\ listed' = listed \ {p}
           /\ batch' = IF disk[p] = None THEN batch ELSE Append(batch, p)
    /\ UNCHANGED <<disk, rows, refs, disc, pc, cancel, mode, todo, work, cur, txn, metas,
                   slots, skipped, seen, result, past, used>>

WalkOver == todo = {} /\ listed = {}

\* A full batch, or the rest at the end of the walk, is flushed.  Where the
\* boundaries fall among the few files of an instance is left open.
Flush ==
    /\ pc = "walk" /\ ~cancel
    /\ batch # <<>>
    /\ pc' = "batch"
    /\ work' = batch
    /\ UNCHANGED <<disk, rows, refs, disc, cancel, mode, todo, listed, batch, cur, txn, metas,
                   slots, skipped, seen, result, past, used>>

\* What process_batch knows of a file once it has read its tags, and of the
\* lossless files of its folder if it is lossy.
MetaOf(p) == IF metas[p] = None THEN disk[p] ELSE metas[p]
Read(paths) == [p \in Path |-> IF p \in paths /\ metas[p] = None THEN disk[p] ELSE metas[p]]
InFolder(d) == {p \in Path : Dir[p] = d}
LosslessSlots(d) ==
    {MetaOf(p).slot : p \in {q \in InFolder(d) : /\ disk[q] # None
                                                 /\ MetaOf(q).fp \notin Lossy}}

NextFile == work' = Tail(work) /\ UNCHANGED <<cur, txn>>

\* stat fails: the path stays in the batch and counts as seen.
StatFails ==
    /\ pc = "batch" /\ work # <<>> /\ cur = None /\ ~cancel
    /\ disk[Head(work)] = None
    /\ NextFile
    /\ UNCHANGED <<disk, rows, refs, disc, pc, cancel, mode, todo, listed, batch, metas,
                   slots, skipped, seen, result, past, used>>

\* stat, tags, the test for a lossless sibling and the quick test.
Examine ==
    /\ pc = "batch" /\ work # <<>> /\ cur = None /\ ~cancel
    /\ LET p == Head(work)
           d == Dir[p]
           meta == MetaOf(p)
           lossy == meta.fp \in Lossy
           known == IF d \in DOMAIN slots THEN slots[d] ELSE LosslessSlots(d)
           shadowed == lossy /\ meta.slot \in known
           same == /\ mode = "quick"
                   /\ \E i \in Id : Present(View[i]) /\ View[i].path = p /\ View[i].stat = disk[p]
       IN
       /\ disk[p] # None
       /\ metas' = Read(IF lossy /\ d \notin DOMAIN slots THEN InFolder(d) ELSE {p})
       /\ slots' = IF lossy THEN [e \in DOMAIN slots \cup {d} |->
                                      IF e = d THEN known ELSE slots[e]] ELSE slots
       /\ skipped' = IF shadowed THEN skipped \cup {p} ELSE skipped
       /\ IF shadowed \/ same
          THEN NextFile
          ELSE /\ cur' = [path |-> p, stat |-> disk[p], meta |-> meta]
               /\ UNCHANGED <<work, txn>>
    /\ UNCHANGED <<disk, rows, refs, disc, pc, cancel, mode, todo, listed, batch, seen, result,
                   past, used>>

\* compute_fingerprint fails.
FingerprintFails ==
    /\ cur # None
    /\ disk[cur.path] = None
    /\ cur' = None
    /\ work' = Tail(work)
    /\ UNCHANGED <<disk, rows, refs, disc, pc, cancel, mode, todo, listed, batch, txn, metas,
                   slots, skipped, seen, result, past, used>>

Upserted == Applied(View, disk[cur.path].fp, cur)
UpsertedId == Owner(View, disk[cur.path].fp)

\* The file gets its row, and the row its hole if there is one.
Upsert ==
    /\ cur # None
    /\ disk[cur.path] # None
    /\ LET i == UpsertedId
           holes == Hole(Upserted, i)
       IN \/ holes = {} /\ txn' = Upserted
          \/ \E s \in holes : i \notin refs /\ txn' = MergedInto(Upserted, i, s)
    /\ cur' = None
    /\ work' = Tail(work)
    /\ UNCHANGED <<disk, rows, refs, disc, pc, cancel, mode, todo, listed, batch, metas,
                   slots, skipped, seen, result, past, used>>

EndScan(how) ==
    /\ pc' = "idle"
    /\ result' = how
    /\ mode' = "quick"
    /\ todo' = {} /\ listed' = {} /\ batch' = <<>> /\ seen' = {}
    /\ NoBatch

\* The row that would merge is held by a playlist: the foreign key refuses
\* the delete, the batch is rolled back and the job fails.
MergeRefused ==
    /\ cur # None
    /\ disk[cur.path] # None
    /\ UpsertedId \in refs /\ Hole(Upserted, UpsertedId) # {}
    /\ EndScan("refused")
    /\ UNCHANGED <<disk, rows, refs, disc, cancel, past, used>>

\* Mutant: the files kept out by a lossless sibling count as seen.
CommitBatchSeesAll ==
    /\ pc = "batch" /\ cur = None
    /\ work = <<>> \/ cancel
    /\ rows' = View
    /\ seen' = seen \cup ToSet(batch)
    /\ batch' = <<>>
    /\ NoBatch
    /\ pc' = "walk"
    /\ UNCHANGED <<disk, refs, disc, cancel, mode, todo, listed, result, past, used>>

\* The batch is committed: every path of it that was not skipped counts as
\* seen, those that a cancel left unprocessed included.
CommitBatch ==
    /\ pc = "batch" /\ cur = None
    /\ work = <<>> \/ cancel
    /\ rows' = View
    /\ seen' = seen \cup (ToSet(batch) \ skipped)
    /\ batch' = <<>>
    /\ NoBatch
    /\ pc' = "walk"
    /\ UNCHANGED <<disk, refs, disc, cancel, mode, todo, listed, result, past, used>>

WalkDone ==
    /\ pc = "walk" /\ ~cancel
    /\ WalkOver /\ batch = <<>>
    /\ pc' = "finalize"
    /\ UNCHANGED <<disk, rows, refs, disc, cancel, scan, result, past, used>>

\* Mutant: a canceled scan still hides what it has not seen.
CanceledHides ==
    /\ pc \in {"walk", "finalize"}
    /\ cancel
    /\ rows' = Hidden(rows, seen)
    /\ EndScan("canceled")
    /\ past' = [past EXCEPT !.fresh = FALSE]
    /\ UNCHANGED <<disk, refs, disc, cancel, used>>

\* run_scan returns at the next look at the cancel event.
Canceled ==
    /\ pc \in {"walk", "finalize"}
    /\ cancel
    /\ EndScan("canceled")
    /\ UNCHANGED <<disk, rows, refs, disc, cancel, past, used>>

\* _finalize: what the scan has not seen is hidden.
Finalize ==
    /\ pc = "finalize"
    /\ ~cancel
    /\ rows' = Hidden(rows, seen)
    /\ EndScan("done")
    /\ past' = [past EXCEPT !.fresh = past.quiet /\ past.exact]
    /\ UNCHANGED <<disk, refs, disc, cancel, used>>

\* A commit raises (SQLite busy for five seconds, full disk): the job fails.
ScanRaises ==
    /\ pc \in {"batch", "finalize"}
    /\ used.events < MaxEvents
    /\ used' = [used EXCEPT !.events = @ + 1]
    /\ EndScan("failed")
    /\ UNCHANGED <<disk, rows, refs, disc, cancel, past>>

\* request_cancel, at any moment of the scan.
RequestCancel ==
    /\ pc # "idle" /\ ~cancel
    /\ used.events < MaxEvents
    /\ used' = [used EXCEPT !.events = @ + 1]
    /\ cancel' = TRUE
    /\ UNCHANGED <<disk, rows, refs, disc, pc, scan, result, past>>

-----------------------------------------------------------------------------
(* The others.                                                             *)

\* The library on disk: a file is written, replaced, retagged or deleted, or
\* renamed over another one.
Written == {[disk EXCEPT ![p] = f] : p \in Path, f \in File \cup {None}}
Renamed == {[disk EXCEPT ![p] = None, ![q] = disk[p]] : p, q \in Path}

DiskChanges ==
    /\ used.changes < MaxChanges
    /\ used' = [used EXCEPT !.changes = @ + 1]
    /\ disk' \in (Written \cup Renamed) \ {disk}
    /\ past' = [past EXCEPT !.quiet = FALSE, !.fresh = FALSE,
                            !.steady = {x \in @ : disk'[x[2]] = disk[x[2]]}]
    /\ UNCHANGED <<rows, refs, disc, pc, cancel, scan, result>>

\* The places of the disc without a present row (_present_slot).
Holes == {s \in Slot : ~\E i \in Id : Present(rows[i]) /\ rows[i].slot = s}

\* confirm binds the disc to the present rows and gets a stub for each other
\* place, or for every place if it is a later disc of its release.  It reads
\* first, and its write may have to wait for the transaction of a scan.
ConfirmReads ==
    /\ disc = None
    /\ used.events < MaxEvents
    /\ used' = [used EXCEPT !.events = @ + 1]
    /\ \E places \in {Holes, Slot} \ {{}} : disc' = [s \in places |-> rows[s]]
    /\ UNCHANGED <<disk, rows, refs, pc, cancel, scan, result, past>>

\* The session writes the columns that differ from what it has read.
Column(read, new, now) == IF read = new THEN now ELSE new

\* _upsert_stub and the flush: a row that was present keeps its content.
Stub(s, read, now) ==
    IF read = None
    THEN [fp |-> s, slot |-> s, stat |-> None, path |-> None, unripped |-> TRUE]
    ELSE LET placed == [now EXCEPT !.slot = Column(read.slot, s, @)]
         IN IF Present(read) THEN placed
            ELSE [placed EXCEPT !.fp = Column(read.fp, s, @),
                                !.unripped = Column(read.unripped, TRUE, @)]

\* A row that has come or gone since refuses the flush.
Confirmed ==
    IF \A s \in DOMAIN disc : disc[s] = None <=> rows[s] = None
    THEN [i \in Id |-> IF i \in DOMAIN disc THEN Stub(i, disc[i], rows[i]) ELSE rows[i]]
    ELSE rows

\* The contents whose row becomes a stub, and whether a present row changes.
Unlisted == {rows[i].fp : i \in {j \in Id : rows[j] # None /\ rows'[j].fp # rows[j].fp}}
Disturbs == \E i \in Id : Present(rows[i]) /\ rows'[i] # rows[i]

ConfirmWrites ==
    /\ disc # None
    /\ txn = None
    /\ rows' = Confirmed
    /\ disc' = None
    /\ past' = [past EXCEPT !.quiet = @ /\ ~Disturbs, !.fresh = @ /\ ~Disturbs,
                            !.steady = {x \in @ : x[1] \notin Unlisted}]
    /\ UNCHANGED <<disk, refs, pc, cancel, scan, result, used>>

\* replace_tracks: any ids that have a row.
PutPlaylist ==
    /\ used.events < MaxEvents
    /\ used' = [used EXCEPT !.events = @ + 1]
    /\ txn = None
    /\ refs' \in SUBSET {i \in Id : rows[i] # None}
    /\ UNCHANGED <<disk, rows, disc, pc, cancel, scan, result, past>>

Scan ==
    \/ ListFolder \/ Visit \/ Flush \/ StatFails \/ Examine \/ FingerprintFails
    \/ Upsert \/ MergeRefused \/ CommitBatch \/ WalkDone \/ Canceled \/ Finalize

Next ==
    \/ StartScan \/ Scan \/ ScanRaises \/ RequestCancel
    \/ DiskChanges \/ ConfirmReads \/ ConfirmWrites \/ PutPlaylist

Spec == Init /\ [][Next]_vars

-----------------------------------------------------------------------------
(* Properties.                                                             *)

\* The UNIQUE columns: two rows never have one fingerprint or one path, in
\* the table or in the open transaction, so no flush of a scan is refused for
\* it, however files were moved, swapped and copied.
UniqueColumns ==
    \A i, j \in Id : i # j /\ View[i] # None /\ View[j] # None =>
        /\ View[i].fp # View[j].fp
        /\ View[i].path # View[j].path \/ View[i].path = None

\* The id of a row is made from its content, so a file keeps its id wherever
\* it goes; the rows of a disc's stubs take the content of the rip, and no
\* row that a playlist holds is ever lost.
IdsKept ==
    /\ \A c \in Content : View[c] # None => View[c].fp = c
    /\ \A s \in Slot : View[s] # None => (View[s].unripped <=> View[s].fp = s)
    /\ \A i \in refs : View[i] # None

\* A lossless file that is where its row says, untouched since the scan began,
\* never drops out of the index: not by a cancel, a failure or a copy of it.
StaysListed == \A x \in past.steady : \E i \in Id : Present(rows[i]) /\ rows[i].fp = x[1]

\* A file that a lossless file of its folder and place keeps out.
Shadowed(p) ==
    /\ disk[p].fp \in Lossy
    /\ \E q \in InFolder(Dir[p]) : /\ disk[q] # None
                                   /\ disk[q].fp \notin Lossy
                                   /\ disk[q].slot = disk[p].slot

\* Every present row is a file as it is, and every content that is not kept
\* out has one.
Truth(t) ==
    /\ \A i \in Id : Present(t[i]) =>
           /\ disk[t[i].path] = [fp |-> t[i].fp, slot |-> t[i].slot]
           /\ ~Shadowed(t[i].path)
    /\ \A p \in Path : disk[p] # None /\ ~Shadowed(p) =>
           \E i \in Id : Present(t[i]) /\ t[i].fp = disk[p].fp

\* A scan of a disk that stood still leaves the index exact.  A quick scan
\* trusts size and mtime, so it must start from rows whose tags are those of
\* the file they were taken from.
IndexIsTruth == past.fresh => Truth(rows)

-----------------------------------------------------------------------------
(* What these rest on.                                                     *)

\* A path is met once in a scan: its folder is still to be listed, or it waits
\* in the listing, or it is in the batch, or it has been seen.
WalkControl ==
    /\ \A p \in listed \cup ToSet(batch) \cup seen : Dir[p] \notin todo
    /\ listed \cap (ToSet(batch) \cup seen) = {}
    /\ ToSet(batch) \cap seen = {}
    /\ IsInjective(batch) /\ IsInjective(work)
    /\ ToSet(work) \subseteq ToSet(batch)
    /\ skipped \subseteq ToSet(batch) \ ToSet(work)
    /\ pc = "finalize" => WalkOver /\ batch = <<>>

\* A transaction, its caches and the file in hand belong to a batch.
BatchControl ==
    /\ pc # "batch" => /\ work = <<>> /\ txn = None /\ cur = None /\ skipped = {}
                       /\ \A p \in Path : metas[p] = None
    /\ cur # None => work # <<>> /\ cur.path = Head(work)

\* The columns and the ids of a table that a flush would not refuse.
Unique(t) ==
    \A i, j \in Id : i # j /\ t[i] # None /\ t[j] # None =>
        /\ t[i].fp # t[j].fp
        /\ t[i].path # t[j].path \/ t[i].path = None
Keyed(t, held) ==
    /\ \A c \in Content : t[c] # None => t[c].fp = c
    /\ \A s \in Slot : t[s] # None => (t[s].unripped <=> t[s].fp = s)
    /\ \A s \in Slot : t[s] # None => t[s].fp \in Content \cup {s}
    /\ \A i \in held : t[i] # None
TableControl ==
    /\ Unique(rows) /\ Keyed(rows, refs)
    /\ Unique(View) /\ Keyed(View, refs)

\* What a confirmation has read was a row of the table.
DiscControl ==
    disc # None => \A s \in DOMAIN disc :
                       disc[s] # None => (disc[s].unripped <=> disc[s].fp = s)

\* The row of c is at p, or at a place where the scan has been.
At(t, c, p, been) ==
    \E i \in Id : t[i] # None /\ t[i].fp = c /\ t[i].path # None /\ t[i].path \in {p} \cup been
Processed == {p \in ToSet(batch) \ skipped : pc = "batch" /\ p \notin ToSet(work)}

\* A file that stays where it was is met by the scan, and its row keeps to it
\* or goes to a copy that the scan has met.
SteadyControl ==
    \A x \in past.steady :
        /\ x[1] \notin Lossy
        /\ disk[x[2]] # None /\ disk[x[2]].fp = x[1]
        /\ metas[x[2]] \in {None, disk[x[2]]}
        /\ x[2] \notin skipped
        /\ pc # "idle" =>
               /\ Dir[x[2]] \in todo \/ x[2] \in listed \cup ToSet(batch) \cup seen
               /\ At(rows, x[1], x[2], seen)
               /\ At(View, x[1], x[2], seen \cup Processed)
        /\ pc = "idle" => At(rows, x[1], x[2], Path)

\* While the disk stands still, what a batch has read of it is what it is.
ReadControl ==
    past.quiet /\ pc # "idle" =>
        /\ \A p \in listed \cup ToSet(batch) \cup seen : disk[p] # None
        /\ \A p \in Path : metas[p] \in {None, disk[p]}
        /\ \A d \in DOMAIN slots :
               slots[d] = {disk[p].slot : p \in {q \in InFolder(d) : /\ disk[q] # None
                                                                     /\ disk[q].fp \notin Lossy}}
        /\ cur # None => /\ cur.stat = disk[cur.path] /\ cur.meta = disk[cur.path]
                         /\ ~Shadowed(cur.path)
        /\ \A p \in skipped : Shadowed(p)
        /\ \A p \in Path : disk[p] # None =>
               \/ Dir[p] \in todo \/ p \in listed \cup ToSet(batch) \cup seen
               \/ Shadowed(p)

\* Then what the scan has met is listed, and nothing else stands in its place.
Met(t, been) == \A p \in been : ~Shadowed(p) /\ At(t, disk[p].fp, p, been)
Placed(t, been) ==
    \A i \in Id : Present(t[i]) /\ t[i].path \in been =>
        disk[t[i].path] = [fp |-> t[i].fp, slot |-> t[i].slot]
MetControl ==
    past.quiet /\ pc # "idle" =>
        /\ past.exact /\ ~cancel =>
               /\ Met(rows, seen) /\ Met(View, seen \cup Processed)
               /\ Placed(rows, seen) /\ Placed(View, seen \cup Processed)
        /\ past.exact /\ mode = "quick" => Exact(rows) /\ Exact(View)
        /\ past.fresh => Truth(View)
FreshControl == past.fresh => past.quiet /\ Truth(rows)

IInv ==
    /\ TypeOK /\ WalkControl /\ BatchControl /\ TableControl /\ DiscControl
    /\ SteadyControl /\ ReadControl /\ MetControl /\ FreshControl

-----------------------------------------------------------------------------
(* What the documentation says and the code does not do.                   *)

\* resolve_track: "Same fingerprint -> reattach / keep id (playlist-stable)":
\* taking up a file whose row a playlist holds keeps the row's id, so the
\* foreign key of the playlists never refuses what a scan writes.
PlaylistStable == result # "refused"
=============================================================================
