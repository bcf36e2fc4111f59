------------------------------ MODULE RadioStation ------------------------------
(***************************************************************************)
(* The household radio clock (radio/station.py): the lifespan worker that  *)
(* catches up and then ticks, the debug commands of the control socket,    *)
(* the rows in library.db, and restarts.                                   *)
(*                                                                         *)
(* The station is one record st behind one lock.  A tick or a command      *)
(* holds the lock from its first read to the stashed snapshot, so it is    *)
(* one action; the catch-up holds it over as many tracks as have passed,   *)
(* each track one action, with the lock taken in between.  Every operation *)
(* is written as the set of stations it may leave, because the picker      *)
(* draws.  Batches are numbered as in the code, positions from 1.          *)
(***************************************************************************)
EXTENDS RadioPick

CONSTANTS
    Duration,    \* duration_ms of each track
    None,
    MaxTime,     \* bound on the wall clock
    MaxSeq,      \* bound on the batch numbers
    MaxCommands, \* bound on the debug commands
    MaxScans,    \* bound on completed scans
    MaxChanges,  \* bound on the changes to files
    MaxStops,    \* bound on stops and crashes of the process
    MaxFaults    \* bound on commits that fail

ASSUME RadioStationAssumption ==
    /\ Duration \in [Track -> Nat]
    /\ None \notin Track /\ None \notin Nat
    /\ MaxTime \in Nat /\ MaxSeq \in Nat /\ MaxScans \in Nat

VARIABLES
    st,       \* the station's fields
    disk,     \* the rows of library.db
    snap,     \* _snapshot
    live,     \* ~_catching_up
    worker,   \* run_radio_worker
    catchup,  \* the catch-up's now, and whether it has anything to write
    loop,     \* the event loop: free, or inside now_playing() on the lock
    file,     \* what the probe would say of each track, and whether it is there
    scan,     \* last_scan_finished_at
    now,      \* the wall clock
    faults, count

vars == <<st, disk, snap, live, worker, catchup, loop, file, scan, now, faults, count>>

Fresh == [cur |-> None, started |-> None, seq |-> None, index |-> 1, batches |-> <<>>,
          banlist |-> <<>>, next |-> 1, skip |-> {}, catalog |-> {}, mark |-> None]
NoRows == [cur |-> None, started |-> None, seq |-> None, batches |-> <<>>, banlist |-> <<>>]
CatchingUp == [face |-> "catching_up", track |-> None, started |-> None]

Present == {t \in Track : file[t] # "gone"}
Now == 0..MaxTime

\* What the rows keep of a station.
RowsTyped(s) ==
    /\ s.cur \in Track \cup {None}
    /\ s.started \in Now \cup {None}
    /\ s.seq \in Nat \cup {None}
    /\ DOMAIN s.batches \subseteq 1..MaxSeq
    /\ \A n \in DOMAIN s.batches : s.batches[n] \in Seq(Track)
    /\ s.banlist \in Seq(Seq(Track)) /\ Len(s.banlist) <= BanlistMax

TypeOK ==
    /\ DOMAIN st = DOMAIN Fresh /\ RowsTyped(st)
    /\ st.index \in Nat \ {0}
    /\ st.next \in 1..(MaxSeq + 1)
    /\ st.skip \subseteq Track /\ st.catalog \subseteq Track
    /\ st.mark \in 0..MaxScans \cup {None}
    /\ DOMAIN disk = DOMAIN NoRows /\ RowsTyped(disk)
    /\ snap \in [face : {"catching_up", "idle", "skip_pending", "current"},
                 track : Track \cup {None}, started : Now \cup {None}]
    /\ live \in BOOLEAN
    /\ worker \in {"down", "boot", "catching", "tick", "dead"}
    /\ catchup \in [at : Now, dirty : BOOLEAN]
    /\ loop \in {"free", "blocked"}
    /\ file \in [Track -> {"good", "bad", "gone"}]
    /\ scan \in 0..MaxScans
    /\ now \in Now
    /\ faults \in Nat
    /\ count \in [commands : Nat, changes : Nat, stops : Nat]

Init ==
    /\ st = Fresh
    /\ disk = NoRows
    /\ snap = CatchingUp
    /\ live = FALSE
    /\ worker = "boot"
    /\ catchup = [at |-> 0, dirty |-> FALSE]
    /\ loop = "free"
    /\ file \in [Track -> {"good", "bad", "gone"}]
    /\ scan = 0
    /\ now = 0
    /\ faults = 0
    /\ count = [commands |-> 0, changes |-> 0, stops |-> 0]

-----------------------------------------------------------------------------
(* The queue: positions in the order in which they play.                   *)

Items(s) == IF s.seq \in DOMAIN s.batches THEN s.batches[s.seq] ELSE <<>>
FirstOf(items, t) == Least({i \in DOMAIN items : items[i] = t})

Positions(s) == UNION {{<<n, i>> : i \in DOMAIN s.batches[n]} : n \in DOMAIN s.batches}
Precedes(p, q) == p[1] < q[1] \/ (p[1] = q[1] /\ p[2] < q[2])
Upcoming(s) == {p \in Positions(s) : s.seq = None \/ Precedes(<<s.seq, s.index>>, p)}
At(s, p) == s.batches[p[1]][p[2]]

KeepBatches(s, keep) == [n \in DOMAIN s.batches \cap keep |-> s.batches[n]]

\* Mutant: the last place of the id is looked for.
RetainedFromLast(s) ==
    LET here == {p \in Positions(s) : At(s, p) = s.cur}
        after == {p \in Positions(s) : \A q \in here : Precedes(q, p)}
    IN IF s.cur = None THEN {} ELSE {s.cur} \cup {At(s, p) : p \in after}

\* _peek_upcoming_ids and retained_track_ids: everything after the first
\* place where the current id stands.
Retained(s) ==
    LET here == {p \in Positions(s) : At(s, p) = s.cur}
        after == {p \in Positions(s) : \E q \in here : Precedes(q, p)}
    IN IF s.cur = None THEN {} ELSE {s.cur} \cup {At(s, p) : p \in after}

\* The items that are not in gone, in their order.
Without(items, gone) ==
    LET left[i \in 0..Len(items)] ==
            IF i = 0 THEN <<>>
            ELSE IF items[i] \in gone THEN left[i - 1]
            ELSE Append(left[i - 1], items[i])
    IN left[Len(items)]

\* _strip_from_banlist
Stripped(banlist, gone) ==
    Without([i \in DOMAIN banlist |-> Without(banlist[i], gone)], {<<>>})

\* A fifth batch leaves the previous and the new one.
LastTwo(banlist) ==
    IF Len(banlist) <= BanlistMax THEN banlist ELSE SubSeq(banlist, Len(banlist) - 1, Len(banlist))

\* _append_batch
Appended(s, batch) ==
    [s EXCEPT !.batches = [n \in DOMAIN @ \cup {s.next} |-> IF n = s.next THEN batch ELSE @[n]],
              !.next = @ + 1,
              !.banlist = LastTwo(Append(@, batch))]

-----------------------------------------------------------------------------
(* Picking.                                                                *)

\* Mutant: the catalog is read once.
RefreshedOnce(s) == IF s.mark # None THEN s ELSE [s EXCEPT !.mark = scan, !.catalog = Present]

\* _refresh_catalog
Refreshed(s) ==
    IF s.mark = scan THEN s ELSE [s EXCEPT !.mark = scan, !.catalog = Present]

\* _pick.  A track that is gone fails the probe.
Unreadable == {t \in Track : file[t] # "good"}
Picked(s) ==
    UNION {{[s |-> [r EXCEPT !.skip = @ \cup p[2]], batch |-> p[1]] :
               p \in Picks(r.catalog, r.banlist, r.skip, Unreadable)} : r \in {Refreshed(s)}}

\* _maybe_pick_next: the next batch is picked when the last track starts.
MaybePickNext(s) ==
    IF s.index # Len(Items(s)) \/ s.seq + 1 \in DOMAIN s.batches
    THEN {s}
    ELSE {IF p.batch = <<>> THEN p.s ELSE Appended(p.s, p.batch) : p \in Picked(s)}

\* _install_batch
Installed(s, batch, at) ==
    MaybePickNext([Appended(s, batch) EXCEPT !.seq = s.next, !.index = 1,
                                             !.cur = batch[1], !.started = at])

\* _try_start
Started(s, at) ==
    UNION {IF p.batch = <<>>
           THEN {[s |-> p.s, ok |-> FALSE]}
           ELSE {[s |-> q, ok |-> TRUE] : q \in Installed(p.s, p.batch, at)} : p \in Picked(s)}

-----------------------------------------------------------------------------
(* One step of the clock: advance, skip, start.                            *)

\* _advance, after the elapsed duration has been counted.
Advance(s) ==
    LET ahead == Upcoming(s) IN
    IF ahead # {}
    THEN LET p == CHOOSE p \in ahead : \A q \in ahead : p = q \/ Precedes(p, q) IN
         MaybePickNext([s EXCEPT !.batches = KeepBatches(s, p[1]..MaxSeq),
                                 !.seq = p[1], !.index = p[2], !.cur = At(s, p)])
    ELSE {IF r.ok THEN r.s ELSE [r.s EXCEPT !.cur = None, !.seq = None, !.batches = <<>>] :
             r \in Started([s EXCEPT !.batches = KeepBatches(s, (s.seq + 1)..MaxSeq)],
                           s.started)}

\* Mutant: a skip counts as played.
SkipCurrentCounted(s) ==
    Advance([s EXCEPT !.skip = @ \cup {s.cur}, !.banlist = Stripped(@, {s.cur}),
                      !.started = @ + Duration[s.cur]])

\* _skip_current
SkipCurrent(s) ==
    Advance([s EXCEPT !.skip = @ \cup {s.cur}, !.banlist = Stripped(@, {s.cur})])

Ended(s, at) == s.started + Duration[s.cur] <= at

\* Mutant: a file that is gone does not block.
BlockedByProbe(s) == s.cur \in s.skip \/ file[s.cur] = "bad"

\* _current_block_reason
Blocked(s) == s.cur \in s.skip \/ file[s.cur] # "good"

\* Mutant: a skip does not say that it changed the station.
SkippedUnsaved(s) == {[s |-> r, dirty |-> FALSE] : r \in SkipCurrent(s)}

\* What a step that changed the station reports.
Skipped(s) == {[s |-> r, dirty |-> TRUE] : r \in SkipCurrent(s)}

\* _step.  Without skip_blocks a file that is not there stops the clock.
Step(s, at, skipBlocks) ==
    IF s.cur = None
    THEN {[s |-> r.s, dirty |-> r.ok] : r \in Started(s, at)}
    ELSE IF ~skipBlocks /\ file[s.cur] = "gone" /\ s.cur \notin s.skip
    THEN {[s |-> s, dirty |-> FALSE]}
    ELSE IF Blocked(s)
    THEN Skipped(s)
    ELSE IF Ended(s, at)
    THEN {[s |-> r, dirty |-> TRUE] :
             r \in Advance([s EXCEPT !.started = @ + Duration[s.cur]])}
    ELSE {[s |-> s, dirty |-> FALSE]}

-----------------------------------------------------------------------------
(* Rows and snapshot.                                                      *)

\* _persist.  The stored form of a time keeps its microseconds, all a datetime has.
Saved(s) == [cur |-> s.cur, started |-> s.started, seq |-> s.seq,
             batches |-> s.batches, banlist |-> s.banlist]

\* Mutant: the next number is the number of the batches.
NextByCount(batches) == Cardinality(DOMAIN batches) + 1

NextNumber(batches) ==
    IF DOMAIN batches = {} THEN 1
    ELSE 1 + CHOOSE n \in DOMAIN batches : \A m \in DOMAIN batches : m <= n

\* _load: the place in the batch is the first place of the current id, and
\* the next number follows the last batch.
Loaded(s, rows) ==
    LET items == IF rows.seq \in DOMAIN rows.batches THEN rows.batches[rows.seq] ELSE <<>> IN
    [s EXCEPT !.cur = rows.cur, !.started = rows.started, !.seq = rows.seq,
              !.batches = rows.batches, !.banlist = rows.banlist,
              !.index = IF rows.cur \in Members(items) THEN FirstOf(items, rows.cur) ELSE 1,
              !.next = NextNumber(rows.batches)]

\* _stash_snapshot once the catch-up has landed.
Snapshot(s) ==
    IF s.cur = None THEN [face |-> "idle", track |-> None, started |-> None]
    ELSE IF file[s.cur] = "gone"
    THEN [face |-> "skip_pending", track |-> None, started |-> s.started]
    ELSE [face |-> "current", track |-> s.cur, started |-> s.started]

InBounds(s) == s.next <= MaxSeq + 1

\* Mutant: a commit does not stash.
StashNothing(s) == UNCHANGED snap

\* _with_session: write, commit, stash.
Stash(s) == snap' = Snapshot(s)
Commit(s) == disk' = Saved(s) /\ Stash(s) /\ UNCHANGED faults

\* The commit raises (busy timeout, disk full): the session is rolled back,
\* the fields in memory are not.
CommitRaises ==
    /\ faults < MaxFaults
    /\ faults' = faults + 1
    /\ UNCHANGED <<disk, snap>>

-----------------------------------------------------------------------------
(* The worker.                                                             *)

CatchupBegin ==
    /\ worker = "boot"
    /\ worker' = "catching"
    /\ st' = Loaded(st, disk)
    /\ catchup' = [at |-> now, dirty |-> FALSE]
    /\ UNCHANGED <<disk, snap, live, loop, file, scan, now, faults, count>>

\* The loop ends when nothing is due, and also when the id did not change.
LastStep(r) == ~r.dirty \/ r.s.cur \in {st.cur, None} \/ st.cur = None

CatchupStep ==
    /\ worker = "catching"
    /\ \E r \in Step(st, catchup.at, FALSE) :
           /\ InBounds(r.s)
           /\ ~LastStep(r)
           /\ st' = r.s
    /\ catchup' = [catchup EXCEPT !.dirty = TRUE]
    /\ UNCHANGED <<disk, snap, live, worker, loop, file, scan, now, faults, count>>

\* The last round, the commit, and the release of the lock.
CatchupLand ==
    /\ worker = "catching"
    /\ \E r \in Step(st, catchup.at, FALSE) :
           /\ InBounds(r.s)
           /\ LastStep(r)
           /\ st' = r.s
           /\ IF catchup.dirty \/ r.dirty THEN Commit(r.s)
              ELSE Stash(r.s) /\ UNCHANGED <<disk, faults>>
    /\ live' = TRUE
    /\ worker' = "tick"
    /\ loop' = "free"
    /\ UNCHANGED <<catchup, file, scan, now, count>>

Tick ==
    /\ worker = "tick"
    /\ \E r \in Step(st, now, TRUE) :
           /\ InBounds(r.s)
           /\ st' = r.s
           /\ IF r.dirty THEN Commit(r.s) ELSE Stash(r.s) /\ UNCHANGED <<disk, faults>>
    /\ UNCHANGED <<live, worker, catchup, loop, file, scan, now, count>>

\* An exception in the worker ends the task; persist_shutdown writes on the
\* way out, or fails too.
WorkerRaises ==
    /\ \/ /\ worker = "tick"
          /\ \E r \in Step(st, now, TRUE) : r.dirty /\ InBounds(r.s) /\ st' = r.s
       \/ /\ worker = "catching"
          /\ \E r \in Step(st, catchup.at, FALSE) :
                 /\ r.dirty \/ catchup.dirty
                 /\ LastStep(r) /\ InBounds(r.s) /\ st' = r.s
    /\ faults < MaxFaults
    /\ faults' = faults + 1
    /\ disk' \in {disk, Saved(st')}
    /\ worker' = "dead"
    /\ loop' = "free"
    /\ UNCHANGED <<snap, live, catchup, file, scan, now, count>>

\* The radio WebSocket reads now_playing() on the event loop: it returns at
\* once, or holds the loop until the lock is free.
Read ==
    /\ worker = "catching"
    /\ loop = "free"
    /\ loop' = "blocked"
    /\ UNCHANGED <<st, disk, snap, live, worker, catchup, file, scan, now, faults, count>>

-----------------------------------------------------------------------------
(* The debug commands of the control socket, from its own thread.          *)

Command ==
    /\ live
    /\ worker \in {"tick", "dead"}
    /\ count.commands < MaxCommands
    /\ count' = [count EXCEPT !.commands = @ + 1]

\* A command leaves the station s.
Leaves(s) ==
    /\ InBounds(s)
    /\ st' = s
    /\ Commit(s) \/ CommitRaises
    /\ UNCHANGED <<live, worker, catchup, loop, file, scan, now>>

OperatorSkip ==
    /\ Command
    /\ st.cur # None
    /\ \E s \in Advance([st EXCEPT !.started = now]) : Leaves(s)

\* _replace_current_with: at the first place of the current id.
Replaced(s, t) ==
    LET i == IF s.cur \in Members(Items(s)) THEN FirstOf(Items(s), s.cur) ELSE s.index IN
    [s EXCEPT !.index = i, !.batches[s.seq][i] = t]

\* Mutant: the copy that plays is dropped too.
DropAllCopies(s, t) ==
    [s EXCEPT !.batches = [n \in DOMAIN s.batches |-> Without(s.batches[n], {t})]]

\* _drop_later_copies
DropLaterCopies(s, t) ==
    LET played(n) == IF n = s.seq THEN SubSeq(s.batches[n], 1, s.index) ELSE <<>>
        later(n) == IF n = s.seq THEN SubSeq(s.batches[n], s.index + 1, Len(s.batches[n]))
                    ELSE s.batches[n]
        kept == [n \in DOMAIN s.batches |->
                    IF n < s.seq THEN s.batches[n] ELSE played(n) \o Without(later(n), {t})]
    IN [s EXCEPT !.batches = [n \in {m \in DOMAIN kept : m <= s.seq \/ kept[m] # <<>>} |-> kept[n]]]

\* _ensure_on_banlist
OnBanlist(s, t) ==
    IF \E i \in DOMAIN s.banlist : t \in Members(s.banlist[i]) THEN s
    ELSE IF s.banlist = <<>> THEN [s EXCEPT !.banlist = << <<t>> >>]
    ELSE [s EXCEPT !.banlist[Len(s.banlist)] = Append(@, t)]

\* t takes the place of the current track, and starts at.
PlayedInstead(s, t, at) ==
    [OnBanlist(DropLaterCopies(Replaced(s, t), t), t) EXCEPT !.cur = t, !.started = at]

OperatorPlay(t) ==
    /\ Command
    /\ t # st.cur
    /\ file[t] = "good"
    /\ \E s \in IF st.cur = None THEN Installed(st, <<t>>, now)
                ELSE MaybePickNext(PlayedInstead(st, t, now)) : Leaves(s)

\* The probe refuses the track: nothing is written, the id is skipped.
OperatorPlayRefused(t) ==
    /\ Command
    /\ t # st.cur
    /\ file[t] = "bad"
    /\ st' = [st EXCEPT !.skip = @ \cup {t}]
    /\ UNCHANGED <<disk, snap, live, worker, catchup, loop, file, scan, now, faults>>

\* _drop_unplayed_remainder and its effect on the banlist.
Remainder(s) == {At(s, p) : p \in Upcoming(s)}
DropRemainder(s) ==
    [s EXCEPT !.batches = [n \in {m \in DOMAIN s.batches : m <= s.seq} |->
                              IF n = s.seq THEN SubSeq(@[n], 1, s.index) ELSE @[n]],
              !.banlist = Stripped(@, Remainder(s))]

OperatorPick ==
    /\ Command
    /\ st.cur # None
    /\ \E p \in Picked(DropRemainder(st)) :
           Leaves(IF p.batch = <<>> THEN p.s ELSE Appended(p.s, p.batch))

OperatorPickIdle ==
    /\ Command
    /\ st.cur = None
    /\ \E r \in Started(st, now) :
           IF r.ok THEN Leaves(r.s)
           ELSE /\ st' = r.s
                /\ UNCHANGED <<disk, snap, live, worker, catchup, loop, file, scan, now, faults>>

OperatorReset ==
    /\ Command
    /\ \E r \in Started([Fresh EXCEPT !.catalog = st.catalog, !.mark = st.mark], now) :
           Leaves(r.s)

ClearSkipIds ==
    /\ Command
    /\ st.skip # {}
    /\ st' = [st EXCEPT !.skip = {}]
    /\ UNCHANGED <<disk, snap, live, worker, catchup, loop, file, scan, now, faults>>

-----------------------------------------------------------------------------
(* The process and the world.                                              *)

\* A clean stop writes the rows (persist_shutdown); a crash does not.
Stop(rows) ==
    /\ worker # "down"
    /\ count.stops < MaxStops
    /\ count' = [count EXCEPT !.stops = @ + 1]
    /\ disk' = rows
    /\ st' = Fresh
    /\ snap' = CatchingUp
    /\ live' = FALSE
    /\ worker' = "down"
    /\ loop' = "free"
    /\ UNCHANGED <<catchup, file, scan, now, faults>>
Shutdown == worker = "tick" /\ Stop(Saved(st))
Crash == Stop(disk)

Restart ==
    /\ worker = "down"
    /\ worker' = "boot"
    /\ UNCHANGED <<st, disk, snap, live, catchup, loop, file, scan, now, faults, count>>

FileChanges(t) ==
    /\ count.changes < MaxChanges
    /\ count' = [count EXCEPT !.changes = @ + 1]
    /\ \E f \in {"good", "bad", "gone"} \ {file[t]} : file' = [file EXCEPT ![t] = f]
    /\ UNCHANGED <<st, disk, snap, live, worker, catchup, loop, scan, now, faults>>

ScanFinishes ==
    /\ scan < MaxScans
    /\ scan' = scan + 1
    /\ UNCHANGED <<st, disk, snap, live, worker, catchup, loop, file, now, faults, count>>

TimePasses ==
    /\ now < MaxTime
    /\ now' = now + 1
    /\ UNCHANGED <<st, disk, snap, live, worker, catchup, loop, file, scan, faults, count>>

Next ==
    \/ CatchupBegin \/ CatchupStep \/ CatchupLand \/ Tick \/ WorkerRaises \/ Read
    \/ OperatorSkip \/ OperatorPick \/ OperatorPickIdle \/ OperatorReset \/ ClearSkipIds
    \/ \E t \in Track : OperatorPlay(t) \/ OperatorPlayRefused(t) \/ FileChanges(t)
    \/ Shutdown \/ Crash \/ Restart \/ ScanFinishes \/ TimePasses

Spec == Init /\ [][Next]_vars

\* run_radio_worker is one task that the loop keeps scheduling; nothing obliges
\* anybody to command, scan, stop or start again.
Fairness == WF_vars(CatchupBegin \/ CatchupStep \/ CatchupLand \/ Tick)
FairSpec == Spec /\ Fairness
-----------------------------------------------------------------------------
(* Properties.                                                             *)

\* The clock's place in the queue and the current id agree, whatever
\* advances, debug commands, failed commits and restarts have done: the code
\* keeps both, advances by the place and serves the id.
PlaceKept ==
    st.cur # None =>
        /\ st.seq \in DOMAIN st.batches
        /\ st.index \in DOMAIN st.batches[st.seq]
        /\ st.batches[st.seq][st.index] = st.cur
        /\ st.started # None

\* What forget must not evict, found by looking for the current id, covers
\* what the clock will play, found from its place.
RetainsWhatPlays ==
    st.cur # None => {st.cur} \cup Remainder(st) \subseteq Retained(st)

\* The current track started in the past: a skip leaves the clock where it
\* was, a command sets it to now, an advance moves it to an end that passed.
StartedInThePast == st.started # None => st.started <= now

\* As long as no commit failed, the rows are the station: an operation that
\* changes the clock, the queue or the banlist says so and is written, and a
\* restart loses nothing.
RowsAreTheStation ==
    faults = 0 /\ worker \notin {"down", "boot", "catching"} => disk = Saved(st)

\* As long as no commit failed, the public face shows the station's track and
\* clock: no operation forgets to stash.
FaceIsTheStation ==
    faults = 0 /\ live =>
        /\ snap.face = "idle" <=> st.cur = None
        /\ snap.face = "current" => snap.track = st.cur
        /\ st.cur # None => snap.started = st.started

\* What is queued after the current track has a number the next batch cannot
\* take, also after a restart recomputed it.
NumbersAhead == \A n \in DOMAIN st.batches : n < st.next

\* The clock comes back to now: a track that ended, or cannot be played, is
\* left behind, however many of them there are.
Behind == worker = "tick" /\ st.cur # None /\ (file[st.cur] # "good" \/ Ended(st, now))
ClockCatchesUp == Behind ~> ~Behind

\* The station is idle only as long as nothing can be played: it starts once a
\* scan has put a playable track into the catalog.
Playable == {t \in (IF st.mark = scan THEN st.catalog ELSE Present) \ st.skip : file[t] = "good"}
Silent == worker = "tick" /\ st.cur = None /\ Playable # {}
IdleEnds == Silent ~> ~Silent

-----------------------------------------------------------------------------
(* What these rest on.                                                     *)

\* The worker is live from the landing of the catch-up on; only a failed commit
\* ends it.
WorkerControl ==
    /\ live => worker \in {"tick", "dead"}
    /\ worker = "tick" => live
    /\ worker = "dead" => faults > 0
    /\ catchup.at <= now

\* The rows name a track that stands in the batch they name, and a start that
\* has passed.
RowsPlaced ==
    /\ disk = Saved(disk)
    /\ disk.cur # None =>
           /\ disk.seq \in DOMAIN disk.batches
           /\ disk.cur \in Members(disk.batches[disk.seq])
           /\ disk.started # None
    /\ disk.started # None => disk.started <= now

\* Until the catch-up changes the station, the rows are what it loaded.
RowsAreLoaded == faults = 0 /\ worker = "catching" /\ ~catchup.dirty => disk = Saved(st)

IInv ==
    /\ TypeOK /\ WorkerControl /\ RowsPlaced /\ RowsAreLoaded
    /\ PlaceKept /\ NumbersAhead /\ StartedInThePast
    /\ RowsAreTheStation /\ FaceIsTheStation

-----------------------------------------------------------------------------
(* What the documentation says and the code does not do.                   *)

\* radio.md: a restart catches up "as if the process never died": loading the
\* rows puts the clock back at its place in the batch.
RestartKeepsPlace == st.cur # None => FirstOf(Items(st), st.cur) = st.index

\* radio.md: while it catches up, "HTTP accepts requests immediately".
HttpAnswers == loop = "free"
=============================================================================
