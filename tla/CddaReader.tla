----------------------------- MODULE CddaReader -----------------------------
(* The live WAV of one track (exclusive/cdda_stream.py): CddaReader with its *)
(* ring of sectors, and the ParanoiaSource under it, read by the threads     *)
(* that serve Range requests.  The player has one request; a seek leaves it, *)
(* and its thread goes on until its next() returns.  Sectors are numbered    *)
(* from the start of the track and stand for their bytes, None for the       *)
(* silence in place of one that could not be read; the header and the offset *)
(* inside the first sector are left out.                                     *)
EXTENDS Naturals, Sequences

CONSTANTS Thread,       \* threads of the pool that serve the bodies
          Count,        \* sector_count
          RingSectors,  \* RING_SECTORS
          MaxSeeks,     \* bound: requests
          MaxFails,     \* bound: reads that fail
          None

VARIABLES
    ring,       \* _ring_start and _ring: None when empty
    generation, \* _generation
    closed,     \* _closed, the source closed with it
    cursor,     \* ParanoiaSource._cursor
    head,       \* where the library will read next
    body,       \* per thread, the generator iter_span and its locals
    seeks, fails

vars == <<ring, generation, closed, cursor, head, body, seeks, fails>>

Sector == 0 .. Count - 1
Ended == [at |-> "ended", index |-> 0, gen |-> 0, filled |-> <<>>, left |-> TRUE]

TypeOK ==
    /\ ring = None \/ ring \in [start : Sector, data : Seq(Nat \cup {None})]
    /\ generation \in Nat /\ closed \in BOOLEAN
    /\ cursor \in Nat \cup {None} /\ head \in Nat
    /\ \A t \in Thread :
         /\ body[t].at \in {"ended", "sector", "prime", "read", "position", "take", "keep", "check", "yield"}
         /\ body[t].index \in Sector

Init ==
    /\ ring = None /\ generation = 0 /\ closed = FALSE
    /\ cursor = None /\ head = 0
    /\ body = [t \in Thread |-> Ended]
    /\ seeks = 0 /\ fails = 0

InRing(i) == IF ring = None THEN FALSE
             ELSE i \in ring.start .. ring.start + Len(ring.data) - 1
RingGet(i) == ring.data[i - ring.start + 1]

Goes(t, b) == body' = [body EXCEPT ![t] = b]
Moves(t, at) == body' = [body EXCEPT ![t].at = at]
Canceled(t) == closed \/ body[t].gen # generation
Wanted(t) == body[t].index + Len(body[t].filled)   \* the sector read_sector is asked for

-----------------------------------------------------------------------------
\* A Range request from sector i to the end; the one before it is left.  A ring
\* that does not hold i invalidates what is being read; an empty one does not.
Seek(t, i) ==
    /\ ~closed /\ body[t].at = "ended" /\ seeks < MaxSeeks /\ seeks' = seeks + 1
    /\ generation' = IF ring # None /\ ~InRing(i) THEN generation + 1 ELSE generation
    /\ body' = [u \in Thread |->
                  IF u = t THEN [Ended EXCEPT !.at = "sector", !.index = i, !.left = FALSE]
                  ELSE [body[u] EXCEPT !.left = TRUE]]
    /\ UNCHANGED <<ring, closed, cursor, head, fails>>

\* _sector_at, the first look.
SectorAt(t) ==
    /\ body[t].at = "sector"
    /\ Goes(t, IF closed THEN Ended
               ELSE [body[t] EXCEPT !.gen = generation, !.filled = <<>>,
                       !.at = IF InRing(body[t].index) THEN "yield" ELSE "prime"])
    /\ UNCHANGED <<ring, generation, closed, cursor, head, seeks, fails>>

\* _prime empties the ring under the lock, then reads outside it.
Prime(t) ==
    /\ body[t].at = "prime"
    /\ Goes(t, IF Canceled(t) THEN Ended
               ELSE [body[t] EXCEPT !.at = IF InRing(body[t].index) THEN "check" ELSE "read"])
    /\ ring' = IF Canceled(t) \/ InRing(body[t].index) THEN ring ELSE None
    /\ UNCHANGED <<generation, closed, cursor, head, seeks, fails>>

\* The test before each sector, and the ring put in place after the last.
PrimeStep(t) ==
    LET b == body[t]  full == Len(b.filled) = RingSectors \/ Wanted(t) = Count IN
    /\ b.at = "read"
    /\ IF Canceled(t) THEN Goes(t, Ended) /\ UNCHANGED ring
       ELSE IF full THEN /\ ring' = [start |-> b.index, data |-> b.filled]
                         /\ Moves(t, "check")
       ELSE Moves(t, "position") /\ UNCHANGED ring
    /\ UNCHANGED <<generation, closed, cursor, head, seeks, fails>>

\* read_sector: seek only when the cursor is elsewhere, read, move the cursor.
\* A read that fails leaves the source where it was, and the cursor: after a
\* seek that is the place before the seek.
Position(t) ==
    /\ body[t].at = "position"
    /\ head' = IF cursor # Wanted(t) THEN Wanted(t) ELSE head
    /\ Moves(t, "take")
    /\ UNCHANGED <<ring, generation, closed, cursor, seeks, fails>>
Gets(t, sector) ==
    Goes(t, [body[t] EXCEPT !.at = "keep", !.filled = Append(@, sector)])
Take(t) ==
    /\ body[t].at = "take"
    /\ \/ ~closed /\ Gets(t, head) /\ head' = head + 1 /\ UNCHANGED fails
       \/ ~closed /\ fails < MaxFails /\ fails' = fails + 1 /\ Gets(t, None) /\ UNCHANGED head
       \/ closed /\ Gets(t, None) /\ UNCHANGED <<head, fails>>
    /\ UNCHANGED <<ring, generation, closed, cursor, seeks>>
Failed(t) == body[t].filled[Len(body[t].filled)] = None
Keep(t) ==
    /\ body[t].at = "keep"
    /\ cursor' = IF Failed(t) THEN cursor ELSE Wanted(t)
    /\ Moves(t, "read")
    /\ UNCHANGED <<ring, generation, closed, head, seeks, fails>>

\* _sector_at again, after the prime.
Check(t) ==
    /\ body[t].at = "check"
    /\ IF Canceled(t) \/ ~InRing(body[t].index) THEN Goes(t, Ended) ELSE Moves(t, "yield")
    /\ UNCHANGED <<ring, generation, closed, cursor, head, seeks, fails>>

\* What next() returns: sector_at's bytes, held since the lock was released.
Yield(t) ==
    /\ body[t].at = "yield"
    /\ Goes(t, IF body[t].left \/ body[t].index = Count - 1 THEN Ended
               ELSE [body[t] EXCEPT !.at = "sector", !.index = @ + 1])
    /\ UNCHANGED <<ring, generation, closed, cursor, head, seeks, fails>>

\* drop_reader: the lock is taken, the library's handle is freed.
Close ==
    /\ ~closed
    /\ closed' = TRUE /\ generation' = generation + 1 /\ ring' = None
    /\ UNCHANGED <<cursor, head, body, seeks, fails>>

Next ==
    \/ Close
    \/ \E t \in Thread :
         \/ \E i \in Sector : Seek(t, i)
         \/ SectorAt(t) \/ Prime(t) \/ PrimeStep(t) \/ Position(t) \/ Take(t)
         \/ Keep(t) \/ Check(t) \/ Yield(t)

Spec == Init /\ [][Next]_vars

-----------------------------------------------------------------------------
\* "Live virtual WAV: Red Book sectors as a Range-addressable PCM file"
\* (cdda_stream.py:1): what the ring holds at a place is the sector of that
\* place, or silence, so that a seek never plays another part of the track.
RingIsTheTrack ==
    ring # None => \A k \in 1 .. Len(ring.data) : ring.data[k] \in {ring.start + k - 1, None}

-----------------------------------------------------------------------------
(* When it does.                                                           *)

\* The threads that are between emptying the ring and putting theirs in place.
Fills(t) == body[t].at \in {"read", "position", "take", "keep"}

\* What the code relies on and does not ensure: never two threads fill, and no
\* read fails right after a seek.
Alone == \A t, u \in Thread : Fills(t) /\ Fills(u) => t = u
FailsInPlace == \A t \in Thread :
    ~closed /\ body[t].at = "keep" /\ Failed(t) => cursor # None /\ cursor + 1 = Wanted(t)

Data == Seq(Nat \cup {None})
Body == [at : {"ended", "sector", "prime", "read", "position", "take", "keep", "check", "yield"},
         index : Nat, gen : Nat, filled : Data, left : BOOLEAN]
Typed ==
    /\ ring \in [start : Nat, data : Data] \cup {None}
    /\ generation \in Nat /\ closed \in BOOLEAN
    /\ cursor \in Nat \cup {None} /\ head \in Nat
    /\ body \in [Thread -> Body]

\* The source stands where it believes to, unless a thread is about to read
\* or has just read; then it stands where that thread wants to be.
CursorTrue ==
    /\ (\A t \in Thread : body[t].at \notin {"take", "keep"}) /\ cursor # None => head = cursor
    /\ \A t \in Thread : body[t].at = "take" => head = Wanted(t)
    /\ \A t \in Thread : body[t].at = "keep" =>
         IF Failed(t) THEN head + 1 = Wanted(t) ELSE head = Wanted(t)

\* What is read is of the place it is read for, or silence.
FilledTrue ==
    \A t \in Thread : Fills(t) =>
        \A k \in 1 .. Len(body[t].filled) : body[t].filled[k] \in {body[t].index + k - 1, None}

\* A prime begins with nothing.
PrimeEmpty == \A t \in Thread : body[t].at = "prime" => body[t].filled = <<>>

\* The invariant that the proofs show to be inductive while both hold.
IInv ==
    /\ Typed /\ RingIsTheTrack /\ PrimeEmpty
    /\ ~closed => CursorTrue /\ FilledTrue
=============================================================================
