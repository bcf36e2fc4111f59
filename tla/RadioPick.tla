------------------------------- MODULE RadioPick -------------------------------
(***************************************************************************)
(* What one call of pick_batch may return (radio/picker.py), stated        *)
(* without the draw: the clock of RadioStation picks by this definition,   *)
(* and RadioPicker shows that the drawing loop implements it.              *)
(***************************************************************************)
EXTENDS Integers, Sequences, FiniteSets

CONSTANTS
    Track,       \* track ids
    Performer,   \* the performing artist of each track
    VA,          \* Various Artists, who may play twice in a batch
    BatchSize,   \* RADIO_BATCH_SIZE
    BanlistMax   \* RADIO_BANLIST_MAX_BATCHES

ASSUME RadioPickAssumption ==
    /\ BatchSize \in Nat \ {0}
    /\ BanlistMax \in Nat \ {0, 1}
    /\ DOMAIN Performer = Track

Members(s) == {s[i] : i \in DOMAIN s}
Before(s, n) == {s[i] : i \in 1..(n - 1)}

\* _effective_banlist: a full banlist counts for its last batch only.
Effective(banlist) ==
    IF Len(banlist) >= BanlistMax THEN <<banlist[Len(banlist)]>> ELSE banlist

\* The ids banned once the drop oldest batches are loosened.
Banned(banlist, drop) ==
    LET eff == Effective(banlist) IN UNION {Members(eff[i]) : i \in (drop + 1)..Len(eff)}

\* _banned_artist_ids: the performers of the banned tracks that are still in
\* the pool, and of the tracks taken so far.
Silenced(pool, banned, taken) ==
    {Performer[t] : t \in (banned \cap pool) \cup taken} \ {VA}

\* The tracks _try_slot may draw for the next slot.
Open(pool, banned, taken) ==
    {t \in pool \ (banned \cup taken) : Performer[t] \notin Silenced(pool, banned, taken)}

Least(S) == CHOOSE n \in S : \A m \in S : n <= m

\* batch may be picked from catalog, and probing may have failed on found.
\* Each track is drawn at the first loosening that leaves a playable one, and
\* the batch ends when it is full or nothing is left without any ban.
IsPick(catalog, banlist, skip, bad, batch, found) ==
    LET pool == catalog \ skip
        last == Len(Effective(banlist))
        left(d, taken) == Open(pool, Banned(banlist, d), taken) \ found
        drops(taken) == {d \in 0..last : left(d, taken) # {}}
    IN
    /\ found \subseteq bad \cap pool
    /\ Len(batch) <= BatchSize
    /\ \A i \in DOMAIN batch :
           /\ batch[i] \notin bad
           /\ LET taken == Before(batch, i)
                  open == drops(taken)
              IN open # {} /\ batch[i] \in left(Least(open), taken)
    /\ Len(batch) < BatchSize => left(last, Members(batch)) = {}

Batches(tracks) == UNION {[1..n -> tracks] : n \in 0..BatchSize}
Picks(catalog, banlist, skip, bad) ==
    {p \in Batches(catalog \ (skip \cup bad)) \X SUBSET bad :
        IsPick(catalog, banlist, skip, bad, p[1], p[2])}
=============================================================================
