------------------------------ MODULE RadioPicker ------------------------------
(***************************************************************************)
(* The drawing loop of pick_batch and _try_slot (radio/picker.py): a slot  *)
(* draws among the open tracks, a failed probe takes the track out of the  *)
(* slot and out of the pool, a slot without a track drops the oldest       *)
(* banned batch.  The random choice of performer, album and track is a     *)
(* choice of any open track.                                               *)
(***************************************************************************)
EXTENDS RadioPick

CONSTANTS
    PickAttempts,  \* RADIO_PICK_ATTEMPTS, draws per slot
    Banlist        \* the histories the loop may be given

\* A debug play appends to the last banned batch, which may outgrow BatchSize.
ASSUME RadioPickerAssumption ==
    /\ PickAttempts \in Nat \ {0}
    /\ Banlist \subseteq Seq(Seq(Track))

VARIABLES
    catalog, banlist, skip0, bad,   \* the arguments, constant in a behaviour
    skip,      \* skip_ids, which the probe failures extend
    working,   \* the copy of the snapshot
    batch,     \* the tracks picked so far
    drop,      \* ban_drop
    graph,     \* the remaining graph of the slot
    tries,     \* draws made in the slot
    pc

args == <<catalog, banlist, skip0, bad>>
vars == <<catalog, banlist, skip0, bad, skip, working, batch, drop, graph, tries, pc>>

TypeOK ==
    /\ skip \subseteq Track /\ skip0 \subseteq skip
    /\ working \subseteq catalog
    /\ batch \in Batches(Track)
    /\ drop \in 0..Len(Effective(banlist))
    /\ graph \subseteq working
    /\ tries \in 0..PickAttempts
    /\ pc \in {"slot", "draw", "done"}

\* Ids outside the catalog, and files of skipped tracks, are never read.
Init ==
    /\ catalog \in SUBSET Track
    /\ banlist \in Banlist
    /\ skip0 \in SUBSET catalog
    /\ bad \in SUBSET (catalog \ skip0)
    /\ skip = skip0
    /\ working = catalog \ skip0
    /\ batch = <<>>
    /\ drop = 0
    /\ graph = {}
    /\ tries = 0
    /\ pc = "slot"

\* Mutant: the performers of the batch are not banned.
SlotOfRepeats == Open(working, Banned(banlist, drop), {}) \ (skip \cup Members(batch))
\* exclude and banned_artists of _try_slot, over the working copy.
Slot == Open(working, Banned(banlist, drop), Members(batch)) \ skip

\* _try_slot up to the first draw.
Begin ==
    /\ pc = "slot"
    /\ Len(batch) < BatchSize
    /\ Slot # {}
    /\ graph' = Slot
    /\ tries' = 0
    /\ pc' = "draw"
    /\ UNCHANGED <<args, skip, working, batch, drop>>

\* A draw that the probe accepts ends the slot.
Take ==
    /\ pc = "draw"
    /\ tries < PickAttempts
    /\ \E t \in graph \ bad :
           /\ batch' = Append(batch, t)
           /\ working' = working \ {t}
    /\ graph' = {}
    /\ pc' = "slot"
    /\ UNCHANGED <<args, skip, drop, tries>>

\* A draw that the probe refuses.
Refuse ==
    /\ pc = "draw"
    /\ tries < PickAttempts
    /\ \E t \in graph \cap bad :
           /\ skip' = skip \cup {t}
           /\ working' = working \ {t}
           /\ graph' = graph \ {t}
    /\ tries' = tries + 1
    /\ UNCHANGED <<args, batch, drop, pc>>

\* The slot returns None: nothing open, nothing left, or out of attempts.
Stuck ==
    \/ pc = "slot" /\ Len(batch) < BatchSize /\ Slot = {}
    \/ pc = "draw" /\ (graph = {} \/ tries = PickAttempts)

\* Mutant: the last batch is never loosened.
LastButOne == IF banlist = <<>> THEN 0 ELSE Len(Effective(banlist)) - 1
\* How far the banlist may be loosened.
LastDrop == Len(Effective(banlist))
\* Mutants of one step of loosening.
NotLoosened == drop
AllLoosened == LastDrop
\* One step of loosening.
Loosened == drop + 1

Loosen ==
    /\ Stuck
    /\ drop < LastDrop
    /\ drop' = Loosened
    /\ graph' = {}
    /\ pc' = "slot"
    /\ UNCHANGED <<args, skip, working, batch, tries>>

Stop ==
    /\ \/ pc = "slot" /\ Len(batch) = BatchSize
       \/ Stuck /\ drop = LastDrop
    /\ pc' = "done"
    /\ graph' = {}
    /\ UNCHANGED <<args, skip, working, batch, drop, tries>>

Done == pc = "done" /\ UNCHANGED vars

Next == Begin \/ Take \/ Refuse \/ Loosen \/ Stop \/ Done

Spec == Init /\ [][Next]_vars
FairSpec == Spec /\ WF_vars(Next)

-----------------------------------------------------------------------------
\* The loop returns what IsPick allows, whatever it draws: the clock may use
\* the definition in place of the loop.  (For a slot with fewer bad files
\* than PickAttempts.)
ReturnsAPick ==
    pc = "done" => IsPick(catalog, banlist, skip0, bad, batch, skip \ skip0)

\* No performer plays twice in a batch, except Various Artists, however far
\* the banlist is loosened; and no file the probe refused gets in.
OnePerPerformer ==
    \A i, j \in DOMAIN batch :
        /\ Performer[batch[i]] = Performer[batch[j]] => i = j \/ Performer[batch[i]] = VA
        /\ i # j => batch[i] # batch[j]
        /\ batch[i] \notin bad \cup skip

\* Loosening goes all the way: an empty batch means that nothing of the
\* catalog can be played, so the station is idle for no other reason.
EmptyMeansNothing ==
    pc = "done" /\ batch = <<>> => catalog \ (skip0 \cup bad) = {}

\* The loop ends: every draw shrinks the graph, every miss drops a batch.
Terminates == <>(pc = "done")

-----------------------------------------------------------------------------
(* What these rest on.                                                     *)

Pool == catalog \ skip0
Found == skip \ skip0
Taken == Members(batch)
\* The open tracks of the next slot with drop batches loosened, and what is
\* left of them once the probe has refused the tracks found so far.
OpenAt(d) == Open(Pool, Banned(banlist, d), Taken)
Left(d) == OpenAt(d) \ Found

\* The working copy lacks what was taken and what was refused, which no batch
\* that is still banned has; a slot draws from all that is left.
PoolControl ==
    /\ catalog \subseteq Track /\ banlist \in Banlist
    /\ skip0 \subseteq catalog /\ bad \subseteq Pool
    /\ skip0 \subseteq skip /\ Found \subseteq bad
    /\ Taken \subseteq Pool \ bad
    /\ working = Pool \ (Found \cup Taken)
    /\ Found \cap Banned(banlist, drop) = {}
    /\ pc = "draw" => Len(batch) < BatchSize /\ graph = Left(drop)

\* Every track was open when it was drawn.
Drawn(i, d) == batch[i] \in Open(Pool, Banned(banlist, d), Before(batch, i))
DrawnControl == \A i \in DOMAIN batch : \E d \in 0..LastDrop : Drawn(i, d)

\* A slot meets fewer bad files than it has draws, or has a draw for each track.
Enough ==
    /\ IsFiniteSet(catalog)
    /\ Cardinality(bad) < PickAttempts \/ Cardinality(catalog) <= PickAttempts
TriesControl ==
    IsFiniteSet(catalog) =>
        /\ pc = "draw" => Cardinality(graph) + tries <= Cardinality(catalog)
        /\ pc = "draw" => tries <= Cardinality(Found)

\* Then a batch is loosened, and the end come to, only when nothing is left.
Exhausted(i, d) ==
    \A e \in 0..(d - 1) : Open(Pool, Banned(banlist, e), Before(batch, i)) \subseteq Found
LooseControl ==
    Enough =>
        /\ \A e \in 0..(drop - 1) : Left(e) = {}
        /\ \A i \in DOMAIN batch : \E d \in 0..LastDrop : Drawn(i, d) /\ Exhausted(i, d)
        /\ pc = "done" => Len(batch) = BatchSize \/ (drop = LastDrop /\ Left(drop) = {})

IInv == TypeOK /\ PoolControl /\ DrawnControl /\ TriesControl /\ LooseControl

\* What the loop has yet to do: slots of the batch, loosenings, draws of the slot.
SlotsLeft == BatchSize - Len(batch)
DropsLeft == LastDrop - drop
DrawsLeft == IF pc = "slot" THEN PickAttempts + 2
             ELSE IF pc = "draw" THEN PickAttempts + 1 - tries ELSE 0
Budget == SlotsLeft \in Nat /\ DropsLeft \in Nat /\ DrawsLeft \in Nat

\* Every step of the loop leaves fewer slots, or as many and fewer loosenings, or
\* as many of both and fewer draws: why the drawing ends, whatever the probe says.
Shrinks ==
    \/ SlotsLeft' < SlotsLeft
    \/ SlotsLeft' = SlotsLeft /\ DropsLeft' < DropsLeft
    \/ SlotsLeft' = SlotsLeft /\ DropsLeft' = DropsLeft /\ DrawsLeft' < DrawsLeft
EveryStepShrinks == [][Shrinks]_vars
=============================================================================
