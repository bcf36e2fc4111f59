--------------------------- MODULE RadioPickerProofs ---------------------------
(***************************************************************************)
(* Proofs about RadioPicker: no performer repeats in a batch, and, as long *)
(* as a slot has draws enough, the drawing loop returns what IsPick allows *)
(* and gives up only when nothing can be played; for any catalog, banlist, *)
(* performers and sizes.                                                   *)
(***************************************************************************)
EXTENDS RadioPicker, FiniteSetTheorems, TLAPS

-----------------------------------------------------------------------------
(* Batches, the banlist and the open tracks.                               *)

LEMMA BatchesSay ==
    ASSUME NEW S, NEW b
    PROVE  b \in Batches(S) <=> b \in Seq(S) /\ Len(b) <= BatchSize
PROOF
<1>1. BatchSize \in Nat
  BY RadioPickAssumption
<1>2. ASSUME b \in Batches(S)
      PROVE  b \in Seq(S) /\ Len(b) <= BatchSize
  <2>1. PICK n \in 0..BatchSize : b \in [1..n -> S]
    BY <1>2 DEF Batches
  <2>2. b \in Seq(S) /\ Len(b) = n
    BY <2>1, <1>1
  <2> QED BY <2>1, <2>2, <1>1
<1>3. ASSUME b \in Seq(S), Len(b) <= BatchSize
      PROVE  b \in Batches(S)
  <2>1. Len(b) \in 0..BatchSize /\ b \in [1..Len(b) -> S]
    BY <1>3, <1>1
  <2> QED BY <2>1 DEF Batches
<1> QED BY <1>2, <1>3

LEMMA LastDropType ==
    ASSUME banlist \in Banlist
    PROVE  LastDrop \in Nat
PROOF
<1>1. Len(banlist) \in Nat
  BY RadioPickerAssumption
<1>2. CASE Len(banlist) >= BanlistMax
  <2>1. Effective(banlist) = <<banlist[Len(banlist)]>>
    BY <1>2 DEF Effective
  <2>2. Len(<<banlist[Len(banlist)]>>) = 1
    OBVIOUS
  <2> QED BY <2>1, <2>2 DEF LastDrop
<1>3. CASE ~(Len(banlist) >= BanlistMax)
  <2>1. Effective(banlist) = banlist
    BY <1>3 DEF Effective
  <2> QED BY <2>1, <1>1 DEF LastDrop
<1> QED BY <1>2, <1>3

\* Loosening lets go of banned tracks only.
LEMMA BannedShrinks ==
    ASSUME NEW e \in Nat, NEW d \in Nat, e <= d, banlist \in Banlist
    PROVE  Banned(banlist, d) \subseteq Banned(banlist, e)
PROOF
<1>1. Len(Effective(banlist)) \in Nat
  BY LastDropType DEF LastDrop
<1>2. (d + 1)..Len(Effective(banlist)) \subseteq (e + 1)..Len(Effective(banlist))
  BY <1>1
<1> QED BY <1>2 DEF Banned

\* With more taken, and with more in the pool that is banned, fewer are open.
LEMMA OpenShrinks ==
    ASSUME NEW pool, NEW banned, NEW taken, NEW more, taken \subseteq more
    PROVE  Open(pool, banned, more) \subseteq Open(pool, banned, taken)
BY DEF Open, Silenced

LEMMA AppendedSays ==
    ASSUME NEW t, batch \in Seq(Track), batch' = Append(batch, t), t \in Track
    PROVE  /\ batch' \in Seq(Track) /\ Len(batch') = Len(batch) + 1
           /\ Members(batch') = Members(batch) \cup {t}
           /\ DOMAIN batch' = DOMAIN batch \cup {Len(batch) + 1}
           /\ batch'[Len(batch) + 1] = t
           /\ Before(batch', Len(batch) + 1) = Members(batch)
           /\ \A i \in DOMAIN batch : /\ batch'[i] = batch[i]
                                      /\ Before(batch', i) = Before(batch, i)
PROOF
<1>1. /\ batch' \in Seq(Track) /\ Len(batch') = Len(batch) + 1
      /\ DOMAIN batch' = 1..Len(batch) + 1 /\ DOMAIN batch = 1..Len(batch)
      /\ Len(batch) \in Nat
      /\ batch'[Len(batch) + 1] = t
      /\ \A i \in 1..Len(batch) : batch'[i] = batch[i]
  OBVIOUS
<1>2. DOMAIN batch' = DOMAIN batch \cup {Len(batch) + 1}
  BY <1>1
<1>3. Members(batch') = Members(batch) \cup {t}
  BY <1>1, <1>2 DEF Members
<1>4. Before(batch', Len(batch) + 1) = Members(batch)
  BY <1>1 DEF Members, Before
<1>5. \A i \in DOMAIN batch : Before(batch', i) = Before(batch, i)
  BY <1>1 DEF Before
<1> QED BY <1>1, <1>2, <1>3, <1>4, <1>5

-----------------------------------------------------------------------------
(* The slot.                                                               *)

\* What the slot draws from, over the working copy, is what IsPick says is left.
LEMMA SlotIsLeft ==
    ASSUME PoolControl, drop \in Nat
    PROVE  Slot = Left(drop)
PROOF
<1> DEFINE B == Banned(banlist, drop)
<1>1. /\ working = Pool \ (Found \cup Taken) /\ Found \cap B = {}
      /\ skip0 \subseteq skip /\ Found \subseteq Pool
  BY DEF PoolControl
<1>2. (B \cap working) \cup Taken = (B \cap Pool) \cup Taken
  BY <1>1
<1>3. Silenced(working, B, Taken) = Silenced(Pool, B, Taken)
  BY <1>2 DEF Silenced
<1>4. Slot = {t \in working \ (B \cup Taken) : Performer[t] \notin Silenced(Pool, B, Taken)} \ skip
  BY <1>3 DEF Slot, Open, Taken
<1>5. Left(drop) = {t \in Pool \ (B \cup Taken) : Performer[t] \notin Silenced(Pool, B, Taken)} \ Found
  BY DEF Left, OpenAt, Open
<1> HIDE DEF B
<1>6. \A t : t \in working /\ t \notin Taken /\ t \notin skip
             <=> t \in Pool /\ t \notin Taken /\ t \notin Found
  BY <1>1 DEF Pool, Found
<1> QED BY <1>4, <1>5, <1>6

-----------------------------------------------------------------------------
(* The actions.                                                            *)

\* An action that leaves the arguments, the batch and what was refused alone.
LEMMA SameSlots ==
    ASSUME UNCHANGED <<args, skip, batch>>
    PROVE  /\ Pool' = Pool /\ Found' = Found /\ Taken' = Taken
           /\ LastDrop' = LastDrop /\ Enough' = Enough
           /\ \A d : Left(d)' = Left(d)
           /\ DrawnControl' = DrawnControl
           /\ \A i, d : Drawn(i, d)' = Drawn(i, d) /\ Exhausted(i, d)' = Exhausted(i, d)
BY DEF args, Pool, Found, Taken, LastDrop, Enough, Left, OpenAt, DrawnControl, Drawn, Exhausted

LEMMA BeginInv ==
    ASSUME IInv, Begin
    PROVE  IInv'
PROOF
<1> USE DEF IInv
<1>1. /\ UNCHANGED <<args, skip, batch>> /\ UNCHANGED <<args, skip, working, batch, drop>>
      /\ Len(batch) < BatchSize /\ graph' = Slot /\ tries' = 0 /\ pc' = "draw"
  BY DEF Begin
<1>2. drop \in Nat /\ PickAttempts \in Nat
  BY LastDropType, RadioPickerAssumption DEF TypeOK, PoolControl, LastDrop
<1>3. Slot = Left(drop)
  BY <1>2, SlotIsLeft
<1>4. Slot \subseteq working
  BY DEF Slot, Open
<1>5. TypeOK'
  BY <1>1, <1>2, <1>4 DEF TypeOK, args, Batches
<1>6. PoolControl'
  <2>1. Left(drop)' = Left(drop)
    BY <1>1 DEF args, Left, OpenAt, Pool, Found, Taken
  <2> QED BY <1>1, <1>3, <2>1 DEF PoolControl, args, Pool, Found, Taken
<1>7. DrawnControl'
  BY <1>1, SameSlots
<1>8. TriesControl'
  <2> SUFFICES ASSUME IsFiniteSet(catalog)
               PROVE  Cardinality(Slot) <= Cardinality(catalog) /\ 0 <= Cardinality(Found)
    <3>1. Cardinality(Slot) + 0 = Cardinality(Slot) \/ ~IsFiniteSet(catalog)
      <4>1. Slot \subseteq catalog
        BY <1>4 DEF PoolControl, Pool
      <4> QED BY <4>1, FS_Subset, FS_CardinalityType
    <3> QED BY <1>1, <3>1 DEF TriesControl, args, Found
  <2>1. Slot \subseteq catalog /\ Found \subseteq catalog
    BY <1>4 DEF PoolControl, Pool
  <2>2. Cardinality(Slot) <= Cardinality(catalog) /\ Cardinality(Found) \in Nat
    BY <2>1, FS_Subset, FS_CardinalityType
  <2> QED BY <2>2
<1>9. LooseControl'
  BY <1>1, SameSlots DEF LooseControl
<1> QED BY <1>5, <1>6, <1>7, <1>8, <1>9

LEMMA TakeInv ==
    ASSUME IInv, Take
    PROVE  IInv'
PROOF
<1> USE DEF IInv
<1>1. PICK t \in graph \ bad : /\ batch' = Append(batch, t) /\ working' = working \ {t}
  BY DEF Take
<1>2. /\ pc = "draw" /\ graph' = {} /\ pc' = "slot"
      /\ UNCHANGED <<args, skip, drop, tries>> /\ UNCHANGED args
  BY DEF Take
<1>3. /\ graph = Left(drop) /\ Len(batch) < BatchSize /\ drop \in 0..LastDrop
      /\ working = Pool \ (Found \cup Taken) /\ catalog \subseteq Track
      /\ LastDrop \in Nat /\ skip0 \subseteq catalog
  BY <1>2, LastDropType DEF PoolControl, TypeOK, LastDrop
<1>4. t \in OpenAt(drop) /\ t \notin Found /\ t \in Pool /\ t \in Track
  BY <1>1, <1>3 DEF Left, OpenAt, Open, Pool
<1>5. batch \in Seq(Track) /\ Len(batch) <= BatchSize /\ BatchSize \in Nat /\ Len(batch) \in Nat
  BY BatchesSay, RadioPickAssumption DEF TypeOK
<1>len. PICK n \in Nat : n = Len(batch) + 1
  BY <1>5
<1>6. /\ batch' \in Seq(Track) /\ Len(batch') = n
      /\ Taken' = Taken \cup {t}
      /\ DOMAIN batch' = DOMAIN batch \cup {n}
      /\ batch'[n] = t
      /\ Before(batch', n) = Taken
      /\ \A i \in DOMAIN batch : /\ batch'[i] = batch[i]
                                 /\ Before(batch', i) = Before(batch, i)
  BY <1>1, <1>4, <1>5, <1>len, AppendedSays DEF Taken
<1>7. /\ Pool' = Pool /\ Found' = Found /\ LastDrop' = LastDrop /\ Enough' = Enough
      /\ \A d : Banned(banlist, d)' = Banned(banlist, d)
  BY <1>2 DEF args, Pool, Found, LastDrop, Enough
<1>8. TypeOK'
  <2>1. batch' \in Batches(Track)
    BY <1>3, <1>5, <1>6, <1>len, BatchesSay
  <2> QED BY <1>1, <1>2, <2>1 DEF TypeOK, args
<1>9. PoolControl'
  <2>1. Taken' \subseteq Pool \ bad
    BY <1>1, <1>4, <1>6 DEF PoolControl
  <2>2. working' = Pool \ (Found \cup Taken')
    BY <1>1, <1>3, <1>6
  <2> QED BY <1>2, <1>7, <2>1, <2>2 DEF PoolControl, args
<1>10. \A d : Drawn(n, d)' <=> t \in OpenAt(d)
  BY <1>6, <1>7 DEF Drawn, OpenAt
<1>11. \A i \in DOMAIN batch : \A d : Drawn(i, d)' <=> Drawn(i, d)
  BY <1>6, <1>7 DEF Drawn
<1>12. DrawnControl'
  <2>1. \A i \in DOMAIN batch : \E d \in 0..LastDrop' : Drawn(i, d)'
    BY <1>7, <1>11 DEF DrawnControl
  <2>2. \E d \in 0..LastDrop' : Drawn(n, d)'
    BY <1>3, <1>4, <1>7, <1>10
  <2> QED BY <1>6, <2>1, <2>2 DEF DrawnControl
<1>13. TriesControl'
  BY <1>2 DEF TriesControl
<1>14. LooseControl'
  <2> SUFFICES ASSUME Enough
               PROVE  /\ \A e \in 0..(drop - 1) : Left(e)' = {}
                      /\ \A i \in DOMAIN batch' :
                             \E d \in 0..LastDrop : Drawn(i, d)' /\ Exhausted(i, d)'
    BY <1>2, <1>7 DEF LooseControl
  <2>1. \A e \in 0..(drop - 1) : Left(e) = {}
    BY DEF LooseControl
  <2>2. \A e : Left(e)' \subseteq Left(e)
    <3> TAKE e
    <3>1. Open(Pool, Banned(banlist, e), Taken') \subseteq Open(Pool, Banned(banlist, e), Taken)
      BY <1>6, OpenShrinks
    <3>2. /\ Left(e)' = Open(Pool, Banned(banlist, e), Taken') \ Found
          /\ Left(e) = Open(Pool, Banned(banlist, e), Taken) \ Found
      BY <1>7 DEF Left, OpenAt
    <3> QED BY <3>1, <3>2
  <2>3. \A i \in DOMAIN batch : \A d : Exhausted(i, d)' <=> Exhausted(i, d)
    BY <1>6, <1>7 DEF Exhausted
  <2>4. \A i \in DOMAIN batch : \E d \in 0..LastDrop : Drawn(i, d)' /\ Exhausted(i, d)'
    <3>1. \A i \in DOMAIN batch : \E d \in 0..LastDrop : Drawn(i, d) /\ Exhausted(i, d)
      BY DEF LooseControl
    <3> QED BY <1>11, <2>3, <3>1
  <2>5. PICK k \in 0..LastDrop : k = drop
    BY <1>3
  <2>6. Drawn(n, k)' /\ Exhausted(n, k)'
    <3>1. \A e \in 0..(k - 1) : Open(Pool, Banned(banlist, e), Taken) \subseteq Found
      BY <2>1, <2>5 DEF Left, OpenAt
    <3>2. Exhausted(n, k)'
      BY <1>6, <1>7, <3>1 DEF Exhausted
    <3>3. Drawn(n, k)'
      BY <1>4, <1>10, <2>5
    <3> QED BY <3>2, <3>3
  <2>7. \E d \in 0..LastDrop : Drawn(n, d)' /\ Exhausted(n, d)'
    BY <2>5, <2>6
  <2> QED BY <1>6, <2>1, <2>2, <2>4, <2>7
<1> QED BY <1>8, <1>9, <1>12, <1>13, <1>14

LEMMA RefuseInv ==
    ASSUME IInv, Refuse
    PROVE  IInv'
PROOF
<1> USE DEF IInv
<1>1. PICK t \in graph \cap bad :
          skip' = skip \cup {t} /\ working' = working \ {t} /\ graph' = graph \ {t}
  BY DEF Refuse
<1>2. /\ pc = "draw" /\ pc' = pc /\ tries < PickAttempts /\ tries' = tries + 1
      /\ UNCHANGED <<args, batch, drop>> /\ UNCHANGED args
  BY DEF Refuse
<1>3. /\ graph = Left(drop) /\ drop \in 0..LastDrop /\ LastDrop \in Nat /\ drop \in Nat
      /\ tries \in Nat /\ PickAttempts \in Nat
  BY <1>2, LastDropType, RadioPickerAssumption DEF PoolControl, TypeOK, LastDrop
<1>4. /\ t \in Pool /\ t \notin Banned(banlist, drop) /\ t \notin Taken /\ t \notin Found
      /\ t \in bad /\ t \in catalog /\ t \notin skip0 /\ t \in Track
  BY <1>1, <1>3 DEF Left, OpenAt, Open, Pool, PoolControl
<1>5. /\ Pool' = Pool /\ LastDrop' = LastDrop /\ Enough' = Enough /\ Taken' = Taken
      /\ \A d : OpenAt(d)' = OpenAt(d)
      /\ \A i, d : Drawn(i, d)' = Drawn(i, d)
  BY <1>2 DEF args, Pool, LastDrop, Enough, Taken, OpenAt, Drawn
<1>6. Found' = Found \cup {t}
  BY <1>1, <1>2, <1>4 DEF Found, args
<1>7. \A d : Left(d)' = Left(d) \ {t}
  BY <1>5, <1>6 DEF Left
<1>8. TypeOK'
  BY <1>1, <1>2, <1>3, <1>4, <1>5 DEF TypeOK, args, LastDrop
<1>9. PoolControl'
  <2>1. Found' \cap Banned(banlist, drop)' = {}
    BY <1>2, <1>4, <1>6 DEF PoolControl, args
  <2>2. graph' = Left(drop)'
    BY <1>1, <1>2, <1>3, <1>5, <1>6 DEF Left, OpenAt
  <2>3. working' = Pool' \ (Found' \cup Taken')
    BY <1>1, <1>5, <1>6 DEF PoolControl
  <2> QED BY <1>1, <1>2, <1>4, <1>5, <1>6, <2>1, <2>2, <2>3 DEF PoolControl, args
<1>10. DrawnControl'
  BY <1>2, <1>5 DEF DrawnControl
<1>11. TriesControl'
  <2> SUFFICES ASSUME IsFiniteSet(catalog)
               PROVE  /\ Cardinality(graph \ {t}) + (tries + 1) <= Cardinality(catalog)
                      /\ tries + 1 <= Cardinality(Found \cup {t})
    BY <1>1, <1>2, <1>6 DEF TriesControl, args
  <2>1. graph \subseteq catalog /\ Found \subseteq catalog
    BY DEF TypeOK, PoolControl, Pool
  <2>2. IsFiniteSet(graph) /\ IsFiniteSet(Found)
    BY <2>1, FS_Subset
  <2>3. /\ Cardinality(graph) \in Nat /\ Cardinality(Found) \in Nat
        /\ Cardinality(catalog) \in Nat
    BY <2>2, FS_CardinalityType
  <2>4. Cardinality(graph \ {t}) = Cardinality(graph) - 1
    BY <1>1, <2>2, FS_RemoveElement
  <2>5. Cardinality(Found \cup {t}) = Cardinality(Found) + 1
    BY <1>4, <2>2, FS_AddElement
  <2>6. /\ Cardinality(graph) + tries <= Cardinality(catalog)
        /\ tries <= Cardinality(Found)
    BY <1>2 DEF TriesControl
  <2> QED BY <1>3, <2>3, <2>4, <2>5, <2>6
<1>12. LooseControl'
  <2>1. \A i, d : Exhausted(i, d) => Exhausted(i, d)'
    BY <1>2, <1>5, <1>6 DEF Exhausted, args
  <2>2. Enough => \A e \in 0..(drop - 1) : Left(e)' = {}
    BY <1>7 DEF LooseControl
  <2>3. Enough => \A i \in DOMAIN batch :
                      \E d \in 0..LastDrop : Drawn(i, d)' /\ Exhausted(i, d)'
    BY <1>5, <2>1 DEF LooseControl
  <2> QED BY <1>2, <1>5, <2>2, <2>3 DEF LooseControl
<1> QED BY <1>8, <1>9, <1>10, <1>11, <1>12

\* A slot gives up when nothing is left, if it had draws enough.
LEMMA StuckSays ==
    ASSUME IInv, Enough, Stuck
    PROVE  Left(drop) = {}
PROOF
<1>1. drop \in Nat /\ tries \in Nat /\ PickAttempts \in Nat
  BY LastDropType, RadioPickerAssumption DEF IInv, TypeOK, PoolControl, LastDrop
<1>2. CASE pc = "slot" /\ Slot = {}
  BY <1>1, <1>2, SlotIsLeft DEF IInv
<1>3. CASE pc = "draw" /\ graph = {}
  BY <1>3 DEF IInv, PoolControl
<1>4. CASE pc = "draw" /\ tries = PickAttempts
  <2>1. graph \subseteq catalog /\ Found \subseteq bad /\ bad \subseteq catalog /\ graph = Left(drop)
    BY <1>4 DEF IInv, TypeOK, PoolControl, Pool
  <2>2. IsFiniteSet(catalog) /\ IsFiniteSet(graph) /\ IsFiniteSet(bad) /\ IsFiniteSet(Found)
    BY <2>1, FS_Subset DEF Enough
  <2>3. /\ Cardinality(graph) \in Nat /\ Cardinality(catalog) \in Nat
        /\ Cardinality(bad) \in Nat /\ Cardinality(Found) \in Nat
    BY <2>2, FS_CardinalityType
  <2>4. /\ Cardinality(graph) + tries <= Cardinality(catalog)
        /\ tries <= Cardinality(Found)
    BY <1>4, <2>2 DEF IInv, TriesControl
  <2>5. Cardinality(Found) <= Cardinality(bad)
    BY <2>1, <2>2, FS_Subset
  <2>6. Cardinality(graph) = 0
    BY <1>1, <1>4, <2>3, <2>4, <2>5 DEF Enough
  <2> QED BY <2>1, <2>2, <2>6, FS_EmptySet
<1> QED BY <1>2, <1>3, <1>4 DEF Stuck

LEMMA LoosenInv ==
    ASSUME IInv, Loosen
    PROVE  IInv'
PROOF
<1>1. /\ Stuck /\ drop < LastDrop /\ drop' = drop + 1 /\ graph' = {} /\ pc' = "slot"
      /\ UNCHANGED <<args, skip, working, batch, tries>> /\ UNCHANGED <<args, skip, batch>>
  BY DEF Loosen, Loosened
<1>2. drop \in Nat /\ LastDrop \in Nat /\ banlist \in Banlist
  BY LastDropType DEF IInv, TypeOK, PoolControl, LastDrop
<1>3. TypeOK'
  BY <1>1, <1>2 DEF IInv, TypeOK, args, LastDrop
<1>4. PoolControl'
  <2>1. Banned(banlist, drop + 1) \subseteq Banned(banlist, drop)
    BY <1>2, BannedShrinks
  <2>2. (Found \cap Banned(banlist, drop))' = {}
    BY <1>1, <2>1 DEF IInv, PoolControl, Found, args
  <2> QED BY <1>1, <2>2 DEF IInv, PoolControl, args, Pool, Found, Taken
<1>5. DrawnControl'
  BY <1>1, SameSlots DEF IInv
<1>6. TriesControl'
  BY <1>1 DEF TriesControl
<1>7. LooseControl'
  <2>1. Enough => Left(drop) = {}
    BY <1>1, StuckSays
  <2>2. Enough => \A e \in 0..drop : Left(e) = {}
    <3>1. \A e \in 0..drop : e = drop \/ e \in 0..(drop - 1)
      BY <1>2
    <3> QED BY <2>1, <3>1 DEF IInv, LooseControl
  <2>3. drop' - 1 = drop
    BY <1>1, <1>2
  <2> QED BY <1>1, <2>2, <2>3, SameSlots DEF IInv, LooseControl
<1> QED BY <1>3, <1>4, <1>5, <1>6, <1>7 DEF IInv

LEMMA StopInv ==
    ASSUME IInv, Stop
    PROVE  IInv'
PROOF
<1>1. /\ graph' = {} /\ pc' = "done"
      /\ UNCHANGED <<args, skip, working, batch, drop, tries>> /\ UNCHANGED <<args, skip, batch>>
      /\ Len(batch) = BatchSize \/ (Stuck /\ drop = LastDrop)
  BY DEF Stop
<1>2. TypeOK'
  BY <1>1 DEF IInv, TypeOK, args, LastDrop
<1>3. PoolControl'
  BY <1>1 DEF IInv, PoolControl, args, Pool, Found, Taken
<1>4. DrawnControl'
  BY <1>1, SameSlots DEF IInv
<1>5. TriesControl'
  BY <1>1 DEF TriesControl
<1>6. LooseControl'
  <2>1. Enough => Len(batch) = BatchSize \/ (drop = LastDrop /\ Left(drop) = {})
    BY <1>1, StuckSays
  <2>2. Left(drop)' = Left(drop)
    BY <1>1 DEF args, Left, OpenAt, Pool, Found, Taken
  <2> QED BY <1>1, <2>1, <2>2, SameSlots DEF IInv, LooseControl
<1> QED BY <1>2, <1>3, <1>4, <1>5, <1>6 DEF IInv

LEMMA InitInv == Init => IInv
PROOF
<1> SUFFICES ASSUME Init PROVE IInv
  OBVIOUS
<1> USE DEF Init
<1>1. Found = {} /\ DOMAIN batch = {} /\ Len(batch) = 0 /\ Taken = {} /\ batch \in Seq(Track)
  BY DEF Found, Taken, Members
<1>2. BatchSize \in Nat /\ PickAttempts \in Nat /\ LastDrop \in Nat
  BY RadioPickAssumption, RadioPickerAssumption, LastDropType
<1>3. TypeOK
  <2>1. Len(batch) <= BatchSize
    BY <1>1, <1>2
  <2>2. batch \in Batches(Track)
    BY <1>1, <2>1, BatchesSay
  <2> QED BY <1>2, <2>2 DEF TypeOK, LastDrop
<1>4. PoolControl
  BY <1>1 DEF PoolControl, Pool
<1>5. DrawnControl /\ TriesControl /\ LooseControl
  BY <1>1 DEF DrawnControl, TriesControl, LooseControl
<1> QED BY <1>3, <1>4, <1>5 DEF IInv

LEMMA NextInv == IInv /\ [Next]_vars => IInv'
PROOF
<1> SUFFICES ASSUME IInv, [Next]_vars PROVE IInv'
  OBVIOUS
<1>1. CASE UNCHANGED vars
  BY <1>1 DEF vars, IInv, TypeOK, PoolControl, DrawnControl, TriesControl, LooseControl, Pool,
              Found, Taken, LastDrop, Left, OpenAt, Enough, Drawn, Exhausted
<1>2. CASE Done
  BY <1>1, <1>2 DEF Done
<1> QED BY <1>1, <1>2, BeginInv, TakeInv, RefuseInv, LoosenInv, StopInv DEF Next

-----------------------------------------------------------------------------
(* What the picker promises.                                               *)

\* What the loop relies on holds in every state, for every catalog, banlist, skip
\* set and set of unreadable files.
THEOREM Inductive == Spec => []IInv
BY InitInv, NextInv, PTL DEF Spec

\* The batch being built is a sequence of tracks, and the counters of draws and of
\* loosenings stay in their ranges.
THEOREM TypeCorrect == Spec => []TypeOK
PROOF
<1>1. IInv => TypeOK
  BY DEF IInv
<1> QED BY <1>1, Inductive, PTL

\* No performer plays twice in a batch, except Various Artists, and no file
\* that the probe refused gets in, however far the banlist was loosened.
THEOREM PerformersDiffer == Spec => []OnePerPerformer
PROOF
<1>1. IInv => OnePerPerformer
  <2> SUFFICES ASSUME IInv PROVE OnePerPerformer
    OBVIOUS
  <2>1. batch \in Seq(Track)
    BY BatchesSay DEF IInv, TypeOK
  <2>2. \A i \in DOMAIN batch : batch[i] \in Pool \ bad /\ batch[i] \notin bad \cup skip
    <3> TAKE i \in DOMAIN batch
    <3>1. batch[i] \in Taken
      BY DEF Taken, Members
    <3> QED BY <3>1 DEF IInv, PoolControl, Found, Pool
  <2>3. ASSUME NEW i \in DOMAIN batch, NEW j \in DOMAIN batch, i < j
        PROVE  /\ batch[i] # batch[j]
               /\ Performer[batch[i]] = Performer[batch[j]] => Performer[batch[i]] = VA
    <3>1. batch[i] \in Before(batch, j)
      BY <2>1, <2>3 DEF Before
    <3>2. PICK d \in 0..LastDrop : Drawn(j, d)
      BY DEF IInv, DrawnControl
    <3> QED BY <3>1, <3>2 DEF Drawn, Open, Silenced
  <2>4. ASSUME NEW i \in DOMAIN batch, NEW j \in DOMAIN batch
        PROVE  /\ Performer[batch[i]] = Performer[batch[j]] => i = j \/ Performer[batch[i]] = VA
               /\ i # j => batch[i] # batch[j]
    <3>1. i = j \/ i < j \/ j < i
      BY <2>1
    <3> QED BY <2>3, <3>1
  <2> QED BY <2>2, <2>4 DEF OnePerPerformer
<1> QED BY <1>1, Inductive, PTL

\* What the loop returns is a pick: with the tracks it refused, every track was
\* drawn at the first loosening that leaves one, and a short batch means that
\* nothing is left.
LEMMA PickReturned ==
    ASSUME IInv, Enough
    PROVE  ReturnsAPick
PROOF
<1> SUFFICES ASSUME pc = "done"
             PROVE  IsPick(catalog, banlist, skip0, bad, batch, Found)
  BY DEF ReturnsAPick, Found
<1> DEFINE left(d, taken) == Open(Pool, Banned(banlist, d), taken) \ Found
           drops(taken) == {d \in 0..LastDrop : left(d, taken) # {}}
<1>1. batch \in Seq(Track) /\ Len(batch) <= BatchSize
  BY BatchesSay DEF IInv, TypeOK
<1>2. Found \subseteq bad \cap Pool
  BY DEF IInv, PoolControl
<1>3. LastDrop \in Nat
  BY LastDropType DEF IInv, PoolControl
<1>4. ASSUME NEW i \in DOMAIN batch
      PROVE  /\ batch[i] \notin bad
             /\ drops(Before(batch, i)) # {}
             /\ batch[i] \in left(Least(drops(Before(batch, i))), Before(batch, i))
  <2>1. batch[i] \notin bad /\ batch[i] \notin Found
    <3>1. batch[i] \in Taken
      BY DEF Taken, Members
    <3> QED BY <3>1, <1>2 DEF IInv, PoolControl
  <2>2. PICK d \in 0..LastDrop : Drawn(i, d) /\ Exhausted(i, d)
    BY DEF IInv, LooseControl
  <2> DEFINE open == drops(Before(batch, i))
  <2>3. batch[i] \in left(d, Before(batch, i))
    BY <2>1, <2>2 DEF Drawn
  <2>4. d \in open
    BY <2>3
  <2>5. \A e \in open : d <= e
    <3> SUFFICES ASSUME NEW e \in open, ~(d <= e) PROVE FALSE
      OBVIOUS
    <3>1. e \in 0..(d - 1) /\ left(e, Before(batch, i)) # {}
      BY <1>3
    <3> QED BY <2>2, <3>1 DEF Exhausted
  <2>6. open \subseteq Nat
    OBVIOUS
  <2> HIDE DEF open
  <2>7. Least(open) = d
    <3>1. \E m \in open : \A e \in open : m <= e
      BY <2>4, <2>5
    <3>2. Least(open) \in open /\ \A e \in open : Least(open) <= e
      BY <3>1 DEF Least
    <3>3. Least(open) \in Nat /\ d \in Nat
      BY <2>4, <2>6, <3>2
    <3>4. d <= Least(open) /\ Least(open) <= d
      BY <2>4, <2>5, <3>2
    <3> QED BY <3>3, <3>4
  <2> HIDE DEF drops, left
  <2> QED BY <2>1, <2>3, <2>4, <2>7 DEF open
<1>5. Len(batch) < BatchSize => left(LastDrop, Members(batch)) = {}
  <2>1. Len(batch) = BatchSize \/ (drop = LastDrop /\ Left(drop) = {})
    BY DEF IInv, LooseControl
  <2>2. BatchSize \in Nat /\ Len(batch) \in Nat
    BY <1>1, RadioPickAssumption
  <2> QED BY <2>1, <2>2 DEF Left, OpenAt, Taken
<1> HIDE DEF drops, left
<1>6. IsPick(catalog, banlist, skip0, bad, batch, Found)
        <=> /\ Found \subseteq bad \cap Pool
            /\ Len(batch) <= BatchSize
            /\ \A i \in DOMAIN batch :
                   /\ batch[i] \notin bad
                   /\ drops(Before(batch, i)) # {}
                   /\ batch[i] \in left(Least(drops(Before(batch, i))), Before(batch, i))
            /\ Len(batch) < BatchSize => left(LastDrop, Members(batch)) = {}
  BY DEF IsPick, drops, left, Pool, LastDrop
<1> QED BY <1>1, <1>2, <1>4, <1>5, <1>6

\* The arguments of a call do not change.
LEMMA EnoughStays == Enough /\ [Next]_vars => Enough'
PROOF
<1>1. [Next]_vars => UNCHANGED args
  BY DEF vars, args, Next, Begin, Take, Refuse, Loosen, Stop, Done
<1> QED BY <1>1 DEF args, Enough

\* The drawing loop returns what IsPick allows, as long as a slot has draws
\* enough for the unreadable files it meets.
THEOREM LoopPicks == Enough /\ Spec => []ReturnsAPick
PROOF
<1>1. Enough /\ Spec => []Enough
  BY EnoughStays, PTL DEF Spec
<1>2. IInv /\ Enough => ReturnsAPick
  BY PickReturned
<1> QED BY <1>1, <1>2, Inductive, PTL

\* Under the same condition an empty batch means that nothing of the catalog can
\* be played.
THEOREM IdleMeansNothing == Enough /\ Spec => []EmptyMeansNothing
PROOF
<1>1. ASSUME IInv, Enough
      PROVE  EmptyMeansNothing
  <2> SUFFICES ASSUME pc = "done", batch = <<>>
               PROVE  catalog \ (skip0 \cup bad) = {}
    BY DEF EmptyMeansNothing
  <2>1. drop = LastDrop /\ Left(drop) = {}
    <3>1. Len(batch) # BatchSize
      BY RadioPickAssumption
    <3> QED BY <1>1, <3>1 DEF IInv, LooseControl
  <2>2. LastDrop \in Nat
    BY <1>1, LastDropType DEF IInv, PoolControl
  <2>3. Banned(banlist, LastDrop) = {}
    BY <2>2 DEF Banned, LastDrop
  <2>4. Taken = {}
    BY DEF Taken, Members
  <2>5. OpenAt(LastDrop) = Pool
    BY <2>3, <2>4 DEF OpenAt, Open, Silenced
  <2> QED BY <1>1, <2>1, <2>5 DEF Left, IInv, PoolControl, Pool
<1>2. IInv /\ Enough => EmptyMeansNothing
  BY <1>1
<1>3. Enough /\ Spec => []Enough
  BY EnoughStays, PTL DEF Spec
<1> QED BY <1>2, <1>3, Inductive, PTL

-----------------------------------------------------------------------------
(* The loop in the station's place.                                        *)

\* Of what it is asked to skip and of the unreadable files the loop sees those
\* in the catalog; what it returns does not depend on the others.
LEMMA PickedAmong ==
    ASSUME NEW skips, NEW unread, IInv, ReturnsAPick, pc = "done",
           skip0 = skips \cap catalog, bad = unread \cap (catalog \ skips)
    PROVE  <<batch, skip \ skip0>> \in Picks(catalog, banlist, skips, unread)
PROOF
<1>1. catalog \ skip0 = catalog \ skips
  OBVIOUS
<1>2. IsPick(catalog, banlist, skip0, bad, batch, skip \ skip0)
  BY DEF ReturnsAPick
<1>3. skip \ skip0 \subseteq bad \cap (catalog \ skips) /\ bad \subseteq unread
  BY <1>1, <1>2 DEF IsPick
<1>4. batch \in Seq(catalog \ (skips \cup unread)) /\ Len(batch) <= BatchSize
  <2>1. batch \in Seq(Track) /\ Len(batch) <= BatchSize
    BY BatchesSay DEF IInv, TypeOK
  <2>2. \A i \in DOMAIN batch : batch[i] \in catalog \ (skips \cup unread)
    BY <1>1 DEF IInv, PoolControl, Taken, Members, Pool
  <2> QED BY <2>1, <2>2
<1>5. \A i \in DOMAIN batch : batch[i] \notin unread
  BY <1>4
<1>6. IsPick(catalog, banlist, skips, unread, batch, skip \ skip0)
  <2>1. skip \ skip0 \subseteq unread \cap (catalog \ skips)
    BY <1>3
  <2> QED BY <1>1, <1>2, <1>5, <2>1 DEF IsPick
<1>7. batch \in Batches(catalog \ (skips \cup unread))
  BY <1>4, BatchesSay
<1> QED BY <1>3, <1>6, <1>7 DEF Picks

\* What the loop returns to a station that asks it to skip skips, with unread the
\* files that cannot be read, is one of the picks that the station takes its
\* next batch from (Picked of RadioStation).
THEOREM LoopServesStation ==
    ASSUME NEW CONSTANT skips, NEW CONSTANT unread
    PROVE  Enough /\ Spec /\ skip0 = skips \cap catalog /\ bad = unread \cap (catalog \ skips)
           => [](pc = "done" => <<batch, skip \ skip0>> \in Picks(catalog, banlist, skips, unread))
PROOF
<1> DEFINE Asked == skip0 = skips \cap catalog /\ bad = unread \cap (catalog \ skips)
           Served == pc = "done" => <<batch, skip \ skip0>> \in Picks(catalog, banlist, skips, unread)
<1>1. Asked /\ [Next]_vars => Asked'
  BY DEF vars, args, Next, Begin, Take, Refuse, Loosen, Stop, Done
<1>2. IInv /\ ReturnsAPick /\ Asked => Served
  BY PickedAmong
<1> HIDE DEF Asked, Served
<1>3. Enough /\ Spec /\ Asked => []Served
  BY <1>1, <1>2, Inductive, LoopPicks, PTL DEF Spec
<1> QED BY <1>3 DEF Asked, Served

-----------------------------------------------------------------------------
(* The loop ends.                                                          *)

LEMMA Bounds ==
    ASSUME IInv
    PROVE  /\ batch \in Seq(Track) /\ Len(batch) \in Nat /\ Len(batch) <= BatchSize
           /\ BatchSize \in Nat /\ PickAttempts \in Nat /\ LastDrop \in Nat
           /\ drop \in 0..LastDrop /\ tries \in 0..PickAttempts
PROOF
<1>1. batch \in Seq(Track) /\ Len(batch) <= BatchSize
  BY BatchesSay DEF IInv, TypeOK
<1>2. LastDrop \in Nat
  BY LastDropType DEF IInv, PoolControl
<1>3. drop \in 0..LastDrop /\ tries \in 0..PickAttempts
  BY DEF IInv, TypeOK, LastDrop
<1> QED BY <1>1, <1>2, <1>3, RadioPickAssumption, RadioPickerAssumption

\* Slots, loosenings and draws that are left are numbers, so that there is an end
\* to what shrinks.
THEOREM BudgetIsFinite == Spec => []Budget
PROOF
<1>1. IInv => Budget
  BY Bounds DEF Budget, SlotsLeft, DropsLeft, DrawsLeft
<1> QED BY <1>1, Inductive, PTL

\* Every step of the drawing loop takes a track, loosens the banlist or uses up a
\* draw, and gives back none of those before it: however the probe answers, the
\* loop cannot go round for ever.
THEOREM LoopShrinks == Spec => EveryStepShrinks
PROOF
<1>1. ASSUME IInv, [Next]_vars
      PROVE  [Shrinks]_vars
  <2> USE Bounds
  <2>1. CASE Begin
    BY <1>1, <2>1 DEF Begin, Shrinks, SlotsLeft, DropsLeft, DrawsLeft, args, LastDrop
  <2>2. CASE Take
    <3>1. PICK t \in graph \ bad : batch' = Append(batch, t)
      BY <2>2 DEF Take
    <3>2. Len(batch') = Len(batch) + 1
      BY <1>1, <3>1
    <3> QED BY <1>1, <3>2 DEF Shrinks, SlotsLeft
  <2>3. CASE Refuse
    BY <1>1, <2>3 DEF Refuse, Shrinks, SlotsLeft, DropsLeft, DrawsLeft, args, LastDrop
  <2>4. CASE Loosen
    <3>1. drop' = drop + 1 /\ batch' = batch /\ LastDrop' = LastDrop
      BY <2>4 DEF Loosen, Loosened, args, LastDrop
    <3> QED BY <1>1, <3>1 DEF Shrinks, SlotsLeft, DropsLeft
  <2>5. CASE Stop
    <3>1. pc \in {"slot", "draw"} /\ pc' = "done" /\ batch' = batch /\ drop' = drop
          /\ LastDrop' = LastDrop
      BY <2>5 DEF Stop, Stuck, args, LastDrop
    <3> QED BY <1>1, <3>1 DEF Shrinks, SlotsLeft, DropsLeft, DrawsLeft
  <2>6. CASE Done \/ UNCHANGED vars
    BY <2>6 DEF Done
  <2> QED BY <1>1, <2>1, <2>2, <2>3, <2>4, <2>5, <2>6 DEF Next
<1> QED BY <1>1, Inductive, PTL DEF Spec, EveryStepShrinks
=============================================================================
