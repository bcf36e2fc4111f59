-------------------------- MODULE RadioStationProofs --------------------------
(***************************************************************************)
(* Proofs about RadioStation: the clock keeps its place, numbers its       *)
(* batches ahead and starts in the past, the rows and the public face are  *)
(* the station's, for any catalog, any durations and any bounds.           *)
(***************************************************************************)
EXTENDS RadioStation, WellFoundedInduction, TLAPS

-----------------------------------------------------------------------------
(* Least elements and filtered sequences.                                  *)

LEMMA LeastExists ==
    ASSUME NEW S, S \subseteq Nat, S # {}
    PROVE  \E k \in S : \A i \in S : k <= i
PROOF
<1> DEFINE R == {p \in Nat \X Nat : p[1] < p[2]}
<1>1. IsWellFoundedOn(R, Nat)
  BY NatLessThanWellFounded DEF OpToRel
<1>2. \A i, k \in Nat : <<i, k>> \in R <=> i < k
  OBVIOUS
<1> HIDE DEF R
<1>3. PICK k \in S : \A i \in S : ~(<<i, k>> \in R)
  BY <1>1, WFMin
<1>4. \A i \in S : k <= i
  <2> TAKE i \in S
  <2>1. i \in Nat /\ k \in Nat /\ ~(<<i, k>> \in R)
    BY <1>3
  <2>2. ~(i < k)
    BY <1>2, <2>1
  <2> QED BY <2>1, <2>2
<1> QED BY <1>4

\* The first place of an item, and the last number of a set below a bound.
LEMMA FirstOfSays ==
    ASSUME NEW items \in Seq(Track), NEW t \in Members(items)
    PROVE  FirstOf(items, t) \in DOMAIN items /\ items[FirstOf(items, t)] = t
PROOF
<1> DEFINE S == {i \in DOMAIN items : items[i] = t}
<1>1. S \subseteq Nat /\ S # {}
  BY DEF Members
<1>2. \E k \in S : \A i \in S : k <= i
  BY <1>1, LeastExists
<1>3. Least(S) \in S
  BY <1>2 DEF Least
<1> QED BY <1>3 DEF FirstOf

\* A sequence cut after one of its places, and what stands after it.
LEMMA CutSays ==
    ASSUME NEW S, NEW e \in Seq(S), NEW m \in DOMAIN e
    PROVE  /\ SubSeq(e, 1, m) \in Seq(S)
           /\ Len(SubSeq(e, 1, m)) = m /\ m \in DOMAIN SubSeq(e, 1, m)
           /\ SubSeq(e, 1, m)[m] = e[m]
           /\ SubSeq(e, m + 1, Len(e)) \in Seq(S)
PROOF
<1>1. m \in Nat /\ Len(e) \in Nat /\ 1 <= m /\ m <= Len(e) /\ DOMAIN e = 1..Len(e)
  OBVIOUS
<1>2. \A i \in 1..m : e[i] \in S
  BY <1>1
<1>3. SubSeq(e, 1, m) \in Seq(S) /\ Len(SubSeq(e, 1, m)) = m
  BY <1>1, <1>2
<1>4. m \in DOMAIN SubSeq(e, 1, m) /\ SubSeq(e, 1, m)[m] = e[m]
  BY <1>1, <1>3
<1>5. SubSeq(e, m + 1, Len(e)) \in Seq(S)
  BY <1>1
<1> QED BY <1>3, <1>4, <1>5

LEMMA LastExists ==
    ASSUME NEW S, NEW top \in Nat, S \subseteq 1..top, S # {}
    PROVE  \E k \in S : \A i \in S : i <= k
PROOF
<1> DEFINE T == {top - i : i \in S}
<1>1. T \subseteq Nat /\ T # {}
  <2>1. \A i \in S : top - i \in Nat
    OBVIOUS
  <2> QED BY <2>1
<1>2. \A m \in T : \E k \in S : m = top - k
  OBVIOUS
<1>3. \A i \in S : top - i \in T
  OBVIOUS
<1> HIDE DEF T
<1>4. PICK m \in T : \A i \in T : m <= i
  BY <1>1, LeastExists
<1>5. PICK k \in S : m = top - k
  BY <1>2, <1>4
<1>6. \A i \in S : top - k <= top - i
  BY <1>3, <1>4, <1>5
<1>7. ASSUME NEW i \in S PROVE i <= k
  BY <1>6
<1> QED BY <1>7

\* What Without leaves: a sequence of the same items, no longer than before,
\* without those that are gone.
LEMMA WithoutSays ==
    ASSUME NEW S, NEW items \in Seq(S), NEW gone
    PROVE  /\ Without(items, gone) \in Seq(S)
           /\ Len(Without(items, gone)) <= Len(items)
           /\ Members(Without(items, gone)) = Members(items) \ gone
PROOF
<1> DEFINE Rest(F, i) == IF i = 0 THEN <<>>
                         ELSE IF items[i] \in gone THEN F[i - 1]
                         ELSE Append(F[i - 1], items[i])
           Good(n) == \E F : F = [i \in 0..n |-> Rest(F, i)]
           left == CHOOSE F : F = [i \in 0..Len(items) |-> Rest(F, i)]
           Left(n) == /\ left[n] \in Seq(S) /\ Len(left[n]) <= n
                      /\ Members(left[n]) = {items[i] : i \in 1..n} \ gone
<1>1. \A n \in Nat : Good(n)
  <2> DEFINE Bad == {n \in Nat : ~Good(n)}
  <2> SUFFICES ASSUME Bad # {} PROVE FALSE
    OBVIOUS
  <2>1. PICK k \in Bad : \A i \in Bad : k <= i
    <3> Bad \subseteq Nat
      OBVIOUS
    <3> HIDE DEF Bad
    <3> QED BY LeastExists
  <2>2. k # 0
    <3> DEFINE F == [i \in 0..0 |-> <<>>]
    <3>1. F = [i \in 0..0 |-> Rest(F, i)]
      OBVIOUS
    <3>2. Good(0)
      BY <3>1
    <3> QED BY <3>2
  <2>3. Good(k - 1)
    <3>1. k \in Nat /\ k - 1 \in Nat /\ ~(k <= k - 1)
      BY <2>2
    <3> HIDE DEF Good
    <3> QED BY <2>1, <3>1
  <2>4. PICK G : G = [i \in 0..(k - 1) |-> Rest(G, i)]
    BY <2>3
  <2> DEFINE F == [i \in 0..k |-> IF i < k THEN G[i] ELSE Rest(G, k)]
  <2>5. \A i \in 0..k : F[i] = Rest(F, i)
    <3> TAKE i \in 0..k
    <3>1. F[i] = Rest(G, i)
      <4>1. \A j \in 0..(k - 1) : G[j] = Rest(G, j)
        <5> HIDE DEF F
        <5> QED BY <2>4
      <4>2. i < k => i \in 0..(k - 1)
        OBVIOUS
      <4>3. ~(i < k) => i = k
        OBVIOUS
      <4> QED BY <4>1, <4>2, <4>3
    <3>2. i # 0 => F[i - 1] = G[i - 1]
      BY <2>2
    <3> QED BY <3>1, <3>2
  <2>6. F = [i \in 0..k |-> Rest(F, i)]
    <3>1. F = [i \in 0..k |-> F[i]]
      OBVIOUS
    <3> HIDE DEF F
    <3> QED BY <2>5, <3>1
  <2>7. Good(k)
    <3> HIDE DEF F
    <3> QED BY <2>6
  <2> QED BY <2>1, <2>7
<1>2. Len(items) \in Nat /\ \A i \in 1..Len(items) : items[i] \in S
  OBVIOUS
<1>3. left = [i \in 0..Len(items) |-> Rest(left, i)]
  BY <1>1, <1>2
<1>4. Without(items, gone) = left[Len(items)]
  BY DEF Without
<1>5. \A i \in 0..Len(items) : left[i] = Rest(left, i)
  <2> HIDE DEF left
  <2> QED BY <1>3
<1> HIDE DEF left
<1>6. Left(0)
  <2>1. left[0] = <<>>
    BY <1>2, <1>5
  <2>2. <<>> \in Seq(S) /\ Len(<<>>) = 0 /\ Members(<<>>) = {}
    BY DEF Members
  <2> QED BY <2>1, <2>2
<1>7. ASSUME NEW n \in 1..Len(items), Left(n - 1) PROVE Left(n)
  <2>1. left[n] = IF items[n] \in gone THEN left[n - 1] ELSE Append(left[n - 1], items[n])
    BY <1>2, <1>5
  <2>2. left[n - 1] \in Seq(S) /\ items[n] \in S /\ Len(left[n - 1]) <= n - 1
    BY <1>2, <1>7
  <2>3. {items[i] : i \in 1..n} = {items[i] : i \in 1..(n - 1)} \cup {items[n]}
    BY <1>2
  <2>4. Members(left[n - 1]) = {items[i] : i \in 1..(n - 1)} \ gone
    BY <1>7
  <2>5. Members(Append(left[n - 1], items[n])) = Members(left[n - 1]) \cup {items[n]}
    <3> DEFINE s == left[n - 1]
    <3> HIDE DEF s
    <3>1. ASSUME s \in Seq(S), NEW e \in S
          PROVE  Members(Append(s, e)) = Members(s) \cup {e}
      <4>1. /\ DOMAIN s = 1..Len(s) /\ Len(s) \in Nat
            /\ DOMAIN Append(s, e) = 1..(Len(s) + 1)
            /\ \A i \in 1..Len(s) : Append(s, e)[i] = s[i]
            /\ Append(s, e)[Len(s) + 1] = e
        BY <3>1
      <4> QED BY <4>1 DEF Members
    <3> QED BY <2>2, <3>1 DEF s
  <2>6. CASE items[n] \in gone
    BY <2>1, <2>2, <2>3, <2>4, <2>6
  <2>7. CASE items[n] \notin gone
    <3>1. left[n] \in Seq(S) /\ Len(left[n]) <= n
      BY <2>1, <2>2, <2>7
    <3> QED BY <2>1, <2>3, <2>4, <2>5, <2>7, <3>1
  <2> QED BY <2>6, <2>7
<1> HIDE DEF Left
<1>8. \A n \in 0..Len(items) : Left(n)
  <2> DEFINE Bad == {n \in 0..Len(items) : ~Left(n)}
  <2> SUFFICES ASSUME Bad # {} PROVE FALSE
    OBVIOUS
  <2>1. PICK k \in Bad : \A i \in Bad : k <= i
    <3> Bad \subseteq Nat
      BY <1>2
    <3> HIDE DEF Bad
    <3> QED BY LeastExists
  <2>2. k # 0 /\ k \in 1..Len(items)
    BY <1>2, <1>6
  <2>3. Left(k - 1)
    BY <1>2, <2>1, <2>2
  <2> QED BY <1>7, <2>2, <2>3
<1>9. Left(Len(items)) /\ Members(items) = {items[i] : i \in 1..Len(items)}
  BY <1>2, <1>8 DEF Members
<1> QED BY <1>4, <1>9 DEF Left

-----------------------------------------------------------------------------
(* The stations an operation goes through, field by field.                 *)

\* A station whose numbers need not be in bounds yet.
Typed(s) ==
    /\ DOMAIN s = DOMAIN Fresh
    /\ s.cur \in Track \cup {None}
    /\ s.started \in Nat \cup {None}
    /\ s.seq \in Nat \cup {None}
    /\ s.index \in Nat \ {0}
    /\ DOMAIN s.batches \subseteq Nat \ {0}
    /\ \A n \in DOMAIN s.batches : s.batches[n] \in Seq(Track)
    /\ s.banlist \in Seq(Seq(Track)) /\ Len(s.banlist) <= BanlistMax
    /\ s.next \in Nat \ {0}
    /\ s.skip \subseteq Track /\ s.catalog \subseteq Track
    /\ s.mark \in 0..MaxScans \cup {None}

\* PlaceKept and NumbersAhead of any station.
Placed(s) ==
    s.cur # None =>
        /\ s.seq \in DOMAIN s.batches
        /\ s.index \in DOMAIN s.batches[s.seq]
        /\ s.batches[s.seq][s.index] = s.cur
        /\ s.started # None
Ahead(s) == \A n \in DOMAIN s.batches : n < s.next

Sound(s) == Typed(s) /\ Placed(s) /\ Ahead(s)

\* s and r are written as the same rows.
SameRows(s, r) ==
    /\ s.cur = r.cur /\ s.started = r.started /\ s.seq = r.seq
    /\ s.batches = r.batches /\ s.banlist = r.banlist

LEMMA SameSaved ==
    ASSUME NEW s, NEW r, SameRows(s, r)
    PROVE  Saved(s) = Saved(r)
BY DEF SameRows, Saved

LEMMA FreshSound == Sound(Fresh)
PROOF
<1>1. <<>> \in Seq(Seq(Track)) /\ Len(<<>>) = 0 /\ DOMAIN <<>> = {}
  OBVIOUS
<1> QED BY <1>1, RadioPickAssumption DEF Sound, Typed, Placed, Ahead, Fresh

\* LastTwo keeps a banlist within its bound.
LEMMA LastTwoSays ==
    ASSUME NEW b \in Seq(Seq(Track)), Len(b) <= BanlistMax + 1
    PROVE  LastTwo(b) \in Seq(Seq(Track)) /\ Len(LastTwo(b)) <= BanlistMax
PROOF
<1>1. CASE Len(b) <= BanlistMax
  BY <1>1 DEF LastTwo
<1>2. CASE ~(Len(b) <= BanlistMax)
  <2>1. Len(b) >= 3 /\ BanlistMax >= 2
    BY <1>2, RadioPickAssumption
  <2>2. LastTwo(b) = SubSeq(b, Len(b) - 1, Len(b))
    BY <1>2 DEF LastTwo
  <2>3. SubSeq(b, Len(b) - 1, Len(b)) \in Seq(Seq(Track)) /\ Len(SubSeq(b, Len(b) - 1, Len(b))) = 2
    BY <2>1
  <2> QED BY <2>1, <2>2, <2>3
<1> QED BY <1>1, <1>2

LEMMA StrippedSays ==
    ASSUME NEW b \in Seq(Seq(Track)), Len(b) <= BanlistMax, NEW gone
    PROVE  Stripped(b, gone) \in Seq(Seq(Track)) /\ Len(Stripped(b, gone)) <= BanlistMax
PROOF
<1> DEFINE c == [i \in DOMAIN b |-> Without(b[i], gone)]
<1>1. \A i \in DOMAIN b : Without(b[i], gone) \in Seq(Track)
  BY WithoutSays
<1>2. c \in Seq(Seq(Track)) /\ Len(c) = Len(b)
  <2>1. DOMAIN b = 1..Len(b) /\ Len(b) \in Nat
    OBVIOUS
  <2>2. \A i \in 1..Len(b) : Without(b[i], gone) \in Seq(Track)
    BY <1>1, <2>1
  <2>3. c = [i \in 1..Len(b) |-> Without(b[i], gone)]
    BY <2>1
  <2>4. c \in [1..Len(b) -> Seq(Track)]
    BY <2>2, <2>3
  <2> HIDE DEF c
  <2> QED BY <2>1, <2>4
<1> HIDE DEF c
<1>3. Without(c, {<<>>}) \in Seq(Seq(Track)) /\ Len(Without(c, {<<>>})) <= Len(c)
  BY <1>2, WithoutSays
<1>4. Len(Without(c, {<<>>})) \in Nat /\ Len(b) \in Nat
  BY <1>3
<1>5. Stripped(b, gone) = Without(c, {<<>>})
  BY DEF Stripped, c
<1> QED BY <1>2, <1>3, <1>4, <1>5, RadioPickAssumption

LEMMA StrippedSound ==
    ASSUME NEW s, Sound(s), NEW gone, NEW skip \in SUBSET Track
    PROVE  LET r == [s EXCEPT !.skip = skip, !.banlist = Stripped(@, gone)]
           IN Sound(r) /\ r.cur = s.cur /\ r.started = s.started
PROOF
<1>1. Stripped(s.banlist, gone) \in Seq(Seq(Track)) /\ Len(Stripped(s.banlist, gone)) <= BanlistMax
  BY StrippedSays DEF Sound, Typed
<1> QED BY <1>1 DEF Sound, Typed, Placed, Ahead, Fresh

\* A batch is appended under a number that no other batch has.
LEMMA AppendedSays ==
    ASSUME NEW s, Typed(s), Ahead(s), NEW batch \in Seq(Track)
    PROVE  LET r == Appended(s, batch) IN
           /\ Typed(r) /\ Ahead(r) /\ r.next = s.next + 1
           /\ r.cur = s.cur /\ r.started = s.started /\ r.seq = s.seq /\ r.index = s.index
           /\ DOMAIN r.batches = DOMAIN s.batches \cup {s.next}
           /\ \A n \in DOMAIN s.batches : r.batches[n] = s.batches[n]
           /\ r.batches[s.next] = batch
PROOF
<1> DEFINE bans == Append(s.banlist, batch)
           queue == [n \in DOMAIN s.batches \cup {s.next} |->
                        IF n = s.next THEN batch ELSE s.batches[n]]
<1>1. bans \in Seq(Seq(Track)) /\ Len(bans) <= BanlistMax + 1
  BY RadioPickAssumption DEF Typed
<1>2. LastTwo(bans) \in Seq(Seq(Track)) /\ Len(LastTwo(bans)) <= BanlistMax
  BY <1>1, LastTwoSays
<1>3. /\ DOMAIN queue = DOMAIN s.batches \cup {s.next}
      /\ \A n \in DOMAIN s.batches : queue[n] = s.batches[n]
      /\ queue[s.next] = batch
  BY DEF Typed, Ahead
<1>4. Appended(s, batch) = [s EXCEPT !.batches = queue, !.next = s.next + 1,
                                     !.banlist = LastTwo(bans)]
  BY DEF Appended
<1> HIDE DEF bans, queue
<1> QED BY <1>2, <1>3, <1>4 DEF Typed, Ahead, Fresh

LEMMA AppendedSound ==
    ASSUME NEW s, Sound(s), NEW batch \in Seq(Track)
    PROVE  Sound(Appended(s, batch))
PROOF
<1> DEFINE r == Appended(s, batch)
<1>1. Typed(s) /\ Ahead(s) /\ Placed(s)
  BY DEF Sound
<1>2. /\ Typed(r) /\ Ahead(r)
      /\ r.cur = s.cur /\ r.started = s.started /\ r.seq = s.seq /\ r.index = s.index
      /\ DOMAIN r.batches = DOMAIN s.batches \cup {s.next}
      /\ \A n \in DOMAIN s.batches : r.batches[n] = s.batches[n]
  BY <1>1, AppendedSays
<1> HIDE DEF r
<1>3. Placed(r)
  BY <1>1, <1>2 DEF Placed
<1> QED BY <1>2, <1>3 DEF Sound, r

-----------------------------------------------------------------------------
(* What the operations leave.                                              *)

LEMMA PickedSays ==
    ASSUME scan \in 0..MaxScans, NEW s, Typed(s), NEW p \in Picked(s)
    PROVE  /\ p.batch \in Seq(Track)
           /\ Typed(p.s) /\ SameRows(p.s, s) /\ p.s.index = s.index /\ p.s.next = s.next
PROOF
<1> DEFINE r == Refreshed(s)
<1>1. Typed(r) /\ SameRows(r, s) /\ r.index = s.index /\ r.next = s.next
  BY DEF Typed, Fresh, SameRows, Refreshed, Present
<1>2. PICK q \in Picks(r.catalog, r.banlist, r.skip, Unreadable) :
          p = [s |-> [r EXCEPT !.skip = @ \cup q[2]], batch |-> q[1]]
  BY DEF Picked
<1> HIDE DEF r
<1>3. q[1] \in Batches(r.catalog \ (r.skip \cup Unreadable)) /\ q[2] \subseteq Unreadable
  BY <1>2 DEF Picks
<1>4. PICK n \in 0..BatchSize : q[1] \in [1..n -> r.catalog \ (r.skip \cup Unreadable)]
  BY <1>3 DEF Batches
<1>5. q[1] \in Seq(Track)
  <2>1. n \in Nat /\ r.catalog \subseteq Track
    BY <1>1, RadioPickAssumption DEF Typed
  <2>2. q[1] \in [1..n -> Track]
    BY <1>4, <2>1
  <2> QED BY <2>1, <2>2
<1>6. Unreadable \subseteq Track
  BY DEF Unreadable
<1>7. [r EXCEPT !.skip = @ \cup q[2]].skip = r.skip \cup q[2]
  BY <1>1 DEF Typed, Fresh
<1> QED BY <1>1, <1>2, <1>3, <1>5, <1>6, <1>7 DEF Typed, Fresh, SameRows

\* The same station but for what only the picker reads keeps its place.
LEMMA SameRowsSound ==
    ASSUME NEW s, Sound(s), NEW r, Typed(r), SameRows(r, s), r.index = s.index, r.next = s.next
    PROVE  Sound(r)
BY DEF Sound, Placed, Ahead, SameRows

LEMMA MaybePickNextSound ==
    ASSUME scan \in 0..MaxScans, NEW s, Sound(s), NEW r \in MaybePickNext(s)
    PROVE  Sound(r) /\ r.cur = s.cur /\ r.started = s.started
PROOF
<1>1. CASE r = s
  BY <1>1
<1>2. ASSUME NEW p \in Picked(s), r = IF p.batch = <<>> THEN p.s ELSE Appended(p.s, p.batch)
      PROVE  Sound(r) /\ r.cur = s.cur /\ r.started = s.started
  <2>1. /\ p.batch \in Seq(Track)
        /\ Typed(p.s) /\ SameRows(p.s, s) /\ p.s.index = s.index /\ p.s.next = s.next
    BY PickedSays DEF Sound
  <2>2. Sound(p.s) /\ p.s.cur = s.cur /\ p.s.started = s.started
    BY <2>1, SameRowsSound DEF SameRows
  <2>3. LET q == Appended(p.s, p.batch) IN
        Sound(q) /\ q.cur = p.s.cur /\ q.started = p.s.started
    BY <2>1, <2>2, AppendedSound, AppendedSays DEF Sound
  <2> QED BY <1>2, <2>2, <2>3
<1> QED BY <1>1, <1>2 DEF MaybePickNext

LEMMA InstalledSound ==
    ASSUME scan \in 0..MaxScans, NEW s, Typed(s), Ahead(s),
           NEW batch \in Seq(Track), batch # <<>>, NEW at \in Nat,
           NEW r \in Installed(s, batch, at)
    PROVE  Sound(r) /\ r.cur = batch[1] /\ r.started = at
PROOF
<1> DEFINE a == Appended(s, batch)
           q == [a EXCEPT !.seq = s.next, !.index = 1, !.cur = batch[1], !.started = at]
<1>1. /\ Typed(a) /\ Ahead(a) /\ s.next \in DOMAIN a.batches /\ a.batches[s.next] = batch
      /\ s.next \in Nat
  <2>1. s.next \in Nat
    BY DEF Typed
  <2>2. /\ Typed(a) /\ Ahead(a) /\ a.batches[s.next] = batch
        /\ DOMAIN a.batches = DOMAIN s.batches \cup {s.next}
    BY AppendedSays
  <2> HIDE DEF a, q
  <2> QED BY <2>1, <2>2
<1>2. batch[1] \in Track /\ 1 \in DOMAIN batch
  OBVIOUS
<1>3. at # None /\ batch[1] # None
  BY <1>2, RadioStationAssumption
<1>4. r \in MaybePickNext(q)
  BY DEF Installed
<1> HIDE DEF a
<1>5. Sound(q) /\ q.cur = batch[1] /\ q.started = at
  BY <1>1, <1>2, <1>3 DEF Sound, Typed, Placed, Ahead, Fresh
<1> HIDE DEF q
<1> QED BY <1>4, <1>5, MaybePickNextSound

\* A pick that finds nothing leaves the rows as they were.
LEMMA StartedSound ==
    ASSUME scan \in 0..MaxScans, NEW s, Typed(s), Ahead(s), NEW at \in Nat,
           NEW r \in Started(s, at)
    PROVE  /\ r.ok \in BOOLEAN
           /\ r.ok => Sound(r.s) /\ r.s.cur # None /\ r.s.started = at
           /\ ~r.ok => /\ Typed(r.s) /\ SameRows(r.s, s)
                       /\ r.s.index = s.index /\ r.s.next = s.next
PROOF
<1>1. PICK p \in Picked(s) :
          r \in IF p.batch = <<>> THEN {[s |-> p.s, ok |-> FALSE]}
                ELSE {[s |-> q, ok |-> TRUE] : q \in Installed(p.s, p.batch, at)}
  BY DEF Started
<1>2. /\ p.batch \in Seq(Track)
      /\ Typed(p.s) /\ SameRows(p.s, s) /\ p.s.index = s.index /\ p.s.next = s.next
  BY PickedSays
<1>3. CASE p.batch = <<>>
  <2>1. r.s = p.s /\ r.ok = FALSE
    BY <1>1, <1>3
  <2> QED BY <1>2, <2>1
<1>4. CASE p.batch # <<>>
  <2>1. PICK q \in Installed(p.s, p.batch, at) : r = [s |-> q, ok |-> TRUE]
    BY <1>1, <1>4
  <2>2. Ahead(p.s)
    BY <1>2 DEF Ahead, SameRows
  <2>3. Sound(q) /\ q.cur = p.batch[1] /\ q.started = at
    BY <1>2, <1>4, <2>2, InstalledSound
  <2>4. q.cur # None
    BY <1>2, <1>4, <2>3, RadioStationAssumption
  <2> QED BY <2>1, <2>3, <2>4
<1> QED BY <1>3, <1>4

\* The next place to play exists: the places that are left have a first one.
LEMMA FirstPlace ==
    ASSUME NEW S, S \subseteq Nat \X Nat, S # {}
    PROVE  \E p \in S : \A q \in S : p = q \/ Precedes(p, q)
PROOF
<1> DEFINE numbers == {p[1] : p \in S}
<1>1. PICK n \in numbers : \A m \in numbers : n <= m
  <2>1. numbers \subseteq Nat /\ numbers # {}
    OBVIOUS
  <2> HIDE DEF numbers
  <2> QED BY <2>1, LeastExists
<1> DEFINE places == {p[2] : p \in {q \in S : q[1] = n}}
<1>2. PICK i \in places : \A j \in places : i <= j
  <2>1. places \subseteq Nat /\ places # {}
    BY <1>1
  <2> HIDE DEF places
  <2> QED BY <2>1, LeastExists
<1>3. PICK p \in S : p[1] = n /\ p[2] = i
  BY <1>2
<1>4. ASSUME NEW q \in S PROVE p = q \/ Precedes(p, q)
  <2>1. p \in Nat \X Nat /\ q \in Nat \X Nat
    OBVIOUS
  <2>2. n <= q[1] /\ (q[1] = n => i <= q[2])
    BY <1>1, <1>2
  <2>3. p = <<p[1], p[2]>> /\ q = <<q[1], q[2]>>
    BY <2>1
  <2> QED BY <1>3, <2>1, <2>2, <2>3 DEF Precedes
<1> QED BY <1>3, <1>4

LEMMA PositionsSay ==
    ASSUME NEW s, Typed(s), NEW p \in Positions(s)
    PROVE  /\ p \in Nat \X Nat
           /\ p[1] \in DOMAIN s.batches /\ p[2] \in DOMAIN s.batches[p[1]]
           /\ p[2] \in Nat \ {0} /\ At(s, p) \in Track
PROOF
<1>1. PICK n \in DOMAIN s.batches : \E i \in DOMAIN s.batches[n] : p = <<n, i>>
  BY DEF Positions
<1>2. PICK i \in DOMAIN s.batches[n] : p = <<n, i>>
  BY <1>1
<1>3. s.batches[n] \in Seq(Track) /\ n \in Nat
  BY DEF Typed
<1>4. i \in Nat \ {0} /\ s.batches[n][i] \in Track
  BY <1>3
<1> QED BY <1>2, <1>3, <1>4 DEF At

\* Batches before a number are forgotten; those after it stay as they are.
LEMMA KeepBatchesSay ==
    ASSUME NEW s, Typed(s), Ahead(s), DOMAIN s.batches \subseteq 1..MaxSeq, NEW n \in Nat
    PROVE  LET r == [s EXCEPT !.batches = KeepBatches(s, n..MaxSeq)] IN
           /\ Typed(r) /\ Ahead(r)
           /\ r.cur = s.cur /\ r.started = s.started /\ r.seq = s.seq /\ r.next = s.next
           /\ DOMAIN r.batches = {m \in DOMAIN s.batches : n <= m}
           /\ \A m \in DOMAIN r.batches : r.batches[m] = s.batches[m]
PROOF
<1> DEFINE kept == KeepBatches(s, n..MaxSeq)
<1>1. /\ DOMAIN kept = {m \in DOMAIN s.batches : n <= m}
      /\ \A m \in DOMAIN kept : kept[m] = s.batches[m]
  BY RadioStationAssumption DEF KeepBatches
<1> HIDE DEF kept
<1> QED BY <1>1 DEF Typed, Ahead, Fresh, kept

LEMMA AdvanceSound ==
    ASSUME scan \in 0..MaxScans, NEW s, Sound(s), s.cur # None,
           DOMAIN s.batches \subseteq 1..MaxSeq, NEW r \in Advance(s)
    PROVE  Sound(r) /\ r.started = s.started
PROOF
<1>1. CASE Upcoming(s) # {}
  <2> DEFINE p == CHOOSE p \in Upcoming(s) : \A q \in Upcoming(s) : p = q \/ Precedes(p, q)
             k == [s EXCEPT !.batches = KeepBatches(s, p[1]..MaxSeq)]
             t == [s EXCEPT !.batches = KeepBatches(s, p[1]..MaxSeq),
                            !.seq = p[1], !.index = p[2], !.cur = At(s, p)]
  <2>1. Upcoming(s) \subseteq Positions(s)
    BY DEF Upcoming
  <2>2. p \in Upcoming(s)
    <3>1. Upcoming(s) \subseteq Nat \X Nat
      BY <2>1, PositionsSay DEF Sound
    <3>2. \E q \in Upcoming(s) : \A u \in Upcoming(s) : q = u \/ Precedes(q, u)
      BY <1>1, <3>1, FirstPlace
    <3> QED BY <3>2
  <2>3. r \in MaybePickNext(t)
    BY <1>1 DEF Advance
  <2> HIDE DEF p
  <2>4. /\ p[1] \in Nat /\ p[1] \in DOMAIN s.batches /\ p[2] \in DOMAIN s.batches[p[1]]
        /\ p[2] \in Nat \ {0} /\ At(s, p) \in Track
    BY <2>1, <2>2, PositionsSay DEF Sound
  <2>5. /\ Typed(k) /\ Ahead(k) /\ k.started = s.started
        /\ p[1] \in DOMAIN k.batches /\ k.batches[p[1]] = s.batches[p[1]]
    <3>1. /\ Typed(k) /\ Ahead(k) /\ k.started = s.started
          /\ DOMAIN k.batches = {m \in DOMAIN s.batches : p[1] <= m}
          /\ \A m \in DOMAIN k.batches : k.batches[m] = s.batches[m]
      BY <2>4, KeepBatchesSay DEF Sound
    <3> HIDE DEF k
    <3> QED BY <2>4, <3>1
  <2>6. t = [k EXCEPT !.seq = p[1], !.index = p[2], !.cur = At(s, p)]
    OBVIOUS
  <2>7. At(s, p) = s.batches[p[1]][p[2]] /\ s.started # None /\ At(s, p) # None
    BY <2>4, RadioStationAssumption DEF At, Sound, Placed
  <2> HIDE DEF k, t
  <2>8. Sound(t) /\ t.started = s.started
    BY <2>4, <2>5, <2>6, <2>7 DEF Sound, Typed, Placed, Ahead, Fresh
  <2> QED BY <2>3, <2>8, MaybePickNextSound
<1>2. CASE Upcoming(s) = {}
  <2> DEFINE k == [s EXCEPT !.batches = KeepBatches(s, (s.seq + 1)..MaxSeq)]
  <2>1. PICK q \in Started(k, s.started) :
            r = IF q.ok THEN q.s ELSE [q.s EXCEPT !.cur = None, !.seq = None, !.batches = <<>>]
    BY <1>2 DEF Advance
  <2>2. s.seq + 1 \in Nat /\ s.started \in Nat
    BY DEF Sound, Placed, Typed
  <2>3. Typed(k) /\ Ahead(k) /\ k.started = s.started
    BY <2>2, KeepBatchesSay DEF Sound
  <2> HIDE DEF k
  <2>4. /\ q.ok \in BOOLEAN
        /\ q.ok => Sound(q.s) /\ q.s.started = s.started
        /\ ~q.ok => Typed(q.s) /\ SameRows(q.s, k)
    BY <2>2, <2>3, StartedSound
  <2>5. CASE q.ok
    BY <2>1, <2>4, <2>5
  <2>6. CASE ~q.ok
    <3>1. r = [q.s EXCEPT !.cur = None, !.seq = None, !.batches = <<>>]
      BY <2>1, <2>6
    <3>2. Typed(q.s) /\ q.s.started = s.started
      BY <2>3, <2>4, <2>6 DEF SameRows
    <3>3. DOMAIN <<>> = {}
      OBVIOUS
    <3> QED BY <3>1, <3>2, <3>3 DEF Sound, Typed, Placed, Ahead, Fresh
  <2> QED BY <2>4, <2>5, <2>6
<1> QED BY <1>1, <1>2

\* One step of the clock: a station as sound, a start that is the old one or
\* has passed, and new rows only where the step says that it is dirty.
LEMMA StepSound ==
    ASSUME scan \in 0..MaxScans, NEW s, Sound(s), DOMAIN s.batches \subseteq 1..MaxSeq,
           NEW at \in Nat, NEW skipBlocks \in BOOLEAN, NEW r \in Step(s, at, skipBlocks)
    PROVE  /\ r.dirty \in BOOLEAN
           /\ Sound(r.s)
           /\ r.s.started = s.started \/ (r.s.started \in Nat /\ r.s.started <= at)
           /\ ~r.dirty => SameRows(r.s, s)
PROOF
<1>1. CASE s.cur = None
  <2>1. PICK q \in Started(s, at) : r = [s |-> q.s, dirty |-> q.ok]
    BY <1>1 DEF Step
  <2>2. r.s = q.s /\ r.dirty = q.ok
    BY <2>1
  <2>3. /\ q.ok \in BOOLEAN
        /\ q.ok => Sound(q.s) /\ q.s.cur # None /\ q.s.started = at
        /\ ~q.ok => /\ Typed(q.s) /\ SameRows(q.s, s)
                    /\ q.s.index = s.index /\ q.s.next = s.next
    BY StartedSound DEF Sound
  <2>4. ~q.ok => Sound(q.s) /\ q.s.started = s.started
    BY <2>3, SameRowsSound DEF SameRows
  <2> QED BY <2>2, <2>3, <2>4
<1>2. CASE r = [s |-> s, dirty |-> FALSE]
  <2>1. r.s = s /\ r.dirty = FALSE
    BY <1>2
  <2> QED BY <2>1 DEF SameRows
<1>3. CASE s.cur # None /\ r \in Skipped(s)
  <2> DEFINE k == [s EXCEPT !.skip = @ \cup {s.cur}, !.banlist = Stripped(@, {s.cur})]
  <2>1. PICK q \in Advance(k) : r = [s |-> q, dirty |-> TRUE]
    BY <1>3 DEF Skipped, SkipCurrent
  <2>2. r.s = q /\ r.dirty = TRUE
    BY <2>1
  <2>3. s.skip \cup {s.cur} \in SUBSET Track
    BY <1>3 DEF Sound, Typed
  <2>4. Sound(k) /\ k.cur = s.cur /\ k.started = s.started
    BY <2>3, StrippedSound
  <2>5. k.batches = s.batches
    BY DEF Sound, Typed, Fresh
  <2> HIDE DEF k
  <2>6. Sound(q) /\ q.started = s.started
    BY <1>3, <2>4, <2>5, AdvanceSound
  <2> QED BY <2>2, <2>6
<1>4. CASE s.cur # None /\ Ended(s, at)
           /\ r \in {[s |-> q, dirty |-> TRUE] : q \in Advance([s EXCEPT !.started = @ + Duration[s.cur]])}
  <2> DEFINE k == [s EXCEPT !.started = @ + Duration[s.cur]]
  <2>1. PICK q \in Advance(k) : r = [s |-> q, dirty |-> TRUE]
    BY <1>4
  <2>2. r.s = q /\ r.dirty = TRUE
    BY <2>1
  <2>3. s.started \in Nat /\ Duration[s.cur] \in Nat
    BY <1>4, RadioStationAssumption DEF Sound, Placed, Typed
  <2>4. k.started = s.started + Duration[s.cur] /\ k.started \in Nat /\ k.started # None
        /\ k.started <= at
    BY <1>4, <2>3, RadioStationAssumption DEF Sound, Typed, Fresh, Ended
  <2>5. k.batches = s.batches /\ k.cur = s.cur /\ Sound(k)
    BY <2>4 DEF Sound, Typed, Placed, Ahead, Fresh
  <2> HIDE DEF k
  <2>6. Sound(q) /\ q.started = k.started
    BY <1>4, <2>5, AdvanceSound
  <2> QED BY <2>2, <2>4, <2>6
<1> QED BY <1>1, <1>2, <1>3, <1>4 DEF Step

\* A sound station that is written leaves rows that name its place.
LEMMA SavedSays ==
    ASSUME NEW s, Sound(s)
    PROVE  /\ Saved(s) = Saved(Saved(s))
           /\ SameRows(Saved(s), s)
           /\ s.cur # None =>
                 /\ s.seq \in DOMAIN s.batches
                 /\ s.cur \in Members(s.batches[s.seq])
                 /\ s.started # None
BY DEF Saved, SameRows, Sound, Placed, Members

LEMMA RowsTypedSays ==
    ASSUME NEW s, RowsTyped(s)
    PROVE  /\ s.cur \in Track \cup {None} /\ s.started \in Nat \cup {None}
           /\ s.seq \in Nat \cup {None} /\ DOMAIN s.batches \subseteq Nat \ {0}
           /\ \A n \in DOMAIN s.batches : s.batches[n] \in Seq(Track)
           /\ s.banlist \in Seq(Seq(Track)) /\ Len(s.banlist) <= BanlistMax
PROOF
<1>1. 1..MaxSeq \subseteq Nat \ {0} /\ Now \subseteq Nat
  BY RadioStationAssumption DEF Now
<1> QED BY <1>1 DEF RowsTyped

\* Loading finds the place of the rows again, or another of the same id, and
\* numbers the next batch after the last one.
LEMMA LoadedSound ==
    ASSUME TypeOK, RowsPlaced
    PROVE  /\ Sound(Loaded(st, disk))
           /\ SameRows(Loaded(st, disk), disk)
           /\ DOMAIN Loaded(st, disk).batches \subseteq 1..MaxSeq
           /\ Loaded(st, disk).next <= MaxSeq + 1
PROOF
<1> DEFINE items == IF disk.seq \in DOMAIN disk.batches THEN disk.batches[disk.seq] ELSE <<>>
           place == IF disk.cur \in Members(items) THEN FirstOf(items, disk.cur) ELSE 1
           next == NextNumber(disk.batches)
           r == Loaded(st, disk)
<1>1. items \in Seq(Track)
  BY DEF TypeOK, RowsTyped
<1>2. disk.cur \in Members(items) => place \in DOMAIN items /\ items[place] = disk.cur
  <2> HIDE DEF items
  <2> QED BY <1>1, FirstOfSays
<1>3. place \in Nat \ {0}
  <2> HIDE DEF items
  <2> QED BY <1>1, <1>2
<1>4. next \in 1..(MaxSeq + 1) /\ \A n \in DOMAIN disk.batches : n < next
  <2>1. CASE DOMAIN disk.batches = {}
    BY <2>1, RadioStationAssumption DEF NextNumber
  <2>2. CASE DOMAIN disk.batches # {}
    <3> DEFINE S == DOMAIN disk.batches
               top == CHOOSE n \in S : \A m \in S : m <= n
    <3>1. S \subseteq 1..MaxSeq /\ S # {}
      BY <2>2 DEF TypeOK, RowsTyped
    <3>2. next = 1 + top
      BY <2>2 DEF NextNumber
    <3> HIDE DEF S, next
    <3>3. \E n \in S : \A m \in S : m <= n
      BY <3>1, LastExists, RadioStationAssumption
    <3>4. top \in S /\ \A m \in S : m <= top
      BY <3>3
    <3> HIDE DEF top
    <3>5. \A m \in S : m < next
      BY <3>1, <3>2, <3>4, RadioStationAssumption
    <3>6. next \in 1..(MaxSeq + 1)
      BY <3>1, <3>2, <3>4, RadioStationAssumption
    <3> QED BY <3>5, <3>6 DEF S
  <2> QED BY <2>1, <2>2
<1>5. r = [st EXCEPT !.cur = disk.cur, !.started = disk.started, !.seq = disk.seq,
                     !.batches = disk.batches, !.banlist = disk.banlist,
                     !.index = place, !.next = next]
  BY DEF Loaded
<1>6. disk.cur # None => disk.seq \in DOMAIN disk.batches /\ items = disk.batches[disk.seq]
                         /\ disk.cur \in Members(items) /\ disk.started # None
  BY DEF RowsPlaced
<1> HIDE DEF items, place, next, r
<1>7. /\ r.cur = disk.cur /\ r.started = disk.started /\ r.seq = disk.seq
      /\ r.batches = disk.batches /\ r.banlist = disk.banlist
      /\ r.index = place /\ r.next = next /\ DOMAIN r = DOMAIN Fresh
      /\ r.skip = st.skip /\ r.catalog = st.catalog /\ r.mark = st.mark
  BY <1>5 DEF TypeOK, Fresh
<1>8. Typed(r)
  <2>1. /\ disk.cur \in Track \cup {None} /\ disk.started \in Nat \cup {None}
        /\ disk.seq \in Nat \cup {None} /\ DOMAIN disk.batches \subseteq Nat \ {0}
        /\ \A n \in DOMAIN disk.batches : disk.batches[n] \in Seq(Track)
        /\ disk.banlist \in Seq(Seq(Track)) /\ Len(disk.banlist) <= BanlistMax
    BY RowsTypedSays DEF TypeOK
  <2>3. /\ st.skip \subseteq Track /\ st.catalog \subseteq Track
        /\ st.mark \in 0..MaxScans \cup {None}
    BY DEF TypeOK
  <2>4. next \in Nat \ {0}
    BY <1>4, RadioStationAssumption
  <2> QED BY <1>3, <1>7, <2>1, <2>3, <2>4 DEF Typed
<1>9. Placed(r)
  BY <1>2, <1>6, <1>7 DEF Placed
<1>10. Ahead(r)
  BY <1>4, <1>7 DEF Ahead
<1>11. SameRows(r, disk)
  BY <1>7 DEF SameRows
<1>12. DOMAIN r.batches \subseteq 1..MaxSeq /\ r.next <= MaxSeq + 1
  BY <1>4, <1>7, RadioStationAssumption DEF TypeOK, RowsTyped
<1> QED BY <1>8, <1>9, <1>10, <1>11, <1>12 DEF Sound, r

-----------------------------------------------------------------------------
(* The debug commands.                                                     *)

LEMMA StationSound ==
    ASSUME IInv
    PROVE  /\ Sound(st) /\ DOMAIN st.batches \subseteq 1..MaxSeq /\ st.next <= MaxSeq + 1
           /\ scan \in 0..MaxScans /\ now \in Nat
PROOF
<1>1. Typed(st)
  <2>1. 1..(MaxSeq + 1) \subseteq Nat \ {0}
    BY RadioStationAssumption
  <2> QED BY <2>1, RowsTypedSays DEF IInv, TypeOK, Typed
<1>2. Placed(st) /\ Ahead(st)
  BY DEF IInv, PlaceKept, NumbersAhead, Placed, Ahead
<1>3. DOMAIN st.batches \subseteq 1..MaxSeq
  BY DEF IInv, TypeOK, RowsTyped
<1>4. st.next <= MaxSeq + 1
  <2>1. st.next \in 1..(MaxSeq + 1)
    BY DEF IInv, TypeOK
  <2> QED BY <2>1, RadioStationAssumption
<1>5. scan \in 0..MaxScans /\ now \in Nat
  <2>1. scan \in 0..MaxScans /\ now \in Now
    BY DEF IInv, TypeOK
  <2> QED BY <2>1, RadioStationAssumption DEF Now
<1> QED BY <1>1, <1>2, <1>3, <1>4, <1>5 DEF Sound

LEMMA PlaySound ==
    ASSUME NEW s, Sound(s), s.cur # None, NEW t \in Track, NEW at \in Nat
    PROVE  LET r == PlayedInstead(s, t, at) IN Sound(r) /\ r.cur = t /\ r.started = at
PROOF
<1> DEFINE items == s.batches[s.seq]
           i == FirstOf(items, s.cur)
           a == Replaced(s, t)
           played(n) == IF n = a.seq THEN SubSeq(a.batches[n], 1, a.index) ELSE <<>>
           later(n) == IF n = a.seq THEN SubSeq(a.batches[n], a.index + 1, Len(a.batches[n]))
                       ELSE a.batches[n]
           kept == [n \in DOMAIN a.batches |->
                       IF n < a.seq THEN a.batches[n] ELSE played(n) \o Without(later(n), {t})]
           left == [n \in {m \in DOMAIN kept : m <= a.seq \/ kept[m] # <<>>} |-> kept[n]]
           b == DropLaterCopies(a, t)
           c == OnBanlist(b, t)
           r == PlayedInstead(s, t, at)
<1>1. /\ s.seq \in DOMAIN s.batches /\ s.seq \in Nat \ {0} /\ items \in Seq(Track)
      /\ s.cur \in Members(items) /\ Items(s) = items
  BY DEF Sound, Typed, Placed, Members, Items
<1>2. i \in DOMAIN items /\ i \in 1..Len(items) /\ i \in Nat
  <2> HIDE DEF items
  <2> QED BY <1>1, FirstOfSays
<1>3. /\ a.seq = s.seq /\ a.index = i /\ a.banlist = s.banlist /\ a.next = s.next
      /\ a.skip = s.skip /\ a.catalog = s.catalog /\ a.mark = s.mark
      /\ DOMAIN a = DOMAIN Fresh
      /\ a.batches = [s.batches EXCEPT ![s.seq] = [items EXCEPT ![i] = t]]
  <2>1. a = [s EXCEPT !.index = i, !.batches[s.seq][i] = t]
    BY <1>1 DEF Replaced
  <2> HIDE DEF a, i
  <2> QED BY <2>1 DEF Sound, Typed, Fresh
<1>4. /\ DOMAIN a.batches = DOMAIN s.batches
      /\ \A n \in DOMAIN a.batches : a.batches[n] \in Seq(Track)
      /\ a.batches[s.seq] \in Seq(Track) /\ Len(a.batches[s.seq]) = Len(items)
      /\ a.batches[s.seq][i] = t
  <2>1. LET e == [items EXCEPT ![i] = t] IN e \in Seq(Track) /\ Len(e) = Len(items) /\ e[i] = t
    BY <1>1, <1>2
  <2> HIDE DEF a, i, items
  <2> QED BY <1>1, <1>3, <2>1 DEF Sound, Typed
<1> HIDE DEF a, i, items
<1>5. ASSUME NEW n \in DOMAIN a.batches PROVE kept[n] \in Seq(Track)
  <2>1. a.batches[n] \in Seq(Track) /\ n \in Nat /\ Len(a.batches[n]) \in Nat
    BY <1>4 DEF Sound, Typed
  <2>0. n = s.seq => i \in DOMAIN a.batches[n]
    BY <1>2, <1>4, <2>1
  <2>2. played(n) \in Seq(Track)
    <3>1. CASE n = a.seq
      BY <1>3, <2>0, <2>1, <3>1, CutSays
    <3>2. CASE n # a.seq
      BY <3>2
    <3> QED BY <3>1, <3>2
  <2>3. later(n) \in Seq(Track)
    <3>1. CASE n = a.seq
      BY <1>3, <2>0, <2>1, <3>1, CutSays
    <3>2. CASE n # a.seq
      BY <2>1, <3>2
    <3> QED BY <3>1, <3>2
  <2>4. Without(later(n), {t}) \in Seq(Track)
    BY <2>3, WithoutSays
  <2> HIDE DEF played, later
  <2> QED BY <2>1, <2>2, <2>4
<1>6. i \in DOMAIN kept[s.seq] /\ kept[s.seq][i] = t
  <2>0. i \in DOMAIN a.batches[s.seq] /\ a.batches[s.seq] \in Seq(Track) /\ a.batches[s.seq][i] = t
    BY <1>2, <1>4
  <2>1. kept[s.seq] = SubSeq(a.batches[s.seq], 1, i)
                      \o Without(SubSeq(a.batches[s.seq], i + 1, Len(a.batches[s.seq])), {t})
    <3>1. s.seq = a.seq /\ s.seq \in DOMAIN a.batches /\ ~(s.seq < s.seq) /\ i = a.index
      BY <1>1, <1>3, <1>4
    <3>2. kept[s.seq] = played(s.seq) \o Without(later(s.seq), {t})
      BY <3>1
    <3> QED BY <3>1, <3>2
  <2>2. SubSeq(a.batches[s.seq], i + 1, Len(a.batches[s.seq])) \in Seq(Track)
    BY <2>0, CutSays
  <2>3. Without(SubSeq(a.batches[s.seq], i + 1, Len(a.batches[s.seq])), {t}) \in Seq(Track)
    BY <2>2, WithoutSays
  <2>4. /\ SubSeq(a.batches[s.seq], 1, i) \in Seq(Track)
        /\ Len(SubSeq(a.batches[s.seq], 1, i)) = i
        /\ SubSeq(a.batches[s.seq], 1, i)[i] = t
    BY <2>0, CutSays
  <2> DEFINE u == SubSeq(a.batches[s.seq], 1, i)
             v == Without(SubSeq(a.batches[s.seq], i + 1, Len(a.batches[s.seq])), {t})
  <2>5. u \in Seq(Track) /\ v \in Seq(Track) /\ Len(u) = i /\ u[i] = t /\ kept[s.seq] = u \o v
    BY <2>1, <2>3, <2>4
  <2>6. i >= 1
    BY <1>2
  <2> HIDE DEF u, v, kept
  <2> QED BY <1>2, <2>5, <2>6
<1>7. /\ DOMAIN left \subseteq DOMAIN s.batches /\ s.seq \in DOMAIN left
      /\ \A n \in DOMAIN left : left[n] \in Seq(Track)
      /\ left[s.seq] = kept[s.seq]
  <2>1. DOMAIN kept = DOMAIN s.batches /\ s.seq <= s.seq
    BY <1>1, <1>4
  <2> HIDE DEF kept
  <2> QED BY <1>1, <1>3, <1>4, <1>5, <2>1
<1>8. b = [a EXCEPT !.batches = left]
  BY DEF DropLaterCopies
<1> HIDE DEF left, kept, b
<1>9. /\ b.seq = s.seq /\ b.index = i /\ b.banlist = s.banlist /\ b.next = s.next
      /\ b.skip = s.skip /\ b.catalog = s.catalog /\ b.mark = s.mark
      /\ DOMAIN b = DOMAIN Fresh /\ b.batches = left
  BY <1>3, <1>8 DEF Fresh
<1>10. /\ c.seq = s.seq /\ c.index = i /\ c.next = s.next
       /\ c.skip = s.skip /\ c.catalog = s.catalog /\ c.mark = s.mark
       /\ DOMAIN c = DOMAIN Fresh /\ c.batches = left
       /\ c.banlist \in Seq(Seq(Track)) /\ Len(c.banlist) <= BanlistMax
  <2>1. b.banlist \in Seq(Seq(Track)) /\ Len(b.banlist) <= BanlistMax
    BY <1>9 DEF Sound, Typed
  <2>2. CASE c = b
    BY <1>9, <2>1, <2>2
  <2>3. CASE c = [b EXCEPT !.banlist = << <<t>> >>]
    <3>1. << <<t>> >> \in Seq(Seq(Track)) /\ Len(<< <<t>> >>) <= BanlistMax
      <4>1. <<t>> \in Seq(Track)
        OBVIOUS
      <4> QED BY <4>1, RadioPickAssumption
    <3> QED BY <1>9, <2>3, <3>1 DEF Fresh
  <2>4. CASE /\ c = [b EXCEPT !.banlist[Len(b.banlist)] = Append(@, t)]
             /\ b.banlist # <<>>
    <3> DEFINE bans == [b.banlist EXCEPT ![Len(b.banlist)] = Append(@, t)]
    <3>1. Len(b.banlist) \in DOMAIN b.banlist /\ b.banlist[Len(b.banlist)] \in Seq(Track)
      BY <2>1, <2>4
    <3>2. Append(b.banlist[Len(b.banlist)], t) \in Seq(Track)
      BY <3>1
    <3>3. bans \in Seq(Seq(Track)) /\ Len(bans) = Len(b.banlist)
      BY <2>1, <3>1, <3>2
    <3>4. c = [b EXCEPT !.banlist = bans]
      BY <2>4
    <3> HIDE DEF bans, c
    <3> QED BY <1>9, <2>1, <3>3, <3>4 DEF Fresh
  <2> QED BY <2>2, <2>3, <2>4 DEF OnBanlist
<1>10a. r = [c EXCEPT !.cur = t, !.started = at]
  BY DEF PlayedInstead, a, b, c
<1> HIDE DEF c, r
<1>11. /\ r.seq = s.seq /\ r.index = i /\ r.next = s.next
       /\ r.skip = s.skip /\ r.catalog = s.catalog /\ r.mark = s.mark
       /\ DOMAIN r = DOMAIN Fresh /\ r.batches = left
       /\ r.banlist = c.banlist /\ r.cur = t /\ r.started = at
  BY <1>10, <1>10a DEF Fresh
<1>12. Typed(r)
  BY <1>1, <1>2, <1>7, <1>10, <1>11 DEF Typed, Sound
<1>13. Placed(r)
  BY <1>6, <1>7, <1>11, RadioStationAssumption DEF Placed
<1>14. Ahead(r)
  BY <1>7, <1>11 DEF Ahead, Sound
<1> QED BY <1>11, <1>12, <1>13, <1>14 DEF Sound, r

LEMMA DropRemainderSound ==
    ASSUME NEW s, Sound(s), s.cur # None
    PROVE  LET r == DropRemainder(s) IN Sound(r) /\ r.cur = s.cur /\ r.started = s.started
PROOF
<1> DEFINE left == [n \in {m \in DOMAIN s.batches : m <= s.seq} |->
                       IF n = s.seq THEN SubSeq(s.batches[n], 1, s.index) ELSE s.batches[n]]
           bans == Stripped(s.banlist, Remainder(s))
           r == DropRemainder(s)
<1>1. bans \in Seq(Seq(Track)) /\ Len(bans) <= BanlistMax
  BY StrippedSays DEF Sound, Typed
<1>2. /\ s.seq \in DOMAIN s.batches /\ s.batches[s.seq] \in Seq(Track)
      /\ s.index \in DOMAIN s.batches[s.seq] /\ s.batches[s.seq][s.index] = s.cur
      /\ s.index \in Nat \ {0} /\ s.seq \in Nat
  BY DEF Sound, Typed, Placed
<1>3. LET e == SubSeq(s.batches[s.seq], 1, s.index) IN
      e \in Seq(Track) /\ s.index \in DOMAIN e /\ e[s.index] = s.cur
  BY <1>2, CutSays
<1>4. /\ DOMAIN left \subseteq DOMAIN s.batches /\ s.seq \in DOMAIN left
      /\ left[s.seq] = SubSeq(s.batches[s.seq], 1, s.index)
      /\ \A n \in DOMAIN left : left[n] \in Seq(Track)
  <2>1. \A n \in DOMAIN s.batches : s.batches[n] \in Seq(Track)
    BY DEF Sound, Typed
  <2>2. s.seq \in {m \in DOMAIN s.batches : m <= s.seq}
    BY <1>2
  <2> QED BY <1>3, <2>1, <2>2
<1>5. r = [s EXCEPT !.batches = left, !.banlist = bans]
  BY DEF DropRemainder
<1> HIDE DEF left, bans, r
<1>6. /\ r.seq = s.seq /\ r.index = s.index /\ r.next = s.next
      /\ r.skip = s.skip /\ r.catalog = s.catalog /\ r.mark = s.mark
      /\ DOMAIN r = DOMAIN Fresh /\ r.batches = left /\ r.banlist = bans
      /\ r.cur = s.cur /\ r.started = s.started
  BY <1>5 DEF Sound, Typed, Fresh
<1>7. Typed(r)
  BY <1>1, <1>4, <1>6 DEF Typed, Sound
<1>8. Placed(r) /\ Ahead(r)
  BY <1>2, <1>3, <1>4, <1>6 DEF Placed, Ahead, Sound
<1> QED BY <1>6, <1>7, <1>8 DEF Sound, r

-----------------------------------------------------------------------------
(* The inductive invariant.                                                *)

LEMMA InitInv == Init => IInv
PROOF
<1> SUFFICES ASSUME Init PROVE IInv
  OBVIOUS
<1>1. Sound(st)
  BY FreshSound DEF Init
<1>2. <<>> \in Seq(Seq(Track)) /\ Len(<<>>) = 0 /\ DOMAIN <<>> = {}
  OBVIOUS
<1>3. RowsTyped(Fresh) /\ RowsTyped(NoRows)
  BY <1>2, RadioPickAssumption DEF RowsTyped, Fresh, NoRows
<1>4. 0 \in Now /\ 0 \in 0..MaxScans /\ 1 \in 1..(MaxSeq + 1)
  BY RadioStationAssumption DEF Now
<1>5. snap \in [face : {"catching_up", "idle", "skip_pending", "current"},
                track : Track \cup {None}, started : Now \cup {None}]
  BY DEF Init, CatchingUp
<1>6. TypeOK
  <2>1. /\ DOMAIN st = DOMAIN Fresh /\ RowsTyped(st)
        /\ st.index \in Nat \ {0} /\ st.next \in 1..(MaxSeq + 1)
        /\ st.skip \subseteq Track /\ st.catalog \subseteq Track
        /\ st.mark \in 0..MaxScans \cup {None}
    BY <1>3, <1>4 DEF Init, Fresh
  <2>2. DOMAIN disk = DOMAIN NoRows /\ RowsTyped(disk)
    BY <1>3 DEF Init
  <2>3. /\ live \in BOOLEAN /\ worker \in {"down", "boot", "catching", "tick", "dead"}
        /\ catchup \in [at : Now, dirty : BOOLEAN] /\ loop \in {"free", "blocked"}
        /\ file \in [Track -> {"good", "bad", "gone"}]
        /\ scan \in 0..MaxScans /\ now \in Now /\ faults \in Nat
        /\ count \in [commands : Nat, changes : Nat, stops : Nat]
    BY <1>4 DEF Init
  <2> QED BY <1>5, <2>1, <2>2, <2>3 DEF TypeOK
<1>7. WorkerControl /\ RowsAreLoaded /\ RowsAreTheStation /\ FaceIsTheStation
  BY DEF Init, WorkerControl, RowsAreLoaded, RowsAreTheStation, FaceIsTheStation
<1>8. RowsPlaced
  BY DEF Init, RowsPlaced, NoRows, Saved
<1>9. PlaceKept /\ NumbersAhead /\ StartedInThePast
  BY <1>1 DEF Init, Fresh, PlaceKept, NumbersAhead, StartedInThePast
<1> QED BY <1>6, <1>7, <1>8, <1>9 DEF IInv

\* A station that is sound, in bounds and started is typed as the model's.
LEMMA NewStation ==
    ASSUME NEW s, Sound(s), InBounds(s), NEW time \in Now,
           s.started = None \/ s.started <= time
    PROVE  /\ DOMAIN s = DOMAIN Fresh /\ RowsTyped(s)
           /\ s.index \in Nat \ {0} /\ s.next \in 1..(MaxSeq + 1)
           /\ s.skip \subseteq Track /\ s.catalog \subseteq Track
           /\ s.mark \in 0..MaxScans \cup {None}
           /\ s.cur # None =>
                 /\ s.seq \in DOMAIN s.batches
                 /\ s.index \in DOMAIN s.batches[s.seq]
                 /\ s.batches[s.seq][s.index] = s.cur
                 /\ s.started # None
           /\ \A n \in DOMAIN s.batches : n < s.next
PROOF
<1>1. s.started \in Now \cup {None}
  BY RadioStationAssumption DEF Sound, Typed, Now
<1>2. s.next \in 1..(MaxSeq + 1) /\ DOMAIN s.batches \subseteq 1..MaxSeq
  BY RadioStationAssumption DEF Sound, Typed, Ahead, InBounds
<1>3. RowsTyped(s)
  BY <1>1, <1>2 DEF Sound, Typed, RowsTyped
<1> QED BY <1>2, <1>3 DEF Sound, Typed, Placed, Ahead

\* What an action does to the station, the rows and the face, whichever way it
\* came to the station s: it writes and stashes it, only stashes it, or does
\* neither after a fault or where nothing of the rows has changed.
LEMMA StationInv ==
    ASSUME IInv, NEW s, Sound(s), InBounds(s), s.started = None \/ s.started <= now,
           st' = s, UNCHANGED <<file, scan, now>>
    PROVE  /\ DOMAIN st' = DOMAIN Fresh /\ RowsTyped(st)'
           /\ st'.index \in Nat \ {0} /\ st'.next \in 1..(MaxSeq + 1)
           /\ st'.skip \subseteq Track /\ st'.catalog \subseteq Track
           /\ st'.mark \in 0..MaxScans \cup {None}
           /\ file' \in [Track -> {"good", "bad", "gone"}]
           /\ scan' \in 0..MaxScans /\ now' \in Now
           /\ PlaceKept' /\ NumbersAhead' /\ StartedInThePast'
PROOF
<1>1. now \in Now /\ now' = now
  BY DEF IInv, TypeOK
<1>2. /\ DOMAIN s = DOMAIN Fresh /\ RowsTyped(s)
      /\ s.index \in Nat \ {0} /\ s.next \in 1..(MaxSeq + 1)
      /\ s.skip \subseteq Track /\ s.catalog \subseteq Track
      /\ s.mark \in 0..MaxScans \cup {None}
      /\ s.cur # None =>
            /\ s.seq \in DOMAIN s.batches
            /\ s.index \in DOMAIN s.batches[s.seq]
            /\ s.batches[s.seq][s.index] = s.cur
            /\ s.started # None
      /\ \A n \in DOMAIN s.batches : n < s.next
  BY <1>1, NewStation
<1>3. PlaceKept' /\ NumbersAhead' /\ StartedInThePast'
  BY <1>1, <1>2 DEF PlaceKept, NumbersAhead, StartedInThePast
<1>4. RowsTyped(st)'
  BY <1>2 DEF RowsTyped
<1> QED BY <1>2, <1>3, <1>4 DEF IInv, TypeOK

LEMMA SnapshotSays ==
    ASSUME NEW s, Typed(s), s.started \in Now \cup {None}
    PROVE  LET f == Snapshot(s) IN
           /\ f \in [face : {"catching_up", "idle", "skip_pending", "current"},
                     track : Track \cup {None}, started : Now \cup {None}]
           /\ f.face = "idle" <=> s.cur = None
           /\ f.face = "current" => f.track = s.cur
           /\ s.cur # None => f.started = s.started
BY DEF Snapshot, Typed

\* The rows after a commit of s.
LEMMA CommitInv ==
    ASSUME IInv, NEW s, Sound(s), InBounds(s), s.started = None \/ s.started <= now,
           disk' = Saved(s), UNCHANGED now
    PROVE  DOMAIN disk' = DOMAIN NoRows /\ RowsTyped(disk)' /\ RowsPlaced'
PROOF
<1>1. now \in Now
  BY DEF IInv, TypeOK
<1>2. RowsTyped(s)
  BY <1>1, NewStation
<1>3. SameRows(disk', s) /\ disk' = Saved(disk')
  BY SavedSays
<1>4. DOMAIN disk' = DOMAIN NoRows
  BY DEF Saved, NoRows
<1>5. RowsTyped(disk')
  BY <1>2, <1>3 DEF RowsTyped, SameRows
<1>6. RowsPlaced'
  BY <1>3, SavedSays DEF RowsPlaced, SameRows
<1> QED BY <1>4, <1>5, <1>6 DEF RowsTyped

\* The face after a stash of s.
LEMMA StashInv ==
    ASSUME IInv, NEW s, Sound(s), InBounds(s), s.started = None \/ s.started <= now,
           st' = s, snap' = Snapshot(s)
    PROVE  /\ snap' \in [face : {"catching_up", "idle", "skip_pending", "current"},
                         track : Track \cup {None}, started : Now \cup {None}]
           /\ FaceIsTheStation'
PROOF
<1>1. s.started \in Now \cup {None}
  BY RadioStationAssumption DEF IInv, TypeOK, Sound, Typed, Now
<1>2. LET f == Snapshot(s) IN
      /\ f \in [face : {"catching_up", "idle", "skip_pending", "current"},
                track : Track \cup {None}, started : Now \cup {None}]
      /\ f.face = "idle" <=> s.cur = None
      /\ f.face = "current" => f.track = s.cur
      /\ s.cur # None => f.started = s.started
  BY <1>1, SnapshotSays DEF Sound
<1> QED BY <1>2 DEF FaceIsTheStation

\* A debug command: the station is written and stashed, or the commit raises.
LEMMA LeavesInv ==
    ASSUME IInv, Command, NEW s, Sound(s), s.started = None \/ s.started <= now, Leaves(s)
    PROVE  IInv'
PROOF
<1>1. /\ InBounds(s) /\ st' = s
      /\ UNCHANGED <<live, worker, catchup, loop, file, scan, now>>
  BY DEF Leaves
<1>2. live /\ worker \in {"tick", "dead"} /\ count' \in [commands : Nat, changes : Nat, stops : Nat]
  BY DEF Command, IInv, TypeOK
<1>3. /\ DOMAIN st' = DOMAIN Fresh /\ RowsTyped(st)'
      /\ st'.index \in Nat \ {0} /\ st'.next \in 1..(MaxSeq + 1)
      /\ st'.skip \subseteq Track /\ st'.catalog \subseteq Track
      /\ st'.mark \in 0..MaxScans \cup {None}
      /\ file' \in [Track -> {"good", "bad", "gone"}]
      /\ scan' \in 0..MaxScans /\ now' \in Now
      /\ PlaceKept' /\ NumbersAhead' /\ StartedInThePast'
  BY <1>1, StationInv
<1>4. /\ live' \in BOOLEAN /\ worker' \in {"down", "boot", "catching", "tick", "dead"}
      /\ catchup' \in [at : Now, dirty : BOOLEAN] /\ loop' \in {"free", "blocked"}
  BY <1>1 DEF IInv, TypeOK
<1>5. CASE Commit(s)
  <2>1. disk' = Saved(s) /\ snap' = Snapshot(s) /\ faults' = faults
    BY <1>5 DEF Commit, Stash
  <2>2. DOMAIN disk' = DOMAIN NoRows /\ RowsTyped(disk)' /\ RowsPlaced'
    BY <1>1, <2>1, CommitInv
  <2>3. /\ snap' \in [face : {"catching_up", "idle", "skip_pending", "current"},
                      track : Track \cup {None}, started : Now \cup {None}]
        /\ FaceIsTheStation'
    BY <1>1, <2>1, StashInv
  <2>4. TypeOK'
    BY <1>2, <1>3, <1>4, <2>1, <2>2, <2>3 DEF IInv, TypeOK
  <2>5. WorkerControl' /\ RowsAreLoaded' /\ RowsAreTheStation'
    BY <1>1, <1>2, <2>1 DEF IInv, WorkerControl, RowsAreLoaded, RowsAreTheStation
  <2> QED BY <1>3, <2>2, <2>3, <2>4, <2>5 DEF IInv
<1>6. CASE CommitRaises
  <2>1. faults' = faults + 1 /\ disk' = disk /\ snap' = snap
    BY <1>6 DEF CommitRaises
  <2>2. faults' \in Nat /\ faults' > 0
    BY <2>1 DEF IInv, TypeOK
  <2>3. DOMAIN disk' = DOMAIN NoRows /\ RowsTyped(disk)' /\ RowsPlaced'
    BY <1>1, <2>1 DEF IInv, TypeOK, RowsTyped, RowsPlaced
  <2>4. TypeOK'
    BY <1>2, <1>3, <1>4, <2>1, <2>2, <2>3 DEF IInv, TypeOK
  <2>5. WorkerControl' /\ RowsAreLoaded' /\ RowsAreTheStation' /\ FaceIsTheStation'
    BY <1>1, <1>2, <2>2
    DEF IInv, WorkerControl, RowsAreLoaded, RowsAreTheStation, FaceIsTheStation
  <2> QED BY <1>3, <2>3, <2>4, <2>5 DEF IInv
<1> QED BY <1>5, <1>6 DEF Leaves

\* A command that writes nothing, and leaves the rows as they are.
LEMMA UnwrittenInv ==
    ASSUME IInv, Command, NEW s, Sound(s), SameRows(s, st), InBounds(s), st' = s,
           UNCHANGED <<disk, snap, live, worker, catchup, loop, file, scan, now, faults>>
    PROVE  IInv'
PROOF
<1>1. s.started = None \/ s.started <= now
  BY DEF IInv, StartedInThePast, SameRows
<1>2. live /\ worker \in {"tick", "dead"} /\ count' \in [commands : Nat, changes : Nat, stops : Nat]
  BY DEF Command, IInv, TypeOK
<1>3. /\ DOMAIN st' = DOMAIN Fresh /\ RowsTyped(st)'
      /\ st'.index \in Nat \ {0} /\ st'.next \in 1..(MaxSeq + 1)
      /\ st'.skip \subseteq Track /\ st'.catalog \subseteq Track
      /\ st'.mark \in 0..MaxScans \cup {None}
      /\ file' \in [Track -> {"good", "bad", "gone"}]
      /\ scan' \in 0..MaxScans /\ now' \in Now
      /\ PlaceKept' /\ NumbersAhead' /\ StartedInThePast'
  BY <1>1, StationInv
<1>4. Saved(st') = Saved(st)
  BY SameSaved
<1>5. TypeOK'
  <2>1. TypeOK
    BY DEF IInv
  <2>2. RowsTyped(disk)'
    BY <2>1 DEF TypeOK, RowsTyped
  <2> QED BY <1>2, <1>3, <2>1, <2>2 DEF TypeOK
<1>6. WorkerControl' /\ RowsPlaced'
  <2>1. WorkerControl /\ RowsPlaced
    BY DEF IInv
  <2> QED BY <2>1 DEF WorkerControl, RowsPlaced
<1>7. RowsAreLoaded' /\ RowsAreTheStation'
  BY <1>4 DEF IInv, RowsAreLoaded, RowsAreTheStation
<1>8. FaceIsTheStation'
  BY DEF IInv, FaceIsTheStation, SameRows
<1> QED BY <1>3, <1>5, <1>6, <1>7, <1>8 DEF IInv

LEMMA OperatorSkipInv == IInv /\ OperatorSkip => IInv'
PROOF
<1> SUFFICES ASSUME IInv, OperatorSkip PROVE IInv'
  OBVIOUS
<1> DEFINE k == [st EXCEPT !.started = now]
<1>1. PICK s \in Advance(k) : Leaves(s)
  BY DEF OperatorSkip
<1>2. st.cur # None /\ Command
  BY DEF OperatorSkip
<1>3. /\ Sound(st) /\ DOMAIN st.batches \subseteq 1..MaxSeq
      /\ scan \in 0..MaxScans /\ now \in Nat
  BY StationSound
<1>4. Sound(k) /\ k.started = now /\ k.cur = st.cur /\ k.batches = st.batches
  BY <1>3, RadioStationAssumption DEF Sound, Typed, Placed, Ahead, Fresh
<1> HIDE DEF k
<1>5. Sound(s) /\ s.started = now
  BY <1>1, <1>2, <1>3, <1>4, AdvanceSound
<1>6. s.started <= now
  BY <1>3, <1>5
<1> QED BY <1>1, <1>2, <1>5, <1>6, LeavesInv

LEMMA OperatorPlayInv ==
    ASSUME IInv, NEW t \in Track, OperatorPlay(t)
    PROVE  IInv'
PROOF
<1> DEFINE r == PlayedInstead(st, t, now)
<1>1. PICK s \in IF st.cur = None THEN Installed(st, <<t>>, now) ELSE MaybePickNext(r) : Leaves(s)
  BY DEF OperatorPlay
<1>2. Sound(st) /\ scan \in 0..MaxScans /\ now \in Nat /\ Command
  BY StationSound DEF OperatorPlay
<1>3. Sound(s) /\ s.started = now
  <2>1. CASE st.cur = None
    <3>1. <<t>> \in Seq(Track) /\ <<t>> # <<>>
      OBVIOUS
    <3> QED BY <1>1, <1>2, <2>1, <3>1, InstalledSound DEF Sound
  <2>2. CASE st.cur # None
    <3>1. Sound(r) /\ r.started = now
      BY <1>2, <2>2, PlaySound
    <3> HIDE DEF r
    <3> QED BY <1>1, <1>2, <2>2, <3>1, MaybePickNextSound
  <2> QED BY <2>1, <2>2
<1>4. s.started <= now
  BY <1>2, <1>3
<1> QED BY <1>1, <1>2, <1>3, <1>4, LeavesInv

LEMMA OperatorPlayRefusedInv ==
    ASSUME IInv, NEW t \in Track, OperatorPlayRefused(t)
    PROVE  IInv'
PROOF
<1> DEFINE s == [st EXCEPT !.skip = @ \cup {t}]
<1>1. Sound(st) /\ st.next <= MaxSeq + 1
  BY StationSound
<1>2. /\ Sound(s) /\ SameRows(s, st) /\ InBounds(s)
  BY <1>1 DEF Sound, Typed, Placed, Ahead, Fresh, SameRows, InBounds
<1>3. /\ Command /\ st' = s
      /\ UNCHANGED <<disk, snap, live, worker, catchup, loop, file, scan, now, faults>>
  BY DEF OperatorPlayRefused
<1> HIDE DEF s
<1> QED BY <1>2, <1>3, UnwrittenInv

LEMMA ClearSkipIdsInv == IInv /\ ClearSkipIds => IInv'
PROOF
<1> SUFFICES ASSUME IInv, ClearSkipIds PROVE IInv'
  OBVIOUS
<1> DEFINE s == [st EXCEPT !.skip = {}]
<1>1. Sound(st) /\ st.next <= MaxSeq + 1
  BY StationSound
<1>2. /\ Sound(s) /\ SameRows(s, st) /\ InBounds(s)
  BY <1>1 DEF Sound, Typed, Placed, Ahead, Fresh, SameRows, InBounds
<1>3. /\ Command /\ st' = s
      /\ UNCHANGED <<disk, snap, live, worker, catchup, loop, file, scan, now, faults>>
  BY DEF ClearSkipIds
<1> HIDE DEF s
<1> QED BY <1>2, <1>3, UnwrittenInv

LEMMA OperatorPickInv == IInv /\ OperatorPick => IInv'
PROOF
<1> SUFFICES ASSUME IInv, OperatorPick PROVE IInv'
  OBVIOUS
<1>1. PICK p \in Picked(DropRemainder(st)) :
          Leaves(IF p.batch = <<>> THEN p.s ELSE Appended(p.s, p.batch))
  BY DEF OperatorPick
<1>2. st.cur # None /\ Command
  BY DEF OperatorPick
<1>3. Sound(st) /\ scan \in 0..MaxScans
  BY StationSound
<1>4. Sound(DropRemainder(st)) /\ DropRemainder(st).started = st.started
  BY <1>2, <1>3, DropRemainderSound
<1>5. /\ p.batch \in Seq(Track)
      /\ Typed(p.s) /\ SameRows(p.s, DropRemainder(st))
      /\ p.s.index = DropRemainder(st).index /\ p.s.next = DropRemainder(st).next
  BY <1>3, <1>4, PickedSays DEF Sound
<1>6. Sound(p.s) /\ p.s.started = st.started
  BY <1>4, <1>5, SameRowsSound DEF SameRows
<1>7. Sound(Appended(p.s, p.batch)) /\ Appended(p.s, p.batch).started = st.started
  BY <1>5, <1>6, AppendedSound, AppendedSays DEF Sound
<1>8. st.started = None \/ st.started <= now
  BY DEF IInv, StartedInThePast
<1>9. CASE p.batch = <<>>
  BY <1>1, <1>2, <1>6, <1>8, <1>9, LeavesInv
<1>10. CASE p.batch # <<>>
  BY <1>1, <1>2, <1>7, <1>8, <1>10, LeavesInv
<1> QED BY <1>9, <1>10

LEMMA OperatorPickIdleInv == IInv /\ OperatorPickIdle => IInv'
PROOF
<1> SUFFICES ASSUME IInv, OperatorPickIdle PROVE IInv'
  OBVIOUS
<1>1. PICK r \in Started(st, now) :
          IF r.ok THEN Leaves(r.s)
          ELSE /\ st' = r.s
               /\ UNCHANGED <<disk, snap, live, worker, catchup, loop, file, scan, now, faults>>
  BY DEF OperatorPickIdle
<1>2. Sound(st) /\ scan \in 0..MaxScans /\ now \in Nat /\ Command /\ st.next <= MaxSeq + 1
  BY StationSound DEF OperatorPickIdle
<1>3. /\ r.ok \in BOOLEAN
      /\ r.ok => Sound(r.s) /\ r.s.cur # None /\ r.s.started = now
      /\ ~r.ok => /\ Typed(r.s) /\ SameRows(r.s, st)
                  /\ r.s.index = st.index /\ r.s.next = st.next
  BY <1>2, StartedSound DEF Sound
<1>4. CASE r.ok
  <2>1. Sound(r.s) /\ r.s.started <= now /\ Leaves(r.s)
    BY <1>1, <1>2, <1>3, <1>4
  <2> QED BY <1>2, <2>1, LeavesInv
<1>5. CASE ~r.ok
  <2>1. Sound(r.s) /\ InBounds(r.s) /\ SameRows(r.s, st)
    BY <1>2, <1>3, <1>5, SameRowsSound DEF InBounds
  <2> QED BY <1>1, <1>2, <1>5, <2>1, UnwrittenInv
<1> QED BY <1>3, <1>4, <1>5

LEMMA OperatorResetInv == IInv /\ OperatorReset => IInv'
PROOF
<1> SUFFICES ASSUME IInv, OperatorReset PROVE IInv'
  OBVIOUS
<1> DEFINE k == [Fresh EXCEPT !.catalog = st.catalog, !.mark = st.mark]
<1>1. PICK r \in Started(k, now) : Leaves(r.s)
  BY DEF OperatorReset
<1>2. Sound(st) /\ scan \in 0..MaxScans /\ now \in Nat /\ Command
  BY StationSound DEF OperatorReset
<1>3. Sound(k) /\ k.started = None
  <2>1. /\ k.cur = None /\ k.started = None /\ k.seq = None /\ k.index = 1 /\ k.batches = <<>>
        /\ k.banlist = <<>> /\ k.next = 1 /\ k.skip = {} /\ k.catalog = st.catalog
        /\ k.mark = st.mark /\ DOMAIN k = DOMAIN Fresh
    BY DEF Fresh
  <2>2. <<>> \in Seq(Seq(Track)) /\ Len(<<>>) = 0 /\ DOMAIN <<>> = {}
    OBVIOUS
  <2> HIDE DEF k
  <2> QED BY <1>2, <2>1, <2>2, RadioPickAssumption DEF Sound, Typed, Placed, Ahead
<1> HIDE DEF k
<1>4. /\ r.ok \in BOOLEAN
      /\ r.ok => Sound(r.s) /\ r.s.cur # None /\ r.s.started = now
      /\ ~r.ok => /\ Typed(r.s) /\ SameRows(r.s, k)
                  /\ r.s.index = k.index /\ r.s.next = k.next
  BY <1>2, <1>3, StartedSound DEF Sound
<1>5. Sound(r.s) /\ (r.s.started = None \/ r.s.started = now)
  BY <1>3, <1>4, SameRowsSound DEF SameRows
<1>6. r.s.started = None \/ r.s.started <= now
  BY <1>2, <1>5
<1> QED BY <1>1, <1>2, <1>5, <1>6, LeavesInv

-----------------------------------------------------------------------------
(* The worker, the process and the world.                                  *)

\* What a step of the clock at a time that has passed leaves.
LEMMA SteppedSound ==
    ASSUME IInv, NEW at \in Nat, at <= now, NEW skipBlocks \in BOOLEAN,
           NEW r \in Step(st, at, skipBlocks)
    PROVE  /\ r.dirty \in BOOLEAN
           /\ Sound(r.s)
           /\ r.s.started = None \/ r.s.started <= now
           /\ ~r.dirty => SameRows(r.s, st)
PROOF
<1>1. /\ Sound(st) /\ DOMAIN st.batches \subseteq 1..MaxSeq
      /\ scan \in 0..MaxScans /\ now \in Nat
  BY StationSound
<1>2. /\ r.dirty \in BOOLEAN
      /\ Sound(r.s)
      /\ r.s.started = st.started \/ (r.s.started \in Nat /\ r.s.started <= at)
      /\ ~r.dirty => SameRows(r.s, st)
  BY <1>1, StepSound
<1>3. st.started = None \/ st.started <= now
  BY DEF IInv, StartedInThePast
<1> QED BY <1>1, <1>2, <1>3

\* The worker's own commit, or the stash where nothing was dirty.
LEMMA WorkedInv ==
    ASSUME IInv, NEW s, Sound(s), InBounds(s), s.started = None \/ s.started <= now, st' = s,
           \/ Commit(s)
           \/ /\ Stash(s) /\ UNCHANGED <<disk, faults>>
              /\ faults = 0 => disk = Saved(s),
           live', worker' = "tick", loop' \in {"free", "blocked"},
           UNCHANGED <<catchup, file, scan, now, count>>
    PROVE  IInv'
PROOF
<1>1. snap' = Snapshot(s) /\ faults' = faults /\ faults \in Nat
  BY DEF Commit, Stash, IInv, TypeOK
<1>2. /\ DOMAIN st' = DOMAIN Fresh /\ RowsTyped(st)'
      /\ st'.index \in Nat \ {0} /\ st'.next \in 1..(MaxSeq + 1)
      /\ st'.skip \subseteq Track /\ st'.catalog \subseteq Track
      /\ st'.mark \in 0..MaxScans \cup {None}
      /\ file' \in [Track -> {"good", "bad", "gone"}]
      /\ scan' \in 0..MaxScans /\ now' \in Now
      /\ PlaceKept' /\ NumbersAhead' /\ StartedInThePast'
  BY StationInv
<1>3. /\ DOMAIN disk' = DOMAIN NoRows /\ RowsTyped(disk)' /\ RowsPlaced'
      /\ faults' = 0 => disk' = Saved(st')
  <2>1. CASE Commit(s)
    <3>1. disk' = Saved(s)
      BY <2>1 DEF Commit
    <3> QED BY <3>1, CommitInv
  <2>2. CASE disk' = disk /\ (faults = 0 => disk = Saved(s))
    BY <1>1, <2>2 DEF IInv, TypeOK, RowsTyped, RowsPlaced
  <2> QED BY <2>1, <2>2
<1>4. /\ snap' \in [face : {"catching_up", "idle", "skip_pending", "current"},
                    track : Track \cup {None}, started : Now \cup {None}]
      /\ FaceIsTheStation'
  BY <1>1, StashInv
<1>5. live' \in BOOLEAN
  OBVIOUS
<1>6. TypeOK'
  BY <1>1, <1>2, <1>3, <1>4, <1>5 DEF IInv, TypeOK
<1>7. WorkerControl' /\ RowsAreLoaded' /\ RowsAreTheStation'
  BY <1>3 DEF IInv, WorkerControl, RowsAreLoaded, RowsAreTheStation
<1> QED BY <1>2, <1>3, <1>4, <1>6, <1>7 DEF IInv

LEMMA CatchupBeginInv == IInv /\ CatchupBegin => IInv'
PROOF
<1> SUFFICES ASSUME IInv, CatchupBegin PROVE IInv'
  OBVIOUS
<1> DEFINE s == Loaded(st, disk)
<1>1. /\ Sound(s) /\ SameRows(s, disk)
      /\ DOMAIN s.batches \subseteq 1..MaxSeq /\ s.next <= MaxSeq + 1
  BY LoadedSound DEF IInv
<1>2. /\ worker' = "catching" /\ st' = s /\ catchup' = [at |-> now, dirty |-> FALSE]
      /\ UNCHANGED <<disk, snap, live, loop, file, scan, now, faults, count>>
      /\ worker = "boot"
  BY DEF CatchupBegin
<1> HIDE DEF s
<1>3. s.started = None \/ s.started <= now
  BY <1>1 DEF IInv, RowsPlaced, SameRows
<1>4. InBounds(s)
  BY <1>1 DEF InBounds
<1>5. /\ DOMAIN st' = DOMAIN Fresh /\ RowsTyped(st)'
      /\ st'.index \in Nat \ {0} /\ st'.next \in 1..(MaxSeq + 1)
      /\ st'.skip \subseteq Track /\ st'.catalog \subseteq Track
      /\ st'.mark \in 0..MaxScans \cup {None}
      /\ file' \in [Track -> {"good", "bad", "gone"}]
      /\ scan' \in 0..MaxScans /\ now' \in Now
      /\ PlaceKept' /\ NumbersAhead' /\ StartedInThePast'
  BY <1>1, <1>2, <1>3, <1>4, StationInv
<1>6. catchup' \in [at : Now, dirty : BOOLEAN] /\ catchup'.at <= now'
  BY <1>2, RadioStationAssumption DEF IInv, TypeOK, Now
<1>7. TypeOK'
  BY <1>2, <1>5, <1>6 DEF IInv, TypeOK, RowsTyped
<1>8. Saved(st') = disk'
  BY <1>1, <1>2, SameSaved DEF IInv, RowsPlaced
<1>9. ~live
  BY <1>2 DEF IInv, WorkerControl
<1>10. WorkerControl' /\ RowsPlaced'
  BY <1>2, <1>6, <1>9 DEF IInv, WorkerControl, RowsPlaced
<1>11. RowsAreLoaded' /\ RowsAreTheStation' /\ FaceIsTheStation'
  BY <1>2, <1>8, <1>9 DEF RowsAreLoaded, RowsAreTheStation, FaceIsTheStation
<1> QED BY <1>5, <1>7, <1>10, <1>11 DEF IInv

LEMMA CatchupStepInv == IInv /\ CatchupStep => IInv'
PROOF
<1> SUFFICES ASSUME IInv, CatchupStep PROVE IInv'
  OBVIOUS
<1>1. PICK r \in Step(st, catchup.at, FALSE) : InBounds(r.s) /\ st' = r.s
  BY DEF CatchupStep
<1>2. /\ worker = "catching" /\ catchup' = [catchup EXCEPT !.dirty = TRUE]
      /\ UNCHANGED <<disk, snap, live, worker, loop, file, scan, now, faults, count>>
  BY DEF CatchupStep
<1>3. catchup.at \in Nat /\ catchup.at <= now
  BY RadioStationAssumption DEF IInv, TypeOK, WorkerControl, Now
<1>4. Sound(r.s) /\ (r.s.started = None \/ r.s.started <= now)
  BY <1>1, <1>3, SteppedSound
<1>5. /\ DOMAIN st' = DOMAIN Fresh /\ RowsTyped(st)'
      /\ st'.index \in Nat \ {0} /\ st'.next \in 1..(MaxSeq + 1)
      /\ st'.skip \subseteq Track /\ st'.catalog \subseteq Track
      /\ st'.mark \in 0..MaxScans \cup {None}
      /\ file' \in [Track -> {"good", "bad", "gone"}]
      /\ scan' \in 0..MaxScans /\ now' \in Now
      /\ PlaceKept' /\ NumbersAhead' /\ StartedInThePast'
  BY <1>1, <1>2, <1>4, StationInv
<1>6. catchup' \in [at : Now, dirty : BOOLEAN] /\ catchup'.at = catchup.at /\ catchup'.dirty = TRUE
  BY <1>2 DEF IInv, TypeOK
<1>7. TypeOK'
  <2>1. TypeOK
    BY DEF IInv
  <2>2. RowsTyped(disk)'
    BY <1>2, <2>1 DEF TypeOK, RowsTyped
  <2> QED BY <1>2, <1>5, <1>6, <2>1, <2>2 DEF TypeOK
<1>8. ~live
  BY <1>2 DEF IInv, WorkerControl
<1>9. WorkerControl' /\ RowsPlaced'
  BY <1>2, <1>6 DEF IInv, WorkerControl, RowsPlaced
<1>10. RowsAreLoaded' /\ RowsAreTheStation' /\ FaceIsTheStation'
  BY <1>2, <1>6, <1>8 DEF RowsAreLoaded, RowsAreTheStation, FaceIsTheStation
<1> QED BY <1>5, <1>7, <1>9, <1>10 DEF IInv

LEMMA CatchupLandInv == IInv /\ CatchupLand => IInv'
PROOF
<1> SUFFICES ASSUME IInv, CatchupLand PROVE IInv'
  OBVIOUS
<1>1. PICK r \in Step(st, catchup.at, FALSE) :
          /\ InBounds(r.s) /\ st' = r.s
          /\ IF catchup.dirty \/ r.dirty THEN Commit(r.s)
             ELSE Stash(r.s) /\ UNCHANGED <<disk, faults>>
  BY DEF CatchupLand
<1>2. /\ worker = "catching" /\ live' = TRUE /\ worker' = "tick" /\ loop' = "free"
      /\ UNCHANGED <<catchup, file, scan, now, count>>
  BY DEF CatchupLand
<1>3. catchup.at \in Nat /\ catchup.at <= now
  BY RadioStationAssumption DEF IInv, TypeOK, WorkerControl, Now
<1>4. /\ r.dirty \in BOOLEAN
      /\ Sound(r.s) /\ (r.s.started = None \/ r.s.started <= now)
      /\ ~r.dirty => SameRows(r.s, st)
  BY <1>3, SteppedSound
<1>5. ~catchup.dirty /\ ~r.dirty /\ faults = 0 => disk = Saved(r.s)
  BY <1>2, <1>4, SameSaved DEF IInv, RowsAreLoaded
<1> QED BY <1>1, <1>2, <1>4, <1>5, WorkedInv

LEMMA TickInv == IInv /\ Tick => IInv'
PROOF
<1> SUFFICES ASSUME IInv, Tick PROVE IInv'
  OBVIOUS
<1>1. PICK r \in Step(st, now, TRUE) :
          /\ InBounds(r.s) /\ st' = r.s
          /\ IF r.dirty THEN Commit(r.s) ELSE Stash(r.s) /\ UNCHANGED <<disk, faults>>
  BY DEF Tick
<1>2. /\ worker = "tick" /\ UNCHANGED <<live, worker, catchup, loop, file, scan, now, count>>
  BY DEF Tick
<1>3. now \in Nat /\ now <= now
  BY StationSound
<1>4. /\ r.dirty \in BOOLEAN
      /\ Sound(r.s) /\ (r.s.started = None \/ r.s.started <= now)
      /\ ~r.dirty => SameRows(r.s, st)
  BY <1>3, SteppedSound
<1>5. ~r.dirty /\ faults = 0 => disk = Saved(r.s)
  BY <1>2, <1>4, SameSaved DEF IInv, RowsAreTheStation
<1>6. live' /\ worker' = "tick" /\ loop' \in {"free", "blocked"}
  BY <1>2 DEF IInv, WorkerControl, TypeOK
<1> QED BY <1>1, <1>2, <1>4, <1>5, <1>6, WorkedInv

LEMMA WorkerRaisesInv == IInv /\ WorkerRaises => IInv'
PROOF
<1> SUFFICES ASSUME IInv, WorkerRaises PROVE IInv'
  OBVIOUS
<1>1. \E r : /\ r \in Step(st, now, TRUE) \/ r \in Step(st, catchup.at, FALSE)
             /\ InBounds(r.s) /\ st' = r.s
  BY DEF WorkerRaises
<1>2. PICK r : /\ r \in Step(st, now, TRUE) \/ r \in Step(st, catchup.at, FALSE)
               /\ InBounds(r.s) /\ st' = r.s
  BY <1>1
<1>3. /\ faults' = faults + 1 /\ disk' \in {disk, Saved(st')} /\ worker' = "dead" /\ loop' = "free"
      /\ UNCHANGED <<snap, live, catchup, file, scan, now, count>>
  BY DEF WorkerRaises
<1>4. catchup.at \in Nat /\ catchup.at <= now /\ now \in Nat /\ now <= now
  BY RadioStationAssumption DEF IInv, TypeOK, WorkerControl, Now
<1>5. Sound(r.s) /\ (r.s.started = None \/ r.s.started <= now)
  <2>1. CASE r \in Step(st, now, TRUE)
    BY <1>4, <2>1, SteppedSound
  <2>2. CASE r \in Step(st, catchup.at, FALSE)
    BY <1>4, <2>2, SteppedSound
  <2> QED BY <1>2, <2>1, <2>2
<1>6. /\ DOMAIN st' = DOMAIN Fresh /\ RowsTyped(st)'
      /\ st'.index \in Nat \ {0} /\ st'.next \in 1..(MaxSeq + 1)
      /\ st'.skip \subseteq Track /\ st'.catalog \subseteq Track
      /\ st'.mark \in 0..MaxScans \cup {None}
      /\ file' \in [Track -> {"good", "bad", "gone"}]
      /\ scan' \in 0..MaxScans /\ now' \in Now
      /\ PlaceKept' /\ NumbersAhead' /\ StartedInThePast'
  BY <1>2, <1>3, <1>5, StationInv
<1>7. DOMAIN disk' = DOMAIN NoRows /\ RowsTyped(disk)' /\ RowsPlaced'
  <2>1. CASE disk' = disk
    BY <1>3, <2>1 DEF IInv, TypeOK, RowsTyped, RowsPlaced
  <2>2. CASE disk' = Saved(r.s)
    BY <1>2, <1>3, <1>5, <2>2, CommitInv
  <2> QED BY <1>2, <1>3, <2>1, <2>2
<1>8. faults' \in Nat /\ faults' > 0
  BY <1>3 DEF IInv, TypeOK
<1>9. TypeOK'
  BY <1>3, <1>6, <1>7, <1>8 DEF IInv, TypeOK
<1>10. WorkerControl' /\ RowsAreLoaded' /\ RowsAreTheStation' /\ FaceIsTheStation'
  BY <1>3, <1>8
  DEF IInv, WorkerControl, RowsAreLoaded, RowsAreTheStation, FaceIsTheStation
<1> QED BY <1>6, <1>7, <1>9, <1>10 DEF IInv

\* A stop keeps the rows, or writes the station's.
LEMMA StopInv ==
    ASSUME IInv, NEW rows, Stop(rows), rows = disk \/ rows = Saved(st)
    PROVE  IInv'
PROOF
<1>1. /\ disk' = rows /\ st' = Fresh /\ snap' = CatchingUp /\ ~live' /\ live' = FALSE
      /\ worker' = "down" /\ loop' = "free"
      /\ count' \in [commands : Nat, changes : Nat, stops : Nat]
      /\ UNCHANGED <<catchup, file, scan, now, faults>>
  BY DEF Stop, IInv, TypeOK
<1>2. Sound(Fresh) /\ InBounds(Fresh) /\ Fresh.started = None
  BY FreshSound, RadioStationAssumption DEF InBounds, Fresh
<1>3. /\ DOMAIN st' = DOMAIN Fresh /\ RowsTyped(st)'
      /\ st'.index \in Nat \ {0} /\ st'.next \in 1..(MaxSeq + 1)
      /\ st'.skip \subseteq Track /\ st'.catalog \subseteq Track
      /\ st'.mark \in 0..MaxScans \cup {None}
      /\ file' \in [Track -> {"good", "bad", "gone"}]
      /\ scan' \in 0..MaxScans /\ now' \in Now
      /\ PlaceKept' /\ NumbersAhead' /\ StartedInThePast'
  BY <1>1, <1>2, StationInv
<1>4. DOMAIN disk' = DOMAIN NoRows /\ RowsTyped(disk)' /\ RowsPlaced'
  <2>1. CASE rows = disk
    BY <1>1, <2>1 DEF IInv, TypeOK, RowsTyped, RowsPlaced
  <2>2. CASE rows = Saved(st)
    <3>1. Sound(st) /\ InBounds(st) /\ (st.started = None \/ st.started <= now)
      BY StationSound DEF IInv, StartedInThePast, InBounds
    <3> QED BY <1>1, <2>2, <3>1, CommitInv
  <2> QED BY <2>1, <2>2
<1>5. snap' \in [face : {"catching_up", "idle", "skip_pending", "current"},
                 track : Track \cup {None}, started : Now \cup {None}]
  BY <1>1 DEF CatchingUp
<1>6. TypeOK'
  BY <1>1, <1>3, <1>4, <1>5 DEF IInv, TypeOK
<1>7. WorkerControl' /\ RowsAreLoaded' /\ RowsAreTheStation' /\ FaceIsTheStation'
  BY <1>1 DEF IInv, WorkerControl, RowsAreLoaded, RowsAreTheStation, FaceIsTheStation
<1> QED BY <1>3, <1>4, <1>6, <1>7 DEF IInv

\* Time, files, scans, listeners and a new boot leave the station alone.
LEMMA WorldInv ==
    ASSUME IInv,
           UNCHANGED <<st, disk, snap, live, catchup, faults>>,
           worker' = worker \/ (worker = "down" /\ worker' = "boot"),
           loop' \in {"free", "blocked"},
           file' \in [Track -> {"good", "bad", "gone"}],
           scan' \in 0..MaxScans, now' \in Now, now <= now',
           count' \in [commands : Nat, changes : Nat, stops : Nat]
    PROVE  IInv'
PROOF
<1>1. now \in Nat /\ now' \in Nat
  BY RadioStationAssumption DEF IInv, TypeOK, Now
<1>2. TypeOK'
  <2>1. TypeOK
    BY DEF IInv
  <2>2. worker' \in {"down", "boot", "catching", "tick", "dead"}
    BY <2>1 DEF TypeOK
  <2>3. RowsTyped(st)' /\ RowsTyped(disk)'
    BY <2>1 DEF TypeOK, RowsTyped
  <2> QED BY <2>1, <2>2, <2>3 DEF TypeOK
<1>3. \A i \in Now : i <= now => i <= now'
  BY <1>1, RadioStationAssumption DEF Now
<1>4. st.started \in Now \cup {None} /\ disk.started \in Now \cup {None} /\ catchup.at \in Now
  BY DEF IInv, TypeOK, RowsTyped
<1>5. StartedInThePast' /\ RowsPlaced'
  BY <1>3, <1>4 DEF IInv, StartedInThePast, RowsPlaced
<1>6. WorkerControl'
  BY <1>3, <1>4 DEF IInv, WorkerControl
<1>7. PlaceKept' /\ NumbersAhead'
  BY DEF IInv, PlaceKept, NumbersAhead
<1>8. RowsAreLoaded' /\ RowsAreTheStation' /\ FaceIsTheStation'
  BY DEF IInv, RowsAreLoaded, RowsAreTheStation, FaceIsTheStation
<1> QED BY <1>2, <1>5, <1>6, <1>7, <1>8 DEF IInv

LEMMA NextInv == IInv /\ [Next]_vars => IInv'
PROOF
<1> SUFFICES ASSUME IInv, [Next]_vars PROVE IInv'
  OBVIOUS
<1>1. /\ now \in Now /\ scan \in 0..MaxScans /\ file \in [Track -> {"good", "bad", "gone"}]
      /\ loop \in {"free", "blocked"} /\ count \in [commands : Nat, changes : Nat, stops : Nat]
      /\ now \in Nat /\ scan \in Nat
  BY RadioStationAssumption DEF IInv, TypeOK, Now
<1>2. CASE CatchupBegin \/ CatchupStep \/ CatchupLand \/ Tick \/ WorkerRaises
  BY <1>2, CatchupBeginInv, CatchupStepInv, CatchupLandInv, TickInv, WorkerRaisesInv
<1>3. CASE OperatorSkip \/ OperatorPick \/ OperatorPickIdle \/ OperatorReset \/ ClearSkipIds
  BY <1>3, OperatorSkipInv, OperatorPickInv, OperatorPickIdleInv, OperatorResetInv,
     ClearSkipIdsInv
<1>4. ASSUME NEW t \in Track, OperatorPlay(t) \/ OperatorPlayRefused(t) PROVE IInv'
  BY <1>4, OperatorPlayInv, OperatorPlayRefusedInv
<1>5. ASSUME NEW t \in Track, FileChanges(t) PROVE IInv'
  <2>1. file' \in [Track -> {"good", "bad", "gone"}]
        /\ count' \in [commands : Nat, changes : Nat, stops : Nat]
    BY <1>1, <1>5 DEF FileChanges
  <2>2. UNCHANGED <<st, disk, snap, live, worker, catchup, loop, scan, now, faults>>
    BY <1>5 DEF FileChanges
  <2> QED BY <1>1, <2>1, <2>2, WorldInv
<1>6. CASE Shutdown \/ Crash
  BY <1>6, StopInv DEF Shutdown, Crash
<1>7. CASE Read
  BY <1>1, <1>7, WorldInv DEF Read
<1>8. CASE Restart
  BY <1>1, <1>8, WorldInv DEF Restart
<1>9. CASE ScanFinishes
  <2>1. scan' \in 0..MaxScans
    BY <1>1, <1>9, RadioStationAssumption DEF ScanFinishes
  <2> QED BY <1>1, <1>9, <2>1, WorldInv DEF ScanFinishes
<1>10. CASE TimePasses
  <2>1. now' \in Now /\ now <= now'
    BY <1>1, <1>10, RadioStationAssumption DEF TimePasses, Now
  <2> QED BY <1>1, <1>10, <2>1, WorldInv DEF TimePasses
<1>11. CASE UNCHANGED vars
  BY <1>1, <1>11, WorldInv DEF vars
<1> QED BY <1>2, <1>3, <1>4, <1>5, <1>6, <1>7, <1>8, <1>9, <1>10, <1>11 DEF Next

-----------------------------------------------------------------------------
(* Theorems.                                                               *)

\* The station, its rows, its face and its worker keep to IInv in every state
\* (radio/station.py), for any tracks, durations, batch sizes and bounds.
THEOREM Inductive == Spec => []IInv
BY InitInv, NextInv, PTL DEF Spec

\* Every variable keeps to its type.
THEOREM TypeCorrect == Spec => []TypeOK
PROOF
<1>1. IInv => TypeOK
  BY DEF IInv
<1> QED BY <1>1, Inductive, PTL

\* The place in the queue and the current id agree after every advance, debug
\* command, failed commit and restart.
THEOREM PlaceIsKept == Spec => []PlaceKept
PROOF
<1>1. IInv => PlaceKept
  BY DEF IInv
<1> QED BY <1>1, Inductive, PTL

\* What will play is among the ids that forget must not evict: _peek_upcoming_ids
\* looks for the first place of the id, which is never after the clock's own.
THEOREM RetainsAll == Spec => []RetainsWhatPlays
PROOF
<1>1. IInv => RetainsWhatPlays
  <2> SUFFICES ASSUME IInv, st.cur # None PROVE {st.cur} \cup Remainder(st) \subseteq Retained(st)
    BY DEF RetainsWhatPlays
  <2> DEFINE here == <<st.seq, st.index>>
  <2>1. here \in Positions(st) /\ At(st, here) = st.cur /\ st.seq # None
    <3>1. /\ st.seq \in DOMAIN st.batches /\ st.index \in DOMAIN st.batches[st.seq]
          /\ st.batches[st.seq][st.index] = st.cur
      BY DEF IInv, PlaceKept
    <3>2. st.seq # None
      BY <3>1, StationSound, RadioStationAssumption
    <3>3. here \in Positions(st)
      BY <3>1 DEF Positions
    <3> QED BY <3>1, <3>2, <3>3 DEF At
  <2>2. ASSUME NEW p \in Upcoming(st) PROVE p \in Positions(st) /\ Precedes(here, p)
    BY <2>2, <2>1 DEF Upcoming
  <2> HIDE DEF here
  <2>3. Remainder(st) \subseteq Retained(st)
    BY <2>1, <2>2 DEF Remainder, Retained
  <2>4. st.cur \in Retained(st)
    BY DEF Retained
  <2> QED BY <2>3, <2>4
<1> QED BY <1>1, Inductive, PTL

\* The current track started in the past, whatever started it.
THEOREM StartIsPast == Spec => []StartedInThePast
PROOF
<1>1. IInv => StartedInThePast
  BY DEF IInv
<1> QED BY <1>1, Inductive, PTL

\* Until a commit fails the rows are the station.
THEOREM RowsAgree == Spec => []RowsAreTheStation
PROOF
<1>1. IInv => RowsAreTheStation
  BY DEF IInv
<1> QED BY <1>1, Inductive, PTL

\* Until a commit fails the public face shows the station's track and start.
THEOREM FaceAgrees == Spec => []FaceIsTheStation
PROOF
<1>1. IInv => FaceIsTheStation
  BY DEF IInv
<1> QED BY <1>1, Inductive, PTL

\* No batch that is queued has a number the next one will take.
THEOREM NextIsAhead == Spec => []NumbersAhead
PROOF
<1>1. IInv => NumbersAhead
  BY DEF IInv
<1> QED BY <1>1, Inductive, PTL
=============================================================================
