-------------------------- MODULE LibraryIndexProofs --------------------------
(***************************************************************************)
(* Proofs about LibraryIndex: no flush meets a UNIQUE column, files and    *)
(* playlists keep their ids, and a file that stays where it is stays       *)
(* listed, for any library, any batch size and any bounds.                 *)
(***************************************************************************)
EXTENDS LibraryIndex, TLAPS

-----------------------------------------------------------------------------
(* What becomes of the table.                                              *)

Table == [Id -> Row \cup {None}]

LEMMA OwnerSays ==
    ASSUME NEW t \in Table, NEW held, Unique(t), Keyed(t, held), NEW c \in Content
    PROVE  /\ Owner(t, c) \in Id
           /\ t[Owner(t, c)] # None => t[Owner(t, c)].fp = c
           /\ \A j \in Id \ {Owner(t, c)} : t[j] # None => t[j].fp # c
           /\ Owner(t, c) \in Content => Owner(t, c) = c
           /\ Owner(t, c) \in Slot => t[Owner(t, c)] # None
PROOF
<1>1. CASE \E i \in Id : t[i] # None /\ t[i].fp = c
  <2>1. Owner(t, c) \in Id /\ t[Owner(t, c)] # None /\ t[Owner(t, c)].fp = c
    BY <1>1 DEF Owner
  <2> QED BY <2>1 DEF Unique, Keyed
<1>2. CASE ~\E i \in Id : t[i] # None /\ t[i].fp = c
  <2>1. Owner(t, c) = c /\ c \in Id
    BY <1>2 DEF Owner, Id
  <2>2. c \notin Slot
    BY LibraryIndexAssumption
  <2> QED BY <1>2, <2>1, <2>2 DEF Keyed
<1> QED BY <1>1, <1>2

\* The row of the content c takes the path of the file in hand; a row of other
\* content that held it is left without one; the others are as they were.
LEMMA AppliedSays ==
    ASSUME NEW t \in Table, NEW held, Unique(t), Keyed(t, held), NEW c \in Content,
           NEW e \in [path : Path, stat : File, meta : File]
    PROVE  LET i == Owner(t, c)
               u == Applied(t, c, e)
           IN
           /\ u \in Table /\ i \in Id
           /\ u[i] # None /\ u[i].fp = c /\ u[i].path = e.path
           /\ u[i].stat = e.stat /\ u[i].slot = e.meta.slot
           /\ t[i] = None => ~u[i].unripped
           /\ t[i] # None => t[i].fp = c /\ (u[i].unripped <=> t[i].unripped)
           /\ \A j \in Id \ {i} :
                  /\ (u[j] = None) <=> (t[j] = None)
                  /\ t[j] # None =>
                         /\ u[j].fp = t[j].fp /\ t[j].fp # c
                         /\ u[j].unripped <=> t[j].unripped
                         /\ u[j].stat = t[j].stat /\ u[j].slot = t[j].slot
                         /\ u[j].path = IF t[j].path = e.path THEN None ELSE t[j].path
PROOF
<1> DEFINE i == Owner(t, c)
           f == Freed(t, e.path, c)
           u == Applied(t, c, e)
           keep == IF t[i] = None THEN FALSE ELSE t[i].unripped
           r == Entry(c, e.stat, e.meta, e.path, keep)
<1>1. /\ i \in Id
      /\ t[i] # None => t[i].fp = c
      /\ \A j \in Id \ {i} : t[j] # None => t[j].fp # c
  BY OwnerSays
<1>2. u = [f EXCEPT ![i] = r]
  BY DEF Applied
<1> HIDE DEF i
<1>3. keep \in BOOLEAN /\ (t[i] = None => ~keep) /\ (t[i] # None => (keep <=> t[i].unripped))
  BY <1>1 DEF Table, Row
<1> HIDE DEF keep
<1>4. /\ r \in Row /\ r.fp = c /\ r.path = e.path /\ r.unripped = keep
      /\ r.stat = e.stat /\ r.slot = e.meta.slot
  BY <1>3 DEF Entry, Row, Id, File
<1> HIDE DEF r
<1>5. /\ f = [j \in Id |-> f[j]]
      /\ \A j \in Id : f[j] = IF Present(t[j]) /\ t[j].path = e.path /\ t[j].fp # c
                              THEN [t[j] EXCEPT !.path = None] ELSE t[j]
  BY DEF Freed
<1> HIDE DEF f, u
<1>6. ASSUME NEW j \in Id, t[j] # None, t[j].path = e.path, t[j].fp # c
      PROVE  /\ f[j] \in Row /\ f[j].fp = t[j].fp /\ f[j].path = None
             /\ f[j].unripped = t[j].unripped
             /\ f[j].stat = t[j].stat /\ f[j].slot = t[j].slot
  <2>1. t[j] \in Row /\ Present(t[j])
    BY <1>6, LibraryIndexAssumption DEF Table, Present
  <2>2. f[j] = [t[j] EXCEPT !.path = None]
    BY <1>5, <1>6, <2>1
  <2> QED BY <2>1, <2>2 DEF Row
<1>7. ASSUME NEW j \in Id, ~(t[j] # None /\ t[j].path = e.path /\ t[j].fp # c)
      PROVE  f[j] = t[j]
  BY <1>5, <1>7 DEF Present
<1>8. \A j \in Id : f[j] \in Row \cup {None}
  BY <1>6, <1>7 DEF Table
<1>9. f \in Table
  BY <1>5, <1>8 DEF Table
<1>10. u \in Table /\ u[i] = r /\ \A j \in Id \ {i} : u[j] = f[j]
  BY <1>1, <1>2, <1>4, <1>9 DEF Table
<1>11. r # None
  BY <1>4, NoneAssumption
<1>12. ASSUME NEW j \in Id \ {i}
       PROVE  /\ (u[j] = None) <=> (t[j] = None)
              /\ t[j] # None =>
                     /\ u[j].fp = t[j].fp /\ t[j].fp # c
                     /\ u[j].unripped = t[j].unripped
                     /\ u[j].stat = t[j].stat /\ u[j].slot = t[j].slot
                     /\ u[j].path = IF t[j].path = e.path THEN None ELSE t[j].path
  <2>1. CASE t[j] # None /\ t[j].path = e.path
    BY <1>1, <1>6, <1>10, <2>1, NoneAssumption
  <2>2. CASE ~(t[j] # None /\ t[j].path = e.path)
    BY <1>1, <1>7, <1>10, <2>2
  <2> QED BY <2>1, <2>2
<1>13. \A j \in Id \ {i} :
           /\ (u[j] = None) <=> (t[j] = None)
           /\ t[j] # None =>
                  /\ u[j].fp = t[j].fp /\ t[j].fp # c
                  /\ u[j].unripped <=> t[j].unripped
                  /\ u[j].stat = t[j].stat /\ u[j].slot = t[j].slot
                  /\ u[j].path = IF t[j].path = e.path THEN None ELSE t[j].path
  BY <1>12
<1>14. /\ u[i] # None /\ u[i].fp = c /\ u[i].path = e.path
       /\ u[i].stat = e.stat /\ u[i].slot = e.meta.slot
       /\ t[i] = None => ~u[i].unripped
       /\ t[i] # None => t[i].fp = c /\ (u[i].unripped <=> t[i].unripped)
  BY <1>1, <1>3, <1>4, <1>10, <1>11
<1> QED BY <1>1, <1>10, <1>13, <1>14 DEF i, u

LEMMA AppliedGood ==
    ASSUME NEW t \in Table, NEW held \in SUBSET Id, Unique(t), Keyed(t, held), NEW c \in Content,
           NEW e \in [path : Path, stat : File, meta : File]
    PROVE  Unique(Applied(t, c, e)) /\ Keyed(Applied(t, c, e), held)
PROOF
<1> DEFINE i == Owner(t, c)
           u == Applied(t, c, e)
<1>1. /\ u \in Table /\ i \in Id
      /\ u[i] # None /\ u[i].fp = c /\ u[i].path = e.path
      /\ t[i] = None => ~u[i].unripped
      /\ t[i] # None => t[i].fp = c /\ (u[i].unripped <=> t[i].unripped)
      /\ \A j \in Id \ {i} :
             /\ (u[j] = None) <=> (t[j] = None)
             /\ t[j] # None =>
                    /\ u[j].fp = t[j].fp /\ t[j].fp # c
                    /\ u[j].unripped <=> t[j].unripped
                    /\ u[j].path = IF t[j].path = e.path THEN None ELSE t[j].path
  BY AppliedSays
<1>2. (i \in Content => i = c) /\ (i \in Slot => t[i] # None)
  BY OwnerSays
<1> HIDE DEF i, u
<1>3. e.path # None
  BY LibraryIndexAssumption
<1>4. Unique(u)
  <2> SUFFICES ASSUME NEW j \in Id, NEW k \in Id, j # k, u[j] # None, u[k] # None
               PROVE  u[j].fp # u[k].fp /\ (u[j].path # u[k].path \/ u[j].path = None)
    BY DEF Unique
  <2>1. CASE j # i /\ k # i
    BY <1>1, <2>1 DEF Unique
  <2>2. CASE j = i
    BY <1>1, <1>3, <2>2
  <2>3. CASE k = i
    BY <1>1, <1>3, <2>3
  <2> QED BY <2>1, <2>2, <2>3
<1>5. Keyed(u, held)
  <2>1. ASSUME NEW d \in Content, u[d] # None PROVE u[d].fp = d
    BY <1>1, <1>2, <2>1 DEF Keyed, Id
  <2>2. ASSUME NEW s \in Slot, u[s] # None
        PROVE  (s # i \/ s = i) /\ (u[s].unripped <=> u[s].fp = s) /\ u[s].fp \in Content \cup {s}
    BY <1>1, <1>2, <2>2 DEF Keyed, Id
  <2>3. \A j \in held : u[j] # None
    BY <1>1 DEF Keyed
  <2> QED BY <2>1, <2>2, <2>3 DEF Keyed
<1> QED BY <1>4, <1>5 DEF u

\* The stub s takes over the row i, which goes.
LEMMA MergedSays ==
    ASSUME NEW t \in Table, NEW i \in Id, NEW s \in Id \ {i}, t[i] # None
    PROVE  LET u == MergedInto(t, i, s) IN
           /\ u \in Table /\ u[i] = None
           /\ u[s] # None /\ u[s].fp = t[i].fp /\ u[s].path = t[i].path /\ ~u[s].unripped
           /\ u[s].stat = t[i].stat /\ u[s].slot = t[i].slot
           /\ \A j \in Id \ {i, s} : u[j] = t[j]
PROOF
<1> DEFINE r == [t[i] EXCEPT !.unripped = FALSE]
           u == MergedInto(t, i, s)
<1>1. /\ r \in Row /\ r.fp = t[i].fp /\ r.path = t[i].path /\ ~r.unripped
      /\ r.stat = t[i].stat /\ r.slot = t[i].slot
  BY DEF Table, Row
<1>2. r # None
  BY <1>1, NoneAssumption
<1>3. u = [t EXCEPT ![s] = r, ![i] = None]
  BY DEF MergedInto
<1> HIDE DEF r, u
<1>4. /\ u \in Table /\ u[i] = None /\ u[s] = r
      /\ \A j \in Id \ {i, s} : u[j] = t[j]
  BY <1>1, <1>3 DEF Table
<1> QED BY <1>1, <1>2, <1>4 DEF u

LEMMA MergedGood ==
    ASSUME NEW t \in Table, NEW held \in SUBSET Id, Unique(t), Keyed(t, held),
           NEW i \in Id \ held, NEW s \in Slot \ {i},
           t[i] # None, t[i].fp \in Content, t[s] # None, t[s].unripped
    PROVE  Unique(MergedInto(t, i, s)) /\ Keyed(MergedInto(t, i, s), held)
PROOF
<1> DEFINE u == MergedInto(t, i, s)
<1>1. s \in Id \ {i}
  BY DEF Id
<1>2. /\ u \in Table /\ u[i] = None
      /\ u[s] # None /\ u[s].fp = t[i].fp /\ u[s].path = t[i].path /\ ~u[s].unripped
      /\ \A j \in Id \ {i, s} : u[j] = t[j]
  BY <1>1, MergedSays
<1> HIDE DEF u
<1>3. s \notin Content /\ u[s].fp # s
  BY <1>2, LibraryIndexAssumption
<1>4. Unique(u)
  <2> SUFFICES ASSUME NEW j \in Id, NEW k \in Id, j # k, u[j] # None, u[k] # None
               PROVE  u[j].fp # u[k].fp /\ (u[j].path # u[k].path \/ u[j].path = None)
    BY DEF Unique
  <2>1. CASE j # s /\ k # s
    BY <1>2, <2>1 DEF Unique
  <2>2. CASE j = s
    BY <1>1, <1>2, <2>2 DEF Unique
  <2>3. CASE k = s
    BY <1>1, <1>2, <2>3 DEF Unique
  <2> QED BY <2>1, <2>2, <2>3
<1>5. Keyed(u, held)
  <2>1. ASSUME NEW d \in Content, u[d] # None PROVE u[d].fp = d
    BY <1>2, <1>3, <2>1 DEF Keyed, Id
  <2>2. ASSUME NEW q \in Slot, u[q] # None
        PROVE  (u[q].unripped <=> u[q].fp = q) /\ u[q].fp \in Content \cup {q}
    BY <1>2, <1>3, <2>2 DEF Keyed, Id
  <2>3. \A j \in held : u[j] # None
    BY <1>2 DEF Keyed
  <2> QED BY <2>1, <2>2, <2>3 DEF Keyed
<1> QED BY <1>4, <1>5 DEF u

\* What is not seen loses its path; no row goes.
LEMMA HiddenSays ==
    ASSUME NEW t \in Table, NEW paths \in SUBSET Path
    PROVE  LET u == Hidden(t, paths) IN
           /\ u \in Table
           /\ \A j \in Id :
                  /\ (u[j] = None) <=> (t[j] = None)
                  /\ t[j] # None =>
                         /\ u[j].fp = t[j].fp /\ u[j].unripped = t[j].unripped
                         /\ u[j].slot = t[j].slot
                         /\ u[j].path = IF t[j].path \in paths THEN t[j].path ELSE None
PROOF
<1> DEFINE u == Hidden(t, paths)
<1>1. /\ u = [j \in Id |-> u[j]]
      /\ \A j \in Id : u[j] = IF Present(t[j]) /\ t[j].path \notin paths
                              THEN [t[j] EXCEPT !.path = None] ELSE t[j]
  BY DEF Hidden
<1> HIDE DEF u
<1>2. ASSUME NEW j \in Id, t[j] # None, t[j].path \notin paths, t[j].path # None
      PROVE  /\ u[j] \in Row /\ u[j].fp = t[j].fp /\ u[j].path = None
             /\ u[j].unripped = t[j].unripped /\ u[j].slot = t[j].slot
  <2>1. t[j] \in Row /\ u[j] = [t[j] EXCEPT !.path = None]
    BY <1>1, <1>2 DEF Table, Present
  <2> QED BY <2>1 DEF Row
<1>3. ASSUME NEW j \in Id, ~(t[j] # None /\ t[j].path \notin paths /\ t[j].path # None)
      PROVE  u[j] = t[j]
  BY <1>1, <1>3 DEF Present
<1>4. \A j \in Id : u[j] \in Row \cup {None}
  BY <1>2, <1>3 DEF Table
<1>5. u \in Table
  BY <1>1, <1>4 DEF Table
<1>6. ASSUME NEW j \in Id
      PROVE  /\ (u[j] = None) <=> (t[j] = None)
             /\ t[j] # None =>
                    /\ u[j].fp = t[j].fp /\ u[j].unripped = t[j].unripped
                    /\ u[j].slot = t[j].slot
                    /\ u[j].path = IF t[j].path \in paths THEN t[j].path ELSE None
  <2>1. CASE t[j] # None /\ t[j].path \notin paths /\ t[j].path # None
    BY <1>2, <2>1, NoneAssumption
  <2>2. CASE ~(t[j] # None /\ t[j].path \notin paths /\ t[j].path # None)
    BY <1>3, <2>2
  <2> QED BY <2>1, <2>2
<1> QED BY <1>5, <1>6 DEF u

LEMMA HiddenGood ==
    ASSUME NEW t \in Table, NEW held \in SUBSET Id, Unique(t), Keyed(t, held),
           NEW paths \in SUBSET Path
    PROVE  Unique(Hidden(t, paths)) /\ Keyed(Hidden(t, paths), held)
PROOF
<1> DEFINE u == Hidden(t, paths)
<1>1. \A j \in Id :
          /\ (u[j] = None) <=> (t[j] = None)
          /\ t[j] # None =>
                 /\ u[j].fp = t[j].fp /\ u[j].unripped = t[j].unripped
                 /\ u[j].path = IF t[j].path \in paths THEN t[j].path ELSE None
  BY HiddenSays
<1> HIDE DEF u
<1>2. Unique(u)
  BY <1>1 DEF Unique
<1>3. Keyed(u, held)
  BY <1>1 DEF Keyed, Id
<1> QED BY <1>2, <1>3 DEF u

\* A confirmed disc keeps every row and its path; a place that was read as hidden
\* or not there is a stub afterwards.
Stubbed(t, u) ==
    \A j \in Id :
        \/ u[j] = t[j]
        \/ /\ t[j] # None /\ u[j] # None
           /\ u[j].fp = t[j].fp /\ u[j].path = t[j].path
           /\ u[j].unripped = t[j].unripped
        \/ /\ j \in Slot /\ u[j] # None /\ u[j].fp = j /\ u[j].unripped
           /\ u[j].path = IF t[j] = None THEN None ELSE t[j].path

LEMMA StubSays ==
    ASSUME NEW s \in Slot, NEW read \in Row \cup {None}, NEW now \in Row \cup {None},
           read = None <=> now = None,
           read # None => (read.unripped <=> read.fp = s)
    PROVE  LET r == Stub(s, read, now) IN
           /\ r \in Row /\ r # None
           /\ r.path = IF now = None THEN None ELSE now.path
           /\ \/ now # None /\ r.fp = now.fp /\ r.unripped = now.unripped
              \/ r.fp = s /\ r.unripped
PROOF
<1> DEFINE r == Stub(s, read, now)
           placed == [now EXCEPT !.slot = Column(read.slot, s, now.slot)]
<1>0. s \in Id
  BY DEF Id
<1>1. CASE read = None
  <2>1. r = [fp |-> s, slot |-> s, stat |-> None, path |-> None, unripped |-> TRUE]
    BY <1>1 DEF Stub
  <2> HIDE DEF r
  <2>2. r \in Row /\ r.fp = s /\ r.path = None /\ r.unripped
    BY <1>0, <2>1 DEF Row
  <2> QED BY <1>1, <2>2, NoneAssumption DEF r
<1>2. CASE read # None
  <2>1. now \in Row /\ read \in Row
    BY <1>2
  <2>2. Column(read.slot, s, now.slot) \in Slot \cup {Elsewhere}
    BY <2>1 DEF Column, Row
  <2> HIDE DEF placed
  <2>3. /\ placed \in Row /\ placed.fp = now.fp /\ placed.path = now.path
        /\ placed.unripped = now.unripped
    BY <2>1, <2>2 DEF placed, Row
  <2>4. CASE Present(read)
    <3>1. r = placed
      BY <1>2, <2>4 DEF Stub, placed
    <3> HIDE DEF r
    <3> QED BY <1>2, <2>3, <3>1, NoneAssumption DEF r
  <2>5. CASE ~Present(read)
    <3> DEFINE f == Column(read.fp, s, placed.fp)
               v == Column(read.unripped, TRUE, placed.unripped)
    <3>1. r = [placed EXCEPT !.fp = f, !.unripped = v]
      BY <1>2, <2>5 DEF Stub, placed
    <3>2. f \in Id /\ v \in BOOLEAN
      BY <1>0, <2>3 DEF Column, Row
    <3>3. (f = now.fp /\ v = now.unripped) \/ (f = s /\ v = TRUE)
      <4>1. CASE read.fp = s
        <5>1. read.unripped = TRUE
          BY <1>2, <2>1, <4>1 DEF Row
        <5> QED BY <2>3, <4>1, <5>1 DEF Column
      <4>2. CASE read.fp # s
        <5>1. read.unripped = FALSE
          BY <1>2, <2>1, <4>2 DEF Row
        <5> QED BY <4>2, <5>1 DEF Column
      <4> QED BY <4>1, <4>2
    <3> HIDE DEF r, f, v
    <3>4. r \in Row /\ r.fp = f /\ r.unripped = v /\ r.path = now.path
      BY <2>3, <3>1, <3>2 DEF Row
    <3>5. r # None
      BY <3>4, NoneAssumption
    <3> QED BY <1>2, <3>3, <3>4, <3>5 DEF r
  <2> QED BY <2>4, <2>5
<1> QED BY <1>1, <1>2

LEMMA ConfirmedSays ==
    ASSUME TypeOK, DiscControl, disc # None
    PROVE  Confirmed \in Table /\ Stubbed(rows, Confirmed)
PROOF
<1>0. rows \in Table
  BY DEF TypeOK, Table
<1>1. CASE ~\A s \in DOMAIN disc : disc[s] = None <=> rows[s] = None
  BY <1>0, <1>1 DEF Confirmed, Stubbed
<1>2. CASE \A s \in DOMAIN disc : disc[s] = None <=> rows[s] = None
  <2> DEFINE u == [i \in Id |-> IF i \in DOMAIN disc THEN Stub(i, disc[i], rows[i]) ELSE rows[i]]
  <2>1. Confirmed = u
    BY <1>2 DEF Confirmed
  <2>2. ASSUME NEW j \in Id, j \notin DOMAIN disc
        PROVE  u[j] = rows[j] /\ u[j] \in Row \cup {None}
    BY <1>0, <2>2 DEF Table
  <2>3. ASSUME NEW j \in DOMAIN disc
        PROVE  /\ j \in Slot /\ j \in Id /\ u[j] \in Row /\ u[j] # None
               /\ u[j].path = IF rows[j] = None THEN None ELSE rows[j].path
               /\ \/ rows[j] # None /\ u[j].fp = rows[j].fp /\ u[j].unripped = rows[j].unripped
                  \/ u[j].fp = j /\ u[j].unripped
    <3>1. j \in Slot /\ j \in Id /\ disc[j] \in Row \cup {None}
      BY DEF TypeOK, Id
    <3>2. /\ rows[j] \in Row \cup {None} /\ (disc[j] = None <=> rows[j] = None)
          /\ disc[j] # None => (disc[j].unripped <=> disc[j].fp = j)
      BY <1>0, <1>2, <3>1 DEF Table, DiscControl
    <3>3. u[j] = Stub(j, disc[j], rows[j])
      BY <3>1
    <3> HIDE DEF u
    <3> QED BY <3>1, <3>2, <3>3, StubSays
  <2>4. u = [j \in Id |-> u[j]]
    OBVIOUS
  <2> HIDE DEF u
  <2>5. u \in Table
    BY <2>2, <2>3, <2>4 DEF Table
  <2>6. Stubbed(rows, u)
    BY <2>2, <2>3 DEF Stubbed
  <2> QED BY <2>1, <2>5, <2>6
<1> QED BY <1>1, <1>2

LEMMA ConfirmedGood ==
    ASSUME NEW t \in Table, NEW held \in SUBSET Id, Unique(t), Keyed(t, held),
           NEW u, Stubbed(t, u)
    PROVE  Unique(u) /\ Keyed(u, held)
PROOF
<1>1. \A j \in Id :
          \/ u[j] = t[j]
          \/ /\ t[j] # None /\ u[j] # None
             /\ u[j].fp = t[j].fp /\ u[j].path = t[j].path
             /\ u[j].unripped = t[j].unripped
          \/ /\ j \in Slot /\ u[j] # None /\ u[j].fp = j /\ u[j].unripped
             /\ u[j].path = IF t[j] = None THEN None ELSE t[j].path
  BY DEF Stubbed
<1>2. \A s \in Slot : s \notin Content
  BY LibraryIndexAssumption
<1>3. \A j \in Id : t[j] # None => t[j].fp \in Content \cup {j}
  BY DEF Keyed, Id
<1>4. Unique(u)
  <2> SUFFICES ASSUME NEW j \in Id, NEW k \in Id, j # k, u[j] # None, u[k] # None
               PROVE  u[j].fp # u[k].fp /\ (u[j].path # u[k].path \/ u[j].path = None)
    BY DEF Unique
  <2>1. \A i \in {j, k} : /\ u[i].path = None \/ (t[i] # None /\ u[i].path = t[i].path)
                          /\ (i \in Slot /\ u[i].fp = i) \/ (t[i] # None /\ u[i].fp = t[i].fp)
    BY <1>1
  <2>2. u[j].path # u[k].path \/ u[j].path = None
    BY <2>1 DEF Unique
  <2>3. u[j].fp # u[k].fp
    BY <1>2, <1>3, <2>1 DEF Unique
  <2> QED BY <2>2, <2>3
<1>5. Keyed(u, held)
  <2>1. ASSUME NEW d \in Content, u[d] # None PROVE u[d].fp = d
    <3>1. d \in Id /\ d \notin Slot
      BY <1>2 DEF Id
    <3>2. u[d] = t[d] \/ (t[d] # None /\ u[d].fp = t[d].fp)
      BY <1>1, <3>1
    <3> QED BY <2>1, <3>2 DEF Keyed
  <2>2. ASSUME NEW s \in Slot, u[s] # None
        PROVE  (u[s].unripped <=> u[s].fp = s) /\ u[s].fp \in Content \cup {s}
    BY <1>1, <2>2 DEF Keyed, Id
  <2>3. \A j \in held : u[j] # None
    BY <1>1 DEF Keyed
  <2> QED BY <2>1, <2>2, <2>3 DEF Keyed
<1> QED BY <1>4, <1>5

-----------------------------------------------------------------------------
(* Where the row of a content is.                                          *)

LEMMA AtMore ==
    ASSUME NEW t, NEW c, NEW p, NEW been, NEW more, been \subseteq more, At(t, c, p, been)
    PROVE  At(t, c, p, more)
BY DEF At

\* A row that is at p, or where the scan has been, is left there by a file at
\* another place that the scan meets now, and goes with its content otherwise.
LEMMA AtApplied ==
    ASSUME NEW t \in Table, NEW held, Unique(t), Keyed(t, held), NEW c \in Content,
           NEW e \in [path : Path, stat : File, meta : File],
           NEW d \in Content, NEW p, NEW been, At(t, d, p, been),
           d = c \/ (p # e.path /\ e.path \notin been)
    PROVE  At(Applied(t, c, e), d, p, been \cup {e.path})
PROOF
<1> DEFINE i == Owner(t, c)
           u == Applied(t, c, e)
<1>1. /\ i \in Id /\ u[i] # None /\ u[i].fp = c /\ u[i].path = e.path
      /\ \A j \in Id \ {i} :
             /\ (u[j] = None) <=> (t[j] = None)
             /\ t[j] # None =>
                    /\ u[j].fp = t[j].fp
                    /\ u[j].path = IF t[j].path = e.path THEN None ELSE t[j].path
      /\ t[i] # None => t[i].fp = c
  BY AppliedSays
<1> HIDE DEF i, u
<1>2. ASSUME d = c PROVE At(u, d, p, been \cup {e.path})
  BY <1>1, <1>2, LibraryIndexAssumption DEF At
<1>3. ASSUME d # c, p # e.path, e.path \notin been
      PROVE  At(u, d, p, been \cup {e.path})
  BY <1>1, <1>3 DEF At
<1> QED BY <1>2, <1>3 DEF u

LEMMA AtMerged ==
    ASSUME NEW t \in Table, NEW held, Keyed(t, held), NEW i \in Id, NEW s \in Slot \ {i},
           t[i] # None, t[s] # None, t[s].unripped,
           NEW d \in Content, NEW p, NEW been, At(t, d, p, been)
    PROVE  At(MergedInto(t, i, s), d, p, been)
PROOF
<1> DEFINE u == MergedInto(t, i, s)
<1>1. s \in Id \ {i} /\ t[s].fp # d
  BY LibraryIndexAssumption DEF Id, Keyed
<1>2. /\ u[s] # None /\ u[s].fp = t[i].fp /\ u[s].path = t[i].path
      /\ \A j \in Id \ {i, s} : u[j] = t[j]
  BY <1>1, MergedSays
<1> HIDE DEF u
<1>3. PICK j \in Id : t[j] # None /\ t[j].fp = d /\ t[j].path # None /\ t[j].path \in {p} \cup been
  BY DEF At
<1>4. ASSUME j = i PROVE At(u, d, p, been)
  BY <1>1, <1>2, <1>3, <1>4 DEF At
<1>5. ASSUME j # i PROVE At(u, d, p, been)
  BY <1>1, <1>2, <1>3, <1>5 DEF At
<1> QED BY <1>4, <1>5 DEF u

LEMMA AtHidden ==
    ASSUME NEW t \in Table, NEW paths \in SUBSET Path, NEW d, NEW p, NEW been,
           At(t, d, p, been), {p} \cup been \subseteq paths
    PROVE  At(Hidden(t, paths), d, p, been)
PROOF
<1> DEFINE u == Hidden(t, paths)
<1>1. \A j \in Id :
          /\ (u[j] = None) <=> (t[j] = None)
          /\ t[j] # None =>
                 /\ u[j].fp = t[j].fp
                 /\ u[j].path = IF t[j].path \in paths THEN t[j].path ELSE None
  BY HiddenSays
<1> HIDE DEF u
<1>2. At(u, d, p, been)
  BY <1>1 DEF At
<1> QED BY <1>2 DEF u

LEMMA AtConfirmed ==
    ASSUME NEW t, NEW u, Stubbed(t, u), NEW d, NEW p, NEW been, At(t, d, p, been),
           d \notin {t[i].fp : i \in {j \in Id : t[j] # None /\ u[j].fp # t[j].fp}}
    PROVE  At(u, d, p, been)
BY DEF At, Stubbed

-----------------------------------------------------------------------------
(* The batch and what is left of it.                                       *)

LEMMA AppendSays ==
    ASSUME NEW q \in Seq(Path), NEW p \in Path, IsInjective(q), p \notin ToSet(q)
    PROVE  /\ Append(q, p) \in Seq(Path) /\ Len(Append(q, p)) = Len(q) + 1
           /\ ToSet(Append(q, p)) = ToSet(q) \cup {p}
           /\ IsInjective(Append(q, p))
PROOF
<1>1. /\ Append(q, p) \in Seq(Path) /\ Len(Append(q, p)) = Len(q) + 1
      /\ DOMAIN Append(q, p) = 1..(Len(q) + 1) /\ DOMAIN q = 1..Len(q) /\ Len(q) \in Nat
      /\ \A n \in 1..Len(q) : Append(q, p)[n] = q[n]
      /\ Append(q, p)[Len(q) + 1] = p
  OBVIOUS
<1>2. ToSet(Append(q, p)) = ToSet(q) \cup {p}
  BY <1>1 DEF ToSet
<1>3. \A n \in 1..Len(q) : q[n] # p
  BY <1>1 DEF ToSet
<1>4. IsInjective(Append(q, p))
  BY <1>1, <1>3 DEF IsInjective
<1> QED BY <1>1, <1>2, <1>4

LEMMA TailSays ==
    ASSUME NEW q \in Seq(Path), q # <<>>, IsInjective(q)
    PROVE  /\ Tail(q) \in Seq(Path) /\ Head(q) \in Path /\ Head(q) \in ToSet(q)
           /\ ToSet(Tail(q)) = ToSet(q) \ {Head(q)}
           /\ IsInjective(Tail(q))
PROOF
<1>1. /\ Tail(q) \in Seq(Path) /\ Head(q) = q[1] /\ q[1] \in Path
      /\ Len(q) \in Nat \ {0} /\ DOMAIN q = 1..Len(q)
      /\ DOMAIN Tail(q) = 1..(Len(q) - 1)
      /\ \A n \in 1..(Len(q) - 1) : Tail(q)[n] = q[n + 1]
  OBVIOUS
<1>2. Head(q) \in ToSet(q)
  BY <1>1 DEF ToSet
<1>3. IsInjective(Tail(q))
  BY <1>1 DEF IsInjective
<1>4. ToSet(Tail(q)) \subseteq ToSet(q) \ {Head(q)}
  BY <1>1 DEF ToSet, IsInjective
<1>5. ASSUME NEW n \in 1..Len(q), q[n] # Head(q) PROVE q[n] \in ToSet(Tail(q))
  <2>1. n - 1 \in 1..(Len(q) - 1) /\ Tail(q)[n - 1] = q[n]
    BY <1>1, <1>5
  <2> QED BY <1>1, <2>1 DEF ToSet
<1>6. ToSet(q) \ {Head(q)} \subseteq ToSet(Tail(q))
  BY <1>1, <1>5 DEF ToSet
<1> QED BY <1>1, <1>2, <1>3, <1>4, <1>6

LEMMA EmptySays == <<>> \in Seq(Path) /\ Len(<<>>) = 0 /\ ToSet(<<>>) = {} /\ IsInjective(<<>>)
PROOF
<1>1. <<>> \in Seq(Path) /\ Len(<<>>) = 0 /\ DOMAIN <<>> = {}
  OBVIOUS
<1> QED BY <1>1 DEF ToSet, IsInjective

LEMMA PathsOf == ASSUME NEW q \in Seq(Path) PROVE ToSet(q) \subseteq Path
BY DEF ToSet

-----------------------------------------------------------------------------
(* Types.                                                                  *)

DirOf == {Dir[p] : p \in Path}

LEMMA TypesSay ==
    ASSUME TypeOK
    PROVE  /\ rows \in Table /\ txn \in Table \cup {None} /\ View \in Table
           /\ refs \in SUBSET Id /\ seen \in SUBSET Path /\ listed \in SUBSET Path
           /\ batch \in Seq(Path) /\ work \in Seq(Path)
           /\ \A p \in Path : disk[p] # None => disk[p] \in File /\ disk[p].fp \in Content
           /\ cur # None => cur \in [path : Path, stat : File, meta : File] /\ cur.path \in Path
PROOF
<1>1. rows \in Table /\ txn \in Table \cup {None} /\ View \in Table
  BY DEF TypeOK, Table, View
<1>2. \A p \in Path : disk[p] # None => disk[p] \in File /\ disk[p].fp \in Content
  BY DEF TypeOK, File
<1> QED BY <1>1, <1>2 DEF TypeOK

\* Between two batches nothing of a batch is left.
LEMMA NoBatchSays ==
    ASSUME NoBatch
    PROVE  /\ work' \in Seq(Path) /\ work' = <<>> /\ ToSet(work') = {} /\ IsInjective(work')
           /\ cur' = None /\ txn' = None /\ skipped' = {}
           /\ metas' = [p \in Path |-> None] /\ DOMAIN slots' = {}
           /\ View' = rows'
BY EmptySays DEF NoBatch, View

LEMMA EndScanSays ==
    ASSUME NEW how, EndScan(how)
    PROVE  /\ pc' = "idle" /\ result' = how /\ mode' = "quick"
           /\ todo' = {} /\ listed' = {} /\ seen' = {} /\ NoBatch
           /\ batch' \in Seq(Path) /\ batch' = <<>> /\ Len(batch') <= BatchSize
           /\ ToSet(batch') = {} /\ IsInjective(batch')
BY EmptySays, LibraryIndexAssumption DEF EndScan

LEMMA MetasSay ==
    ASSUME TypeOK, NEW p \in Path, disk[p] # None, NEW paths \in SUBSET Path
    PROVE  /\ MetaOf(p) \in File
           /\ Read(paths) \in [Path -> File \cup {None}]
           /\ \A q \in Path : Read(paths)[q] \in {metas[q], disk[q]}
BY DEF TypeOK, MetaOf, Read

\* What a file does to the rows in view.
LEMMA UpsertedSays ==
    ASSUME IInv, cur # None, disk[cur.path] # None
    PROVE  /\ disk[cur.path].fp \in Content /\ cur \in [path : Path, stat : File, meta : File]
           /\ View \in Table /\ refs \in SUBSET Id /\ Unique(View) /\ Keyed(View, refs)
           /\ Upserted \in Table /\ Unique(Upserted) /\ Keyed(Upserted, refs)
           /\ UpsertedId \in Id /\ Upserted[UpsertedId] # None
           /\ Upserted[UpsertedId].fp = disk[cur.path].fp
           /\ \A s \in Hole(Upserted, UpsertedId) :
                  /\ s \in Slot \ {UpsertedId} /\ s \in Id
                  /\ Upserted[s] # None /\ Upserted[s].unripped
PROOF
<1>1. /\ disk[cur.path].fp \in Content /\ cur \in [path : Path, stat : File, meta : File]
      /\ View \in Table /\ refs \in SUBSET Id
  BY TypesSay DEF IInv
<1>2. Unique(View) /\ Keyed(View, refs)
  BY DEF IInv, TableControl
<1>3. /\ Upserted \in Table
      /\ UpsertedId \in Id /\ Upserted[UpsertedId] # None
      /\ Upserted[UpsertedId].fp = disk[cur.path].fp
  BY <1>1, <1>2, AppliedSays DEF Upserted, UpsertedId
<1>4. Unique(Upserted) /\ Keyed(Upserted, refs)
  BY <1>1, <1>2, AppliedGood DEF Upserted
<1>5. \A s \in Hole(Upserted, UpsertedId) :
          /\ s \in Slot \ {UpsertedId} /\ s \in Id
          /\ Upserted[s] # None /\ Upserted[s].unripped
  BY DEF Hole, Id
<1> QED BY <1>1, <1>2, <1>3, <1>4, <1>5

LEMMA UpsertSays ==
    ASSUME IInv, Upsert
    PROVE  /\ txn' \in Table /\ Unique(txn') /\ Keyed(txn', refs)
           /\ cur # None /\ disk[cur.path] # None
PROOF
<1>1. cur # None /\ disk[cur.path] # None
  BY DEF Upsert
<1>2. CASE txn' = Upserted
  BY <1>1, <1>2, UpsertedSays
<1>3. CASE \E s \in Hole(Upserted, UpsertedId) : UpsertedId \notin refs /\ txn' = MergedInto(Upserted, UpsertedId, s)
  <2>1. PICK s \in Hole(Upserted, UpsertedId) :
            UpsertedId \notin refs /\ txn' = MergedInto(Upserted, UpsertedId, s)
    BY <1>3
  <2>2. MergedInto(Upserted, UpsertedId, s) \in Table
    BY <1>1, UpsertedSays, MergedSays
  <2>3. Unique(MergedInto(Upserted, UpsertedId, s)) /\ Keyed(MergedInto(Upserted, UpsertedId, s), refs)
    BY <1>1, <2>1, UpsertedSays, MergedGood
  <2> QED BY <1>1, <2>1, <2>2, <2>3
<1> QED BY <1>2, <1>3 DEF Upsert

LEMMA InHand == ASSUME IInv, cur # None
                PROVE  pc = "batch" /\ work # <<>> /\ cur.path = Head(work)
BY DEF IInv, BatchControl

LEMMA StepTypes ==
    ASSUME IInv, [Next]_vars
    PROVE  TypeOK'
PROOF
<1> USE LibraryIndexAssumption
<1>1. TypeOK /\ (work # <<>> => IsInjective(work))
  BY DEF IInv, WalkControl
<1>2. /\ rows \in Table /\ View \in Table
      /\ \A p \in Path : disk[p] # None => disk[p] \in File
      /\ cur # None => cur.path \in Path
  BY <1>1, TypesSay
<1>3. work # <<>> => Tail(work) \in Seq(Path) /\ Head(work) \in Path
  BY <1>1, TailSays DEF TypeOK
<1>4. CASE StartScan
  <2>1. (mode' = "full" \/ Exact(rows)) \in BOOLEAN /\ Steady \in SUBSET (Content \X Path)
    BY DEF Steady
  <2> DEFINE exact == mode' = "full" \/ Exact(rows)
  <2>2. past' = [past EXCEPT !.quiet = TRUE, !.exact = exact, !.steady = Steady]
    BY <1>4 DEF StartScan
  <2> HIDE DEF exact
  <2>3. past' \in [quiet : BOOLEAN, exact : BOOLEAN, fresh : BOOLEAN,
                   steady : SUBSET (Content \X Path)]
    BY <1>1, <2>1, <2>2 DEF TypeOK, exact
  <2>4. used' \in [scans : 0..MaxScans, changes : 0..MaxChanges, events : 0..MaxEvents]
    BY <1>1, <1>4 DEF TypeOK, StartScan
  <2>5. /\ pc' = "walk" /\ mode' \in {"quick", "full"} /\ cancel' = FALSE /\ result' = "none"
        /\ todo' = {Dir[p] : p \in Path} /\ listed' = {} /\ batch' = <<>> /\ seen' = {}
        /\ NoBatch /\ UNCHANGED <<disk, rows, refs, disc>>
    BY <1>4 DEF StartScan
  <2>6. /\ work' \in Seq(Path) /\ batch' \in Seq(Path) /\ Len(batch') <= BatchSize
        /\ cur' = None /\ txn' = None /\ skipped' = {} /\ DOMAIN slots' = {}
        /\ metas' \in [Path -> File \cup {None}]
    BY <2>5, EmptySays, NoBatchSays
  <2> QED BY <1>1, <2>3, <2>4, <2>5, <2>6 DEF TypeOK
<1>5. CASE ListFolder
  BY <1>1, <1>5 DEF TypeOK, ListFolder
<1>6. CASE Visit
  <2>1. \A p \in Path : Append(batch, p) \in Seq(Path) /\ Len(Append(batch, p)) = Len(batch) + 1
    BY <1>1 DEF TypeOK
  <2>2. Len(batch) < BatchSize /\ Len(batch) \in Nat
    BY <1>1, <1>6 DEF TypeOK, Visit
  <2> QED BY <1>1, <1>6, <2>1, <2>2 DEF TypeOK, Visit
<1>7. CASE Flush
  BY <1>1, <1>7 DEF TypeOK, Flush
<1>8. CASE StatFails
  BY <1>1, <1>3, <1>8 DEF TypeOK, StatFails, NextFile
<1>9. CASE Examine
  <2> DEFINE p == Head(work)
  <2>1. /\ work # <<>> /\ p \in Path /\ disk[p] # None /\ disk[p] \in File
        /\ MetaOf(p) \in File /\ p \in InFolder(Dir[p]) /\ InFolder(Dir[p]) \subseteq Path
    BY <1>1, <1>2, <1>3, <1>9, MetasSay DEF Examine, InFolder
  <2>2. metas' \in [Path -> File \cup {None}]
    BY <1>1, <1>9, <2>1, MetasSay DEF Examine
  <2>3. DOMAIN slots' \subseteq DirOf
    BY <1>1, <1>9, <2>1 DEF Examine, TypeOK, DirOf
  <2>4. skipped' \subseteq Path
    BY <1>1, <1>9, <2>1 DEF Examine, TypeOK
  <2>5. work' \in Seq(Path) /\ (cur' = cur \/ cur' = [path |-> p, stat |-> disk[p], meta |-> MetaOf(p)])
        /\ txn' = txn
    BY <1>1, <1>3, <1>9, <2>1 DEF Examine, TypeOK, NextFile
  <2>6. cur' \in [path : Path, stat : File, meta : File] \cup {None}
    BY <1>1, <2>1, <2>5 DEF TypeOK
  <2> HIDE DEF p
  <2>7. UNCHANGED <<disk, rows, refs, disc, pc, cancel, mode, todo, listed, batch, seen, result, past,
          used>>
    BY <1>9 DEF Examine
  <2> QED BY <1>1, <2>2, <2>3, <2>4, <2>5, <2>6, <2>7 DEF TypeOK, DirOf
<1>10. CASE FingerprintFails
  BY <1>1, <1>3, <1>10, InHand DEF TypeOK, FingerprintFails
<1>11. CASE Upsert
  <2>1. txn' \in [Id -> Row \cup {None}]
    BY <1>11, UpsertSays DEF Table
  <2>2. work' \in Seq(Path) /\ cur' = None
        /\ UNCHANGED <<disk, rows, refs, disc, pc, cancel, mode, todo, listed, batch, metas,
                       slots, skipped, seen, result, past, used>>
    BY <1>3, <1>11, InHand DEF Upsert
  <2> QED BY <1>1, <2>1, <2>2 DEF TypeOK
<1>12. CASE MergeRefused
  BY <1>1, <1>12, EndScanSays, NoBatchSays DEF TypeOK, MergeRefused
<1>13. CASE CommitBatch
  <2>1. ToSet(batch) \subseteq Path
    BY <1>1, PathsOf DEF TypeOK
  <2> QED BY <1>1, <1>2, <1>13, <2>1, EmptySays, NoBatchSays DEF TypeOK, CommitBatch, Table
<1>14. CASE WalkDone
  BY <1>1, <1>14 DEF TypeOK, WalkDone, scan
<1>15. CASE Canceled
  BY <1>1, <1>15, EndScanSays, NoBatchSays DEF TypeOK, Canceled
<1>16. CASE Finalize
  <2>1. rows' \in [Id -> Row \cup {None}]
    BY <1>1, <1>2, <1>16, HiddenSays DEF Finalize, TypeOK, Table
  <2>2. past' \in [quiet : BOOLEAN, exact : BOOLEAN, fresh : BOOLEAN,
                   steady : SUBSET (Content \X Path)]
    BY <1>1, <1>16 DEF Finalize, TypeOK
  <2> QED BY <1>1, <1>16, <2>1, <2>2, EndScanSays, NoBatchSays DEF TypeOK, Finalize
<1>17. CASE ScanRaises
  <2>1. used' \in [scans : 0..MaxScans, changes : 0..MaxChanges, events : 0..MaxEvents]
    BY <1>1, <1>17 DEF TypeOK, ScanRaises
  <2> QED BY <1>1, <1>17, <2>1, EndScanSays, NoBatchSays DEF TypeOK, ScanRaises
<1>18. CASE RequestCancel
  BY <1>1, <1>18 DEF TypeOK, RequestCancel, scan
<1>19. CASE DiskChanges
  <2>1. disk' \in [Path -> File \cup {None}]
    BY <1>1, <1>19 DEF TypeOK, DiskChanges, Written, Renamed
  <2>2. past' \in [quiet : BOOLEAN, exact : BOOLEAN, fresh : BOOLEAN,
                   steady : SUBSET (Content \X Path)]
    BY <1>1, <1>19 DEF TypeOK, DiskChanges
  <2>3. used' \in [scans : 0..MaxScans, changes : 0..MaxChanges, events : 0..MaxEvents]
        /\ UNCHANGED <<rows, refs, disc, pc, cancel, scan, result>>
    BY <1>1, <1>19 DEF TypeOK, DiskChanges
  <2> QED BY <1>1, <2>1, <2>2, <2>3 DEF TypeOK, scan
<1>20. CASE ConfirmWrites
  <2>1. rows' \in [Id -> Row \cup {None}] /\ disc' = None
    BY <1>1, <1>20, ConfirmedSays DEF ConfirmWrites, Table, IInv
  <2>2. past' \in [quiet : BOOLEAN, exact : BOOLEAN, fresh : BOOLEAN,
                   steady : SUBSET (Content \X Path)]
    BY <1>1, <1>20 DEF TypeOK, ConfirmWrites
  <2>3. UNCHANGED <<disk, refs, pc, cancel, scan, result, used>>
    BY <1>20 DEF ConfirmWrites
  <2> QED BY <1>1, <2>1, <2>2, <2>3 DEF TypeOK, scan
<1>23. CASE ConfirmReads
  <2>1. PICK places \in {Holes, Slot} \ {{}} : disc' = [s \in places |-> rows[s]]
    BY <1>23 DEF ConfirmReads
  <2>2. places \subseteq Slot /\ Slot \subseteq Id
    BY <2>1 DEF Holes, Id
  <2>3. DOMAIN disc' \subseteq Slot /\ \A s \in DOMAIN disc' : disc'[s] \in Row \cup {None}
    BY <1>2, <2>1, <2>2 DEF Table
  <2>4. used' \in [scans : 0..MaxScans, changes : 0..MaxChanges, events : 0..MaxEvents]
        /\ UNCHANGED <<disk, rows, refs, pc, cancel, scan, result, past>>
    BY <1>1, <1>23 DEF TypeOK, ConfirmReads
  <2> QED BY <1>1, <2>3, <2>4 DEF TypeOK, scan
<1>21. CASE PutPlaylist
  BY <1>1, <1>21 DEF TypeOK, PutPlaylist, scan
<1>22. CASE UNCHANGED vars
  BY <1>1, <1>22 DEF TypeOK, vars, scan
<1> QED BY <1>4, <1>5, <1>6, <1>7, <1>8, <1>9, <1>10, <1>11, <1>12, <1>13, <1>14, <1>15,
           <1>16, <1>17, <1>18, <1>19, <1>20, <1>21, <1>22, <1>23 DEF Next, Scan

-----------------------------------------------------------------------------
(* The walk.                                                               *)

LEMMA StepWalks ==
    ASSUME IInv, [Next]_vars
    PROVE  WalkControl'
PROOF
<1>1. WalkControl /\ BatchControl /\ TypeOK
  BY DEF IInv
<1>2. /\ batch \in Seq(Path) /\ ToSet(batch) \subseteq Path /\ listed \subseteq Path
      /\ seen \subseteq Path /\ work \in Seq(Path)
  BY <1>1, PathsOf DEF TypeOK
<1>3. work # <<>> => /\ Head(work) \in ToSet(work)
                     /\ ToSet(Tail(work)) = ToSet(work) \ {Head(work)}
                     /\ IsInjective(Tail(work))
  BY <1>1, <1>2, TailSays DEF WalkControl
<1>4. ASSUME work # <<>>, work' = Tail(work), skipped' \subseteq skipped \cup {Head(work)},
             UNCHANGED <<pc, todo, listed, batch, seen>>
      PROVE  WalkControl'
  BY <1>1, <1>3, <1>4 DEF WalkControl, WalkOver
<1>5. CASE StartScan
  <2>1. /\ pc' = "walk" /\ listed' = {} /\ batch' = <<>> /\ seen' = {} /\ NoBatch
    BY <1>5 DEF StartScan
  <2> QED BY <2>1, EmptySays, NoBatchSays DEF WalkControl
<1>6. CASE ListFolder
  BY <1>1, <1>2, <1>6 DEF WalkControl, WalkOver, ListFolder
<1>7. CASE Visit
  <2>1. PICK p \in listed : /\ listed' = listed \ {p}
                            /\ batch' = IF disk[p] = None THEN batch ELSE Append(batch, p)
    BY <1>7 DEF Visit
  <2>2. p \in Path /\ p \notin ToSet(batch) /\ p \notin seen
    BY <1>1, <1>2 DEF WalkControl
  <2>3. /\ pc' = "walk" /\ UNCHANGED <<todo, work, skipped, seen>>
    BY <1>7 DEF Visit
  <2>4. IsInjective(batch') /\ (ToSet(batch') = ToSet(batch) \/ ToSet(batch') = ToSet(batch) \cup {p})
    BY <1>1, <1>2, <2>1, <2>2, AppendSays DEF WalkControl
  <2> QED BY <1>1, <2>1, <2>2, <2>3, <2>4 DEF WalkControl
<1>8. CASE Flush
  BY <1>1, <1>8 DEF WalkControl, BatchControl, Flush
<1>9. CASE StatFails
  BY <1>4, <1>9 DEF StatFails, NextFile
<1>10. CASE Examine
  <2>1. /\ work # <<>> /\ UNCHANGED <<pc, todo, listed, batch, seen>>
        /\ \/ work' = Tail(work) /\ skipped' \subseteq skipped \cup {Head(work)}
           \/ work' = work /\ skipped' = skipped
    BY <1>10 DEF Examine, NextFile
  <2>2. CASE work' = work /\ skipped' = skipped
    BY <1>1, <2>1, <2>2 DEF WalkControl, WalkOver
  <2> QED BY <1>4, <2>1, <2>2
<1>11. CASE FingerprintFails
  BY <1>4, <1>11, InHand DEF FingerprintFails
<1>12. CASE Upsert
  BY <1>4, <1>12, InHand DEF Upsert
<1>13. CASE NoBatch /\ pc' = "idle" /\ listed' = {} /\ seen' = {} /\ batch' = <<>>
  BY <1>13, EmptySays, NoBatchSays DEF WalkControl
<1>14. CASE CommitBatch
  <2>1. /\ NoBatch /\ pc' = "walk" /\ batch' = <<>> /\ seen' = seen \cup (ToSet(batch) \ skipped)
        /\ UNCHANGED <<todo, listed>>
    BY <1>14 DEF CommitBatch
  <2> QED BY <1>1, <2>1, EmptySays, NoBatchSays DEF WalkControl
<1>15. CASE WalkDone
  BY <1>1, <1>15 DEF WalkControl, WalkOver, WalkDone, scan
<1>16. CASE UNCHANGED <<pc, scan>>
  BY <1>1, <1>16 DEF WalkControl, WalkOver, scan
<1>17. CASE MergeRefused \/ Canceled \/ Finalize \/ ScanRaises
  BY <1>13, <1>17, EndScanSays DEF MergeRefused, Canceled, Finalize, ScanRaises
<1>18. CASE RequestCancel \/ DiskChanges \/ ConfirmReads \/ ConfirmWrites \/ PutPlaylist
  BY <1>16, <1>18 DEF RequestCancel, DiskChanges, ConfirmReads, ConfirmWrites, PutPlaylist
<1>19. CASE UNCHANGED vars
  BY <1>16, <1>19 DEF vars
<1> QED BY <1>5, <1>6, <1>7, <1>8, <1>9, <1>10, <1>11, <1>12, <1>14, <1>15, <1>17, <1>18,
           <1>19 DEF Next, Scan

LEMMA StepBatches ==
    ASSUME IInv, [Next]_vars
    PROVE  BatchControl'
PROOF
<1>1. BatchControl /\ TypeOK
  BY DEF IInv
<1>2. CASE NoBatch
  BY <1>2, NoBatchSays DEF BatchControl
<1>3. CASE ListFolder \/ Visit \/ Flush \/ WalkDone
  BY <1>1, <1>3 DEF BatchControl, ListFolder, Visit, Flush, WalkDone, scan
<1>4. CASE StatFails
  BY <1>1, <1>4 DEF BatchControl, StatFails, NextFile
<1>5. CASE Examine
  BY <1>1, <1>5 DEF BatchControl, Examine, NextFile
<1>6. CASE FingerprintFails \/ Upsert
  BY <1>1, <1>6, InHand DEF BatchControl, FingerprintFails, Upsert
<1>7. CASE StartScan \/ CommitBatch
  BY <1>2, <1>7 DEF StartScan, CommitBatch
<1>8. CASE MergeRefused \/ Canceled \/ Finalize \/ ScanRaises
  BY <1>2, <1>8, EndScanSays DEF MergeRefused, Canceled, Finalize, ScanRaises
<1>9. CASE UNCHANGED <<pc, scan>>
  BY <1>1, <1>9 DEF BatchControl, scan
<1>10. CASE RequestCancel \/ DiskChanges \/ ConfirmReads \/ ConfirmWrites \/ PutPlaylist
  BY <1>9, <1>10 DEF RequestCancel, DiskChanges, ConfirmReads, ConfirmWrites, PutPlaylist
<1>11. CASE UNCHANGED vars
  BY <1>9, <1>11 DEF vars
<1> QED BY <1>3, <1>4, <1>5, <1>6, <1>7, <1>8, <1>10, <1>11 DEF Next, Scan

-----------------------------------------------------------------------------
(* The tables.                                                             *)

LEMMA StepTables ==
    ASSUME IInv, [Next]_vars
    PROVE  TableControl'
PROOF
<1>1. TableControl /\ TypeOK
  BY DEF IInv
<1>2. rows \in Table /\ View \in Table /\ refs \in SUBSET Id /\ seen \in SUBSET Path
  BY <1>1, TypesSay
<1>3. ASSUME UNCHANGED <<rows, refs, txn>> PROVE TableControl'
  BY <1>1, <1>3 DEF TableControl, View
<1>4. ASSUME UNCHANGED <<rows, refs>>, txn' = None PROVE TableControl'
  BY <1>1, <1>4 DEF TableControl, View
<1>5. CASE Upsert
  <2>1. Unique(txn') /\ Keyed(txn', refs) /\ UNCHANGED <<rows, refs>>
    BY <1>5, UpsertSays DEF Upsert
  <2> QED BY <1>1, <2>1 DEF TableControl, View
<1>6. CASE CommitBatch
  <2>1. rows' = View /\ View' = rows' /\ refs' = refs
    BY <1>6, NoBatchSays DEF CommitBatch
  <2> QED BY <1>1, <2>1 DEF TableControl
<1>7. CASE Finalize
  <2>1. rows' = Hidden(rows, seen) /\ View' = rows' /\ refs' = refs
    BY <1>7, NoBatchSays, EndScanSays DEF Finalize
  <2>2. Unique(Hidden(rows, seen)) /\ Keyed(Hidden(rows, seen), refs)
    BY <1>1, <1>2, HiddenGood DEF TableControl
  <2> QED BY <2>1, <2>2 DEF TableControl
<1>8. CASE ConfirmWrites
  <2>1. rows' = Confirmed /\ refs' = refs /\ txn' = None
    BY <1>8 DEF ConfirmWrites, scan
  <2>2. Unique(rows') /\ Keyed(rows', refs)
    BY <1>1, <1>2, <1>8, <2>1, ConfirmedSays, ConfirmedGood DEF TableControl, ConfirmWrites, IInv
  <2> QED BY <2>1, <2>2 DEF TableControl, View
<1>9. CASE PutPlaylist
  <2>1. /\ UNCHANGED rows /\ txn' = None /\ \A i \in refs' : rows[i] # None
    BY <1>9 DEF PutPlaylist, scan
  <2>2. Keyed(rows, refs')
    BY <1>1, <2>1 DEF TableControl, Keyed
  <2> QED BY <1>1, <2>1, <2>2 DEF TableControl, View
<1>10. CASE StartScan \/ MergeRefused \/ Canceled \/ ScanRaises
  BY <1>4, <1>10, NoBatchSays, EndScanSays DEF StartScan, MergeRefused, Canceled, ScanRaises
<1>11. CASE ListFolder \/ Visit \/ Flush \/ StatFails \/ FingerprintFails \/ WalkDone
  BY <1>3, <1>11 DEF ListFolder, Visit, Flush, StatFails, NextFile, FingerprintFails, WalkDone, scan
<1>12. CASE Examine
  BY <1>3, <1>12 DEF Examine, NextFile
<1>13. CASE RequestCancel \/ DiskChanges \/ ConfirmReads \/ UNCHANGED vars
  BY <1>3, <1>13 DEF RequestCancel, DiskChanges, ConfirmReads, scan, vars
<1> QED BY <1>5, <1>6, <1>7, <1>8, <1>9, <1>10, <1>11, <1>12, <1>13 DEF Next, Scan

LEMMA StepDisc ==
    ASSUME IInv, [Next]_vars
    PROVE  DiscControl'
PROOF
<1>1. TypeOK /\ DiscControl /\ Keyed(rows, refs)
  BY DEF IInv, TableControl
<1>2. CASE disc' = disc
  BY <1>1, <1>2 DEF DiscControl
<1>3. CASE ConfirmReads
  <2>1. PICK places \in {Holes, Slot} \ {{}} : disc' = [s \in places |-> rows[s]]
    BY <1>3 DEF ConfirmReads
  <2>2. places \subseteq Slot
    BY <2>1 DEF Holes
  <2> QED BY <1>1, <2>1, <2>2 DEF DiscControl, Keyed
<1>4. CASE ConfirmWrites
  BY <1>4 DEF ConfirmWrites, DiscControl
<1>5. CASE StartScan \/ Scan \/ ScanRaises \/ RequestCancel \/ DiskChanges \/ PutPlaylist
  <2>1. disc' = disc
    BY <1>5 DEF StartScan, Scan, ListFolder, Visit, Flush, StatFails, Examine, FingerprintFails,
       Upsert, MergeRefused, CommitBatch, WalkDone, Canceled, Finalize, ScanRaises, RequestCancel,
       DiskChanges, PutPlaylist
  <2> QED BY <1>2, <2>1
<1> QED BY <1>2, <1>3, <1>4, <1>5 DEF Next, vars

-----------------------------------------------------------------------------
(* The files that stay where they are.                                     *)

\* What is known of one of them, as a formula of its own.
SteadyAt(c, p) ==
    /\ c \notin Lossy
    /\ disk[p] # None /\ disk[p].fp = c
    /\ metas[p] \in {None, disk[p]}
    /\ p \notin skipped
    /\ pc # "idle" =>
           /\ Dir[p] \in todo \/ p \in listed \cup ToSet(batch) \cup seen
           /\ At(rows, c, p, seen)
           /\ At(View, c, p, seen \cup Processed)
    /\ pc = "idle" => At(rows, c, p, Path)

LEMMA SteadyEach ==
    ASSUME SteadyControl, NEW x \in past.steady
    PROVE  SteadyAt(x[1], x[2])
BY DEF SteadyControl, SteadyAt

\* A scan ends, and leaves the rows as they were committed.
LEMMA SteadyEnds ==
    ASSUME NEW c, NEW p, SteadyAt(c, p), pc # "idle", TypeOK, NoBatch, pc' = "idle",
           UNCHANGED <<disk, rows>>, p \in Path
    PROVE  SteadyAt(c, p)'
PROOF
<1>1. At(rows, c, p, Path)
  BY AtMore DEF SteadyAt, TypeOK
<1>2. skipped' = {} /\ metas'[p] = None
  BY NoBatchSays
<1> QED BY <1>1, <1>2 DEF SteadyAt

\* A scan goes on without a write: what it has processed grows.
LEMMA SteadyGoesOn ==
    ASSUME NEW c, NEW p, SteadyAt(c, p), UNCHANGED <<disk, rows, txn, seen>>,
           pc # "idle", pc' # "idle", Processed \subseteq Processed',
           metas'[p] \in {metas[p], disk[p]}, p \notin skipped',
           Dir[p] \in todo' \/ p \in listed' \cup ToSet(batch') \cup seen
    PROVE  SteadyAt(c, p)'
PROOF
<1>1. View' = View /\ At(View, c, p, seen \cup Processed')
  BY AtMore DEF SteadyAt, View
<1> QED BY <1>1 DEF SteadyAt

LEMMA StepKeepsSteady ==
    ASSUME IInv, [Next]_vars
    PROVE  SteadyControl'
PROOF
<1>1. TypeOK /\ WalkControl /\ BatchControl /\ TableControl /\ SteadyControl
  BY DEF IInv
<1>2. /\ rows \in Table /\ View \in Table /\ refs \in SUBSET Id /\ seen \in SUBSET Path
      /\ batch \in Seq(Path) /\ work \in Seq(Path) /\ listed \in SUBSET Path
  BY <1>1, TypesSay
<1>3. \A x \in past.steady : /\ SteadyAt(x[1], x[2])
                             /\ x[1] \in Content /\ x[2] \in Path
  BY <1>1, SteadyEach DEF TypeOK
<1>4. ASSUME past'.steady \subseteq past.steady, \A x \in past'.steady : SteadyAt(x[1], x[2])'
      PROVE  SteadyControl'
  BY <1>4 DEF SteadyControl, SteadyAt
<1>5. work # <<>> => /\ Head(work) \in ToSet(work)
                     /\ ToSet(Tail(work)) = ToSet(work) \ {Head(work)}
  BY <1>1, <1>2, TailSays DEF WalkControl
<1>6. ToSet(work) \subseteq ToSet(batch) /\ skipped \cap ToSet(work) = {}
  BY <1>1 DEF WalkControl
<1>7. CASE StartScan
  <2>1. /\ past'.steady = Steady /\ pc' = "walk" /\ NoBatch /\ seen' = {}
        /\ todo' = {Dir[p] : p \in Path} /\ UNCHANGED <<disk, rows>>
    BY <1>1, <1>7 DEF StartScan, TypeOK
  <2>2. ASSUME NEW x \in Steady
        PROVE  /\ x[1] \notin Lossy /\ x[2] \in Path
               /\ disk[x[2]] # None /\ disk[x[2]].fp = x[1]
               /\ \A been : At(rows, x[1], x[2], been)
    BY LibraryIndexAssumption DEF Steady, At
  <2>3. View' = rows' /\ skipped' = {} /\ \A p \in Path : metas'[p] = None
    BY <2>1, NoBatchSays
  <2> QED BY <2>1, <2>2, <2>3 DEF SteadyControl
<1>8. CASE ListFolder
  <2> SUFFICES ASSUME NEW x \in past.steady PROVE SteadyAt(x[1], x[2])'
    BY <1>4, <1>8 DEF ListFolder
  <2>1. SteadyAt(x[1], x[2]) /\ x[2] \in Path
    BY <1>3
  <2>2. /\ pc = "walk" /\ listed = {} /\ Processed' = Processed
        /\ UNCHANGED <<disk, rows, txn, seen, pc, metas, skipped, batch>>
    BY <1>8 DEF ListFolder, Processed
  <2>3. Dir[x[2]] \in todo' \/ x[2] \in listed' \cup ToSet(batch') \cup seen
    BY <1>8, <2>1, <2>2 DEF ListFolder, SteadyAt
  <2>4. metas'[x[2]] \in {metas[x[2]], disk[x[2]]} /\ x[2] \notin skipped'
    BY <2>1, <2>2 DEF SteadyAt
  <2> QED BY <2>1, <2>2, <2>3, <2>4, SteadyGoesOn
<1>9. CASE Visit
  <2> SUFFICES ASSUME NEW x \in past.steady PROVE SteadyAt(x[1], x[2])'
    BY <1>4, <1>9 DEF Visit
  <2>1. SteadyAt(x[1], x[2]) /\ x[2] \in Path
    BY <1>3
  <2>2. PICK p \in listed : /\ listed' = listed \ {p}
                            /\ batch' = IF disk[p] = None THEN batch ELSE Append(batch, p)
    BY <1>9 DEF Visit
  <2>3. p \in Path /\ p \notin ToSet(batch) /\ IsInjective(batch)
    BY <1>1, <1>2, <2>2 DEF WalkControl
  <2>4. ToSet(batch') = IF disk[p] = None THEN ToSet(batch) ELSE ToSet(batch) \cup {p}
    BY <1>2, <2>2, <2>3, AppendSays
  <2>5. /\ pc = "walk" /\ UNCHANGED <<disk, rows, txn, seen, pc, metas, skipped, work, todo>>
    BY <1>9 DEF Visit
  <2>6. Processed \subseteq Processed'
    BY <2>4, <2>5 DEF Processed
  <2>7. Dir[x[2]] \in todo' \/ x[2] \in listed' \cup ToSet(batch') \cup seen
    BY <2>1, <2>2, <2>4, <2>5 DEF SteadyAt
  <2>8. metas'[x[2]] \in {metas[x[2]], disk[x[2]]} /\ x[2] \notin skipped'
    BY <2>1, <2>5 DEF SteadyAt
  <2> QED BY <2>1, <2>5, <2>6, <2>7, <2>8, SteadyGoesOn
<1>10. CASE Flush
  <2> SUFFICES ASSUME NEW x \in past.steady PROVE SteadyAt(x[1], x[2])'
    BY <1>4, <1>10 DEF Flush
  <2>1. SteadyAt(x[1], x[2]) /\ x[2] \in Path
    BY <1>3
  <2>2. /\ pc = "walk" /\ pc' = "batch" /\ txn = None /\ View = rows /\ View' = rows
        /\ UNCHANGED <<disk, rows, txn, seen, metas, skipped, batch, listed, todo>>
    BY <1>1, <1>10 DEF Flush, BatchControl, View
  <2>3. At(rows, x[1], x[2], seen \cup Processed')
    BY <2>1, <2>2, AtMore DEF SteadyAt
  <2> QED BY <2>1, <2>2, <2>3 DEF SteadyAt
<1>11. ASSUME pc = "batch", work # <<>>, work' = Tail(work), UNCHANGED <<pc, batch, skipped>>
       PROVE  Processed' = Processed \cup {Head(work)}
  BY <1>5, <1>6, <1>11 DEF Processed
<1>12. CASE StatFails
  <2> SUFFICES ASSUME NEW x \in past.steady PROVE SteadyAt(x[1], x[2])'
    BY <1>4, <1>12 DEF StatFails
  <2>1. SteadyAt(x[1], x[2]) /\ x[2] \in Path
    BY <1>3
  <2>2. /\ pc = "batch" /\ work # <<>> /\ work' = Tail(work)
        /\ UNCHANGED <<disk, rows, txn, seen, pc, metas, skipped, batch, listed, todo>>
    BY <1>12 DEF StatFails, NextFile
  <2> QED BY <1>11, <2>1, <2>2, SteadyGoesOn DEF SteadyAt
<1>13. CASE Examine
  <2> SUFFICES ASSUME NEW x \in past.steady PROVE SteadyAt(x[1], x[2])'
    BY <1>4, <1>13 DEF Examine
  <2>1. SteadyAt(x[1], x[2]) /\ x[2] \in Path
    BY <1>3
  <2> DEFINE p == Head(work)
  <2>2. /\ pc = "batch" /\ work # <<>> /\ disk[p] # None /\ p \in Path
        /\ UNCHANGED <<disk, rows, txn, seen, pc, batch, listed, todo>>
        /\ work' = work \/ work' = Tail(work)
        /\ skipped' \in {skipped, skipped \cup {p}}
        /\ MetaOf(p).fp \notin Lossy => skipped' = skipped
        /\ skipped' # skipped => work' = Tail(work)
        /\ \E paths \in SUBSET Path : metas' = Read(paths)
    <3>1. p \in Path /\ InFolder(Dir[p]) \subseteq Path
      BY <1>2, <1>13, TailSays, <1>1 DEF Examine, InFolder, WalkControl
    <3> QED BY <1>13, <3>1 DEF Examine, NextFile
  <2>3. metas'[x[2]] \in {metas[x[2]], disk[x[2]]}
    BY <1>1, <2>1, <2>2, MetasSay
  <2>4. x[2] = p => MetaOf(p).fp \notin Lossy
    BY <2>1 DEF SteadyAt, MetaOf
  <2>5. x[2] \notin skipped'
    BY <2>1, <2>2, <2>4 DEF SteadyAt
  <2> HIDE DEF p
  <2>6. Processed \subseteq Processed'
    BY <1>5, <2>2 DEF Processed, p
  <2>7. Dir[x[2]] \in todo' \/ x[2] \in listed' \cup ToSet(batch') \cup seen
    BY <2>1, <2>2 DEF SteadyAt
  <2> QED BY <2>1, <2>2, <2>3, <2>5, <2>6, <2>7, SteadyGoesOn
<1>14. CASE FingerprintFails
  <2> SUFFICES ASSUME NEW x \in past.steady PROVE SteadyAt(x[1], x[2])'
    BY <1>4, <1>14 DEF FingerprintFails
  <2>1. SteadyAt(x[1], x[2]) /\ x[2] \in Path
    BY <1>3
  <2>2. /\ pc = "batch" /\ work # <<>> /\ work' = Tail(work)
        /\ UNCHANGED <<disk, rows, txn, seen, pc, metas, skipped, batch, listed, todo>>
    BY <1>14, InHand DEF FingerprintFails
  <2> QED BY <1>11, <2>1, <2>2, SteadyGoesOn DEF SteadyAt
<1>15. CASE Upsert
  <2> SUFFICES ASSUME NEW x \in past.steady PROVE SteadyAt(x[1], x[2])'
    BY <1>4, <1>15 DEF Upsert
  <2>1. SteadyAt(x[1], x[2]) /\ x[1] \in Content /\ x[2] \in Path
    BY <1>3
  <2>2. /\ cur # None /\ disk[cur.path] # None /\ pc = "batch" /\ work # <<>>
        /\ cur.path = Head(work) /\ work' = Tail(work)
        /\ UNCHANGED <<disk, rows, seen, pc, metas, skipped, batch, listed, todo>>
    BY <1>15, InHand DEF Upsert
  <2> DEFINE been == seen \cup Processed
             c == disk[cur.path].fp
  <2>3. Processed' = Processed \cup {cur.path}
    BY <1>11, <2>2
  <2>4. x[1] = c \/ (x[2] # cur.path /\ cur.path \notin been)
    BY <1>1, <1>5, <1>6, <2>1, <2>2 DEF SteadyAt, Processed, WalkControl
  <2>5. At(View, x[1], x[2], been)
    BY <2>1, <2>2 DEF SteadyAt
  <2>6. /\ c \in Content /\ cur \in [path : Path, stat : File, meta : File]
        /\ View \in Table /\ Unique(View) /\ Keyed(View, refs)
    BY <2>2, UpsertedSays
  <2>7. At(Upserted, x[1], x[2], been \cup {cur.path})
    <3> HIDE DEF been, c
    <3> QED BY <2>1, <2>4, <2>5, <2>6, AtApplied DEF Upserted, c
  <2>8. At(txn', x[1], x[2], seen \cup Processed')
    <3>1. been \cup {cur.path} = seen \cup Processed'
      BY <2>3
    <3>2. CASE txn' = Upserted
      BY <2>7, <3>1, <3>2
    <3>3. ASSUME NEW s \in Hole(Upserted, UpsertedId), txn' = MergedInto(Upserted, UpsertedId, s)
          PROVE  At(txn', x[1], x[2], seen \cup Processed')
      <4> HIDE DEF been
      <4>1. /\ Upserted \in Table /\ Keyed(Upserted, refs) /\ UpsertedId \in Id
            /\ s \in Slot \ {UpsertedId} /\ Upserted[UpsertedId] # None
            /\ Upserted[s] # None /\ Upserted[s].unripped
        BY <2>2, UpsertedSays
      <4> QED BY <2>1, <2>7, <3>1, <3>3, <4>1, AtMerged
    <3> QED BY <1>15, <3>2, <3>3 DEF Upsert
  <2>9. At(rows, x[1], x[2], seen) /\ At(rows, x[1], x[2], seen \cup Processed')
    BY <2>1, <2>2, AtMore DEF SteadyAt
  <2>10. At(View', x[1], x[2], seen \cup Processed')
    BY <2>2, <2>8, <2>9 DEF View
  <2> QED BY <2>1, <2>2, <2>9, <2>10 DEF SteadyAt
<1>16. CASE CommitBatch
  <2> SUFFICES ASSUME NEW x \in past.steady PROVE SteadyAt(x[1], x[2])'
    BY <1>4, <1>16 DEF CommitBatch
  <2>1. SteadyAt(x[1], x[2]) /\ x[2] \in Path
    BY <1>3
  <2>2. /\ pc = "batch" /\ pc' = "walk" /\ NoBatch /\ rows' = View
        /\ seen' = seen \cup (ToSet(batch) \ skipped)
        /\ UNCHANGED <<disk, listed, todo>>
    BY <1>16 DEF CommitBatch
  <2>3. View' = rows' /\ skipped' = {} /\ metas'[x[2]] = None
    BY <2>1, <2>2, NoBatchSays
  <2>4. seen \cup Processed \subseteq seen' /\ At(View, x[1], x[2], seen \cup Processed)
    BY <2>1, <2>2 DEF Processed, SteadyAt
  <2>5. At(View, x[1], x[2], seen') /\ At(View, x[1], x[2], seen' \cup Processed')
    BY <2>4, AtMore
  <2> QED BY <2>1, <2>2, <2>3, <2>5 DEF SteadyAt
<1>17. CASE WalkDone
  <2> SUFFICES ASSUME NEW x \in past.steady PROVE SteadyAt(x[1], x[2])'
    BY <1>4, <1>17 DEF WalkDone
  <2>1. SteadyAt(x[1], x[2]) /\ x[2] \in Path
    BY <1>3
  <2>2. /\ pc = "walk" /\ pc' = "finalize" /\ Processed' = Processed
        /\ UNCHANGED <<disk, rows, txn, seen, metas, skipped, batch, listed, todo>>
    BY <1>17 DEF WalkDone, Processed, scan
  <2> QED BY <2>1, <2>2, SteadyGoesOn DEF SteadyAt
<1>18. CASE Finalize
  <2> SUFFICES ASSUME NEW x \in past.steady PROVE SteadyAt(x[1], x[2])'
    BY <1>1, <1>4, <1>18 DEF Finalize, TypeOK
  <2>1. SteadyAt(x[1], x[2]) /\ x[2] \in Path
    BY <1>3
  <2>2. /\ pc = "finalize" /\ pc' = "idle" /\ NoBatch /\ rows' = Hidden(rows, seen) /\ disk' = disk
    BY <1>18, EndScanSays DEF Finalize
  <2>3. At(rows, x[1], x[2], seen) /\ x[2] \in seen
    BY <1>1, <2>1, <2>2, EmptySays DEF SteadyAt, WalkControl, WalkOver
  <2>4. At(Hidden(rows, seen), x[1], x[2], seen)
    BY <1>2, <2>3, AtHidden
  <2>5. At(rows', x[1], x[2], Path)
    BY <1>2, <2>2, <2>4, AtMore
  <2>6. skipped' = {} /\ metas'[x[2]] = None
    BY <2>1, <2>2, NoBatchSays
  <2> QED BY <2>1, <2>2, <2>5, <2>6 DEF SteadyAt
<1>19. CASE MergeRefused \/ Canceled \/ ScanRaises
  <2> SUFFICES ASSUME NEW x \in past.steady PROVE SteadyAt(x[1], x[2])'
    BY <1>4, <1>19 DEF MergeRefused, Canceled, ScanRaises
  <2>1. pc # "idle" /\ pc' = "idle" /\ NoBatch /\ UNCHANGED <<disk, rows>>
    BY <1>19, EndScanSays, InHand DEF MergeRefused, Canceled, ScanRaises
  <2> QED BY <1>1, <1>3, <2>1, SteadyEnds
<1>20. CASE UNCHANGED <<disk, rows, pc, scan>> /\ past'.steady \subseteq past.steady
  <2>1. Processed' = Processed /\ View' = View
    BY <1>20 DEF scan, Processed, View
  <2>2. ASSUME NEW x \in past.steady PROVE SteadyAt(x[1], x[2])'
    BY <1>3, <1>20, <2>1 DEF SteadyAt, scan
  <2> QED BY <1>4, <1>20, <2>2
<1>21. CASE RequestCancel \/ ConfirmReads \/ PutPlaylist \/ UNCHANGED vars
  BY <1>20, <1>21 DEF RequestCancel, ConfirmReads, PutPlaylist, vars
<1>22. CASE DiskChanges
  <2>1. /\ past'.steady = {x \in past.steady : disk'[x[2]] = disk[x[2]]}
        /\ UNCHANGED <<rows, pc, scan>>
    BY <1>1, <1>22 DEF DiskChanges, TypeOK
  <2>2. Processed' = Processed /\ View' = View
    BY <2>1 DEF scan, Processed, View
  <2>3. ASSUME NEW x \in past'.steady PROVE SteadyAt(x[1], x[2])'
    BY <1>3, <2>1, <2>2 DEF SteadyAt, scan
  <2> QED BY <1>4, <2>1, <2>3
<1>23. CASE ConfirmWrites
  <2>1. /\ rows' = Confirmed /\ Stubbed(rows, rows')
        /\ txn = None /\ UNCHANGED <<disk, pc, scan>>
        /\ past'.steady = {x \in past.steady : x[1] \notin Unlisted}
    BY <1>1, <1>23, ConfirmedSays DEF ConfirmWrites, TypeOK, IInv
  <2>2. Processed' = Processed /\ View' = rows' /\ View = rows
    BY <2>1 DEF scan, Processed, View
  <2>3. ASSUME NEW x \in past'.steady PROVE SteadyAt(x[1], x[2])'
    <3>1. \A been : At(rows, x[1], x[2], been) => At(rows', x[1], x[2], been)
      BY <2>1, <2>3, AtConfirmed DEF Unlisted
    <3> QED BY <1>3, <2>1, <2>2, <2>3, <3>1 DEF SteadyAt, scan
  <2> QED BY <1>4, <2>1, <2>3
<1> QED BY <1>7, <1>8, <1>9, <1>10, <1>12, <1>13, <1>14, <1>15, <1>16, <1>17, <1>18, <1>19,
           <1>21, <1>22, <1>23 DEF Next, Scan

-----------------------------------------------------------------------------
(* What a quiet disk shows.                                                *)

SlotsOf(d) == {disk[p].slot : p \in {q \in InFolder(d) : /\ disk[q] # None
                                                         /\ disk[q].fp \notin Lossy}}

LEMMA ShadowedSays ==
    ASSUME NEW p \in Path
    PROVE  Shadowed(p) <=> disk[p].fp \in Lossy /\ disk[p].slot \in SlotsOf(Dir[p])
BY DEF Shadowed, SlotsOf

\* With caches that are true of the disk, a file is skipped if and only if a
\* lossless file keeps it out.
LEMMA ExamineReads ==
    ASSUME IInv, Examine, past.quiet
    PROVE  /\ Head(work) \in Path /\ Head(work) \in ToSet(work) /\ disk[Head(work)] # None
           /\ \A q \in Path : metas'[q] \in {None, disk[q]}
           /\ \A d \in DOMAIN slots' : slots'[d] = SlotsOf(d)
           /\ \/ /\ Shadowed(Head(work)) /\ skipped' = skipped \cup {Head(work)}
                 /\ work' = Tail(work) /\ cur' = cur
              \/ /\ ~Shadowed(Head(work)) /\ skipped' = skipped /\ mode = "quick"
                 /\ work' = Tail(work) /\ cur' = cur
                 /\ \E i \in Id : /\ Present(View[i]) /\ View[i].path = Head(work)
                                  /\ View[i].stat = disk[Head(work)]
              \/ /\ ~Shadowed(Head(work)) /\ skipped' = skipped /\ work' = work
                 /\ cur' = [path |-> Head(work), stat |-> disk[Head(work)],
                            meta |-> disk[Head(work)]]
PROOF
<1> DEFINE p == Head(work)
           d == Dir[p]
           meta == MetaOf(p)
           lossy == meta.fp \in Lossy
           known == IF d \in DOMAIN slots THEN slots[d] ELSE LosslessSlots(d)
           shadowed == lossy /\ meta.slot \in known
           same == /\ mode = "quick"
                   /\ \E i \in Id : Present(View[i]) /\ View[i].path = p /\ View[i].stat = disk[p]
<1>1. /\ disk[p] # None
      /\ metas' = Read(IF lossy /\ d \notin DOMAIN slots THEN InFolder(d) ELSE {p})
      /\ slots' = IF lossy THEN [e \in DOMAIN slots \cup {d} |->
                                     IF e = d THEN known ELSE slots[e]] ELSE slots
      /\ skipped' = IF shadowed THEN skipped \cup {p} ELSE skipped
      /\ IF shadowed \/ same
         THEN NextFile
         ELSE /\ cur' = [path |-> p, stat |-> disk[p], meta |-> meta]
              /\ UNCHANGED <<work, txn>>
      /\ pc = "batch" /\ work # <<>>
  BY DEF Examine
<1>2. TypeOK /\ WalkControl /\ ReadControl
  BY DEF IInv
<1>3. p \in Path /\ p \in ToSet(work)
  BY <1>1, <1>2, TailSays DEF TypeOK, WalkControl
<1>4. \A q \in Path : metas[q] \in {None, disk[q]}
  BY <1>1, <1>2 DEF ReadControl
<1>5. \A q \in Path : MetaOf(q) = disk[q]
  BY <1>4 DEF MetaOf
<1>6. \A e \in DOMAIN slots : slots[e] = SlotsOf(e)
  BY <1>1, <1>2 DEF ReadControl, SlotsOf
<1>7. meta = disk[p]
  BY <1>3, <1>5
<1>8. \A e : LosslessSlots(e) = SlotsOf(e)
  BY <1>5 DEF LosslessSlots, SlotsOf, InFolder
<1>9. known = SlotsOf(d)
  BY <1>6, <1>8
<1>10. shadowed <=> Shadowed(p)
  BY <1>3, <1>7, <1>9, ShadowedSays
<1> HIDE DEF meta, lossy, known, shadowed, same, p, d
<1>11. \A paths : \A q \in Path : Read(paths)[q] \in {None, disk[q]}
  BY <1>4, <1>5 DEF Read
<1>12. \A q \in Path : metas'[q] \in {None, disk[q]}
  BY <1>1, <1>11
<1>13. \A e \in DOMAIN slots' : slots'[e] = SlotsOf(e)
  BY <1>1, <1>6, <1>9
<1>14. CASE shadowed
  BY <1>1, <1>3, <1>10, <1>12, <1>13, <1>14 DEF NextFile, p
<1>15. CASE ~shadowed /\ same
  BY <1>1, <1>3, <1>10, <1>12, <1>13, <1>15 DEF NextFile, p, same
<1>16. CASE ~shadowed /\ ~same
  BY <1>1, <1>3, <1>7, <1>10, <1>12, <1>13, <1>16 DEF p
<1> QED BY <1>14, <1>15, <1>16

LEMMA StepReads ==
    ASSUME IInv, [Next]_vars
    PROVE  ReadControl'
PROOF
<1>1. TypeOK /\ WalkControl /\ BatchControl /\ ReadControl
  BY DEF IInv
<1>2. /\ batch \in Seq(Path) /\ ToSet(batch) \subseteq Path /\ listed \subseteq Path
      /\ seen \subseteq Path /\ work \in Seq(Path)
  BY <1>1, PathsOf DEF TypeOK
<1>3. ASSUME pc # "idle", UNCHANGED <<disk, past, metas, slots, skipped, todo, seen>>,
             cur' = cur \/ cur' = None,
             \A p \in listed' \cup ToSet(batch') : p \in listed \cup ToSet(batch) \/ disk[p] # None,
             \A p \in listed \cup ToSet(batch) :
                 disk[p] # None => p \in listed' \cup ToSet(batch')
      PROVE  ReadControl'
  BY <1>1, <1>3 DEF ReadControl, Shadowed, InFolder
<1>4. CASE StartScan
  <2>1. /\ todo' = {Dir[p] : p \in Path} /\ listed' = {} /\ batch' = <<>> /\ seen' = {} /\ NoBatch
    BY <1>4 DEF StartScan
  <2> QED BY <2>1, EmptySays, NoBatchSays DEF ReadControl
<1>5. CASE ListFolder
  <2>1. PICK d \in todo : /\ todo' = todo \ {d}
                          /\ listed' = {p \in Path : Dir[p] = d /\ disk[p] # None}
    BY <1>5 DEF ListFolder
  <2>2. /\ pc = "walk" /\ listed = {}
        /\ UNCHANGED <<disk, past, metas, slots, skipped, batch, seen, cur>>
    BY <1>5 DEF ListFolder
  <2> QED BY <1>1, <2>1, <2>2 DEF ReadControl, Shadowed, InFolder
<1>6. CASE Visit
  <2>1. PICK p \in listed : /\ listed' = listed \ {p}
                            /\ batch' = IF disk[p] = None THEN batch ELSE Append(batch, p)
    BY <1>6 DEF Visit
  <2>2. p \in Path /\ p \notin ToSet(batch) /\ IsInjective(batch)
    BY <1>1, <1>2 DEF WalkControl
  <2>3. ToSet(batch') = IF disk[p] = None THEN ToSet(batch) ELSE ToSet(batch) \cup {p}
    BY <1>2, <2>1, <2>2, AppendSays
  <2>4. pc = "walk" /\ UNCHANGED <<disk, past, metas, slots, skipped, todo, seen, cur>>
    BY <1>6 DEF Visit
  <2> QED BY <1>3, <2>1, <2>3, <2>4
<1>7. CASE Flush \/ StatFails
  BY <1>3, <1>7 DEF Flush, StatFails, NextFile
<1>8. CASE FingerprintFails \/ Upsert
  BY <1>3, <1>8, InHand DEF FingerprintFails, Upsert
<1>9. CASE Examine
  <2>1. UNCHANGED <<disk, past, pc, listed, batch, todo, seen>> /\ pc = "batch"
    BY <1>9 DEF Examine
  <2> SUFFICES ASSUME past.quiet PROVE ReadControl'
    BY <2>1 DEF ReadControl
  <2>2. /\ \A q \in Path : metas'[q] \in {None, disk[q]}
        /\ \A d \in DOMAIN slots' : slots'[d] = SlotsOf(d)
        /\ \/ Shadowed(Head(work)) /\ skipped' = skipped \cup {Head(work)} /\ cur' = cur
           \/ skipped' = skipped /\ cur' = cur
           \/ /\ ~Shadowed(Head(work)) /\ skipped' = skipped
              /\ cur' = [path |-> Head(work), stat |-> disk[Head(work)],
                         meta |-> disk[Head(work)]]
    BY <1>9, ExamineReads
  <2>3. \A p : Shadowed(p)' <=> Shadowed(p)
    BY <2>1 DEF Shadowed, InFolder
  <2>4. \A p \in skipped' : Shadowed(p)
    BY <1>1, <2>1, <2>2 DEF ReadControl
  <2>5. cur' # None => /\ cur'.stat = disk[cur'.path] /\ cur'.meta = disk[cur'.path]
                       /\ ~Shadowed(cur'.path)
    BY <1>1, <2>1, <2>2 DEF ReadControl
  <2>6. /\ \A p \in listed \cup ToSet(batch) \cup seen : disk[p] # None
        /\ \A p \in Path : disk[p] # None =>
               \/ Dir[p] \in todo \/ p \in listed \cup ToSet(batch) \cup seen
               \/ Shadowed(p)
    BY <1>1, <2>1 DEF ReadControl
  <2> QED BY <2>1, <2>2, <2>3, <2>4, <2>5, <2>6 DEF ReadControl, SlotsOf, InFolder
<1>10. CASE CommitBatch
  <2>1. /\ NoBatch /\ batch' = <<>> /\ seen' = seen \cup (ToSet(batch) \ skipped)
        /\ pc = "batch" /\ UNCHANGED <<disk, past, todo, listed>>
    BY <1>10 DEF CommitBatch
  <2>2. ToSet(batch') = {} /\ cur' = None /\ skipped' = {} /\ DOMAIN slots' = {}
        /\ \A p \in Path : metas'[p] = None
    BY <2>1, EmptySays, NoBatchSays
  <2>3. \A p : Shadowed(p)' <=> Shadowed(p)
    BY <2>1 DEF Shadowed, InFolder
  <2> QED BY <1>1, <2>1, <2>2, <2>3 DEF ReadControl
<1>11. CASE MergeRefused \/ Canceled \/ Finalize \/ ScanRaises
  BY <1>11, EndScanSays DEF ReadControl, MergeRefused, Canceled, Finalize, ScanRaises
<1>12. ASSUME UNCHANGED <<disk, scan>>, past'.quiet => past.quiet, pc = "idle" => pc' = "idle"
       PROVE  ReadControl'
  BY <1>1, <1>12 DEF ReadControl, scan, Shadowed, InFolder
<1>13. CASE WalkDone \/ RequestCancel \/ ConfirmReads \/ PutPlaylist \/ UNCHANGED vars
  BY <1>12, <1>13 DEF WalkDone, RequestCancel, ConfirmReads, PutPlaylist, vars
<1>14. CASE ConfirmWrites
  BY <1>1, <1>12, <1>14 DEF ConfirmWrites, TypeOK
<1>15. CASE DiskChanges
  BY <1>1, <1>15 DEF DiskChanges, TypeOK, ReadControl
<1> QED BY <1>4, <1>5, <1>6, <1>7, <1>8, <1>9, <1>10, <1>11, <1>13, <1>14, <1>15
           DEF Next, Scan

-----------------------------------------------------------------------------
(* What a quiet scan leaves.                                               *)

\* The file in hand while the disk stands still.
InHandIs(e) ==
    /\ e \in [path : Path, stat : File, meta : File]
    /\ e.stat = disk[e.path] /\ e.meta = disk[e.path] /\ ~Shadowed(e.path)

LEMMA FileIs ==
    ASSUME NEW f \in File
    PROVE  f = [fp |-> f.fp, slot |-> f.slot]
BY DEF File

LEMMA AppliedMeets ==
    ASSUME NEW t \in Table, NEW held, Unique(t), Keyed(t, held), NEW e, InHandIs(e),
           NEW been
    PROVE  LET u == Applied(t, disk[e.path].fp, e) IN
           /\ Placed(t, been) => Placed(u, been \cup {e.path})
           /\ Exact(t) => Exact(u)
           /\ Truth(t) => Truth(u)
           /\ Met(t, been) /\ (\A p \in been : disk[p] \in File) /\ e.path \notin been
                  => Met(u, been \cup {e.path})
PROOF
<1> DEFINE c == disk[e.path].fp
           i == Owner(t, c)
           u == Applied(t, c, e)
<1>1. /\ c \in Content /\ e \in [path : Path, stat : File, meta : File]
      /\ e.stat = disk[e.path] /\ e.meta = disk[e.path] /\ e.path # None
      /\ disk[e.path] = [fp |-> c, slot |-> e.meta.slot]
      /\ ~Shadowed(e.path) /\ disk[e.path] # None
  BY LibraryIndexAssumption, NoneAssumption, FileIs DEF InHandIs, File
<1> HIDE DEF c
<1>2. /\ i \in Id
      /\ u[i] # None /\ u[i].fp = c /\ u[i].path = e.path
      /\ u[i].stat = e.stat /\ u[i].slot = e.meta.slot
      /\ \A j \in Id \ {i} :
             /\ (u[j] = None) <=> (t[j] = None)
             /\ t[j] # None =>
                    /\ u[j].fp = t[j].fp /\ t[j].fp # c
                    /\ u[j].stat = t[j].stat /\ u[j].slot = t[j].slot
                    /\ u[j].path = IF t[j].path = e.path THEN None ELSE t[j].path
  BY <1>1, AppliedSays
<1>3. ASSUME NEW d \in Content, NEW p, NEW been2, At(t, d, p, been2),
             d = c \/ (p # e.path /\ e.path \notin been2)
      PROVE  At(u, d, p, been2 \cup {e.path})
  BY <1>1, <1>3, AtApplied
<1> HIDE DEF i, u
<1>4. \A j \in Id \ {i} : Present(u[j]) =>
          /\ Present(t[j]) /\ u[j].fp = t[j].fp /\ t[j].fp # c /\ u[j].stat = t[j].stat
          /\ u[j].slot = t[j].slot /\ u[j].path = t[j].path /\ t[j].path # e.path
  BY <1>2 DEF Present
<1>5. Present(u[i])
  BY <1>1, <1>2 DEF Present
<1>6. ASSUME Placed(t, been) PROVE Placed(u, been \cup {e.path})
  <2>1. disk[u[i].path] = [fp |-> u[i].fp, slot |-> u[i].slot]
    BY <1>1, <1>2
  <2>2. ASSUME NEW j \in Id \ {i}, Present(u[j]), u[j].path \in been \cup {e.path}
        PROVE  disk[u[j].path] = [fp |-> u[j].fp, slot |-> u[j].slot]
    <3>1. /\ Present(t[j]) /\ t[j].path \in been
          /\ u[j].fp = t[j].fp /\ u[j].slot = t[j].slot /\ u[j].path = t[j].path
      BY <1>4, <2>2
    <3> QED BY <1>6, <3>1 DEF Placed
  <2> QED BY <2>1, <2>2 DEF Placed
<1>7. ASSUME Exact(t) PROVE Exact(u)
  <2>1. u[i].stat = [fp |-> u[i].fp, slot |-> u[i].slot]
    BY <1>1, <1>2
  <2>2. ASSUME NEW j \in Id \ {i}, Present(u[j])
        PROVE  u[j].stat = [fp |-> u[j].fp, slot |-> u[j].slot]
    BY <1>4, <1>7, <2>2 DEF Exact
  <2> QED BY <2>1, <2>2 DEF Exact
<1>8. ASSUME Truth(t) PROVE Truth(u)
  <2>1. ASSUME NEW j \in Id, Present(u[j])
        PROVE  /\ disk[u[j].path] = [fp |-> u[j].fp, slot |-> u[j].slot]
               /\ ~Shadowed(u[j].path)
    <3>1. CASE j = i
      BY <1>1, <1>2, <3>1
    <3>2. CASE j # i
      <4>1. /\ Present(t[j]) /\ u[j].fp = t[j].fp
            /\ u[j].slot = t[j].slot /\ u[j].path = t[j].path
        BY <1>4, <2>1, <3>2
      <4> QED BY <1>8, <4>1 DEF Truth
    <3> QED BY <3>1, <3>2
  <2>2. ASSUME NEW p \in Path, disk[p] # None, ~Shadowed(p)
        PROVE  \E j \in Id : Present(u[j]) /\ u[j].fp = disk[p].fp
    <3>1. PICK j \in Id : Present(t[j]) /\ t[j].fp = disk[p].fp
      BY <1>8, <2>2 DEF Truth
    <3>2. t[j].path = e.path => t[j].fp = c
      <4>1. disk[t[j].path] = [fp |-> t[j].fp, slot |-> t[j].slot]
        BY <1>8, <3>1 DEF Truth
      <4>2. disk[t[j].path].fp = t[j].fp
        BY <4>1
      <4> QED BY <4>2 DEF c
    <3>3. CASE disk[p].fp = c
      BY <1>2, <1>5, <3>3
    <3>4. CASE disk[p].fp # c
      <4>1. j # i
        BY <1>1, <3>1, <3>4, OwnerSays DEF i, Present
      <4> QED BY <1>2, <3>1, <3>2, <3>4, <4>1 DEF Present
    <3> QED BY <3>3, <3>4
  <2> QED BY <2>1, <2>2 DEF Truth
<1>9. ASSUME Met(t, been), \A p \in been : disk[p] \in File, e.path \notin been
      PROVE  Met(u, been \cup {e.path})
  <2>1. At(u, c, e.path, been \cup {e.path})
    BY <1>1, <1>2 DEF At
  <2>2. ASSUME NEW p \in been PROVE ~Shadowed(p) /\ At(u, disk[p].fp, p, been \cup {e.path})
    <3>1. disk[p].fp \in Content /\ p # e.path /\ At(t, disk[p].fp, p, been) /\ ~Shadowed(p)
      BY <1>9 DEF File, Met
    <3> QED BY <1>3, <1>9, <3>1
  <2>3. c = disk[e.path].fp
    BY DEF c
  <2> QED BY <1>1, <2>1, <2>2, <2>3 DEF Met
<1> QED BY <1>6, <1>7, <1>8, <1>9 DEF u, c

LEMMA MergedMeets ==
    ASSUME NEW t \in Table, NEW held, Keyed(t, held), NEW i \in Id, NEW s \in Slot \ {i},
           t[i] # None, t[s] # None, t[s].unripped, TypeOK, NEW been,
           \A p \in been : disk[p] \in File
    PROVE  LET u == MergedInto(t, i, s) IN
           /\ Placed(t, been) => Placed(u, been)
           /\ Exact(t) => Exact(u)
           /\ Truth(t) => Truth(u)
           /\ Met(t, been) => Met(u, been)
PROOF
<1> DEFINE u == MergedInto(t, i, s)
<1>1. s \in Id \ {i} /\ t[s].fp = s /\ s \notin Content
  BY LibraryIndexAssumption DEF Id, Keyed
<1>2. /\ u[i] = None
      /\ u[s] # None /\ u[s].fp = t[i].fp /\ u[s].path = t[i].path
      /\ u[s].stat = t[i].stat /\ u[s].slot = t[i].slot
      /\ \A j \in Id \ {i, s} : u[j] = t[j]
  BY <1>1, MergedSays
<1>3. ASSUME NEW d \in Content, NEW p, At(t, d, p, been) PROVE At(u, d, p, been)
  BY <1>3, AtMerged
<1> HIDE DEF u
<1>4. \A j \in Id : Present(u[j]) =>
          \E k \in Id : /\ Present(t[k]) /\ u[j].fp = t[k].fp /\ u[j].stat = t[k].stat
                        /\ u[j].slot = t[k].slot /\ u[j].path = t[k].path
  BY <1>1, <1>2 DEF Present
<1>5. Placed(t, been) => Placed(u, been)
  BY <1>4 DEF Placed
<1>6. Exact(t) => Exact(u)
  BY <1>4 DEF Exact
<1>7. ASSUME Truth(t) PROVE Truth(u)
  <2>1. \A j \in Id : Present(u[j]) =>
            /\ disk[u[j].path] = [fp |-> u[j].fp, slot |-> u[j].slot]
            /\ ~Shadowed(u[j].path)
    BY <1>4, <1>7 DEF Truth
  <2>2. ASSUME NEW p \in Path, disk[p] # None, ~Shadowed(p)
        PROVE  \E j \in Id : Present(u[j]) /\ u[j].fp = disk[p].fp
    <3>1. PICK j \in Id : Present(t[j]) /\ t[j].fp = disk[p].fp
      BY <1>7, <2>2 DEF Truth
    <3>2. disk[p].fp \in Content
      BY <2>2, TypesSay
    <3>3. j # s
      BY <1>1, <3>1, <3>2
    <3> QED BY <1>1, <1>2, <3>1, <3>3 DEF Present
  <2> QED BY <2>1, <2>2 DEF Truth
<1>8. Met(t, been) => Met(u, been)
  <2>1. \A p \in been : disk[p].fp \in Content
    BY DEF File
  <2> QED BY <1>3, <2>1 DEF Met
<1> QED BY <1>5, <1>6, <1>7, <1>8 DEF u

\* The formulas look at the present rows only.
LEMMA SamePresent ==
    ASSUME NEW t, NEW u, \A j \in Id : (Present(t[j]) \/ Present(u[j])) => u[j] = t[j], NEW been
    PROVE  /\ Placed(t, been) => Placed(u, been)
           /\ Exact(t) => Exact(u)
           /\ Truth(t) => Truth(u)
           /\ Met(t, been) => Met(u, been)
PROOF
<1>1. ASSUME NEW c, NEW p, At(t, c, p, been) PROVE At(u, c, p, been)
  BY <1>1 DEF At, Present
<1>2. Met(t, been) => Met(u, been)
  BY <1>1 DEF Met
<1> QED BY <1>2 DEF Placed, Exact, Truth

\* While the disk stands still the formulas of two states are about one disk.
LEMMA SameDisk ==
    ASSUME disk' = disk
    PROVE  /\ Met(rows', seen') => Met(rows, seen)'
           /\ Met(View', seen' \cup Processed') => Met(View, seen \cup Processed)'
           /\ Placed(rows', seen') => Placed(rows, seen)'
           /\ Placed(View', seen' \cup Processed') => Placed(View, seen \cup Processed)'
           /\ Truth(rows') => Truth(rows)'
           /\ Truth(View') => Truth(View)'
PROOF
<1>1. \A p : Shadowed(p)' <=> Shadowed(p)
  BY DEF Shadowed, InFolder
<1>2. Met(rows', seen') => Met(rows, seen)'
  BY <1>1 DEF Met
<1>3. Met(View', seen' \cup Processed') => Met(View, seen \cup Processed)'
  BY <1>1 DEF Met
<1>4. /\ Placed(rows', seen') => Placed(rows, seen)'
      /\ Placed(View', seen' \cup Processed') => Placed(View, seen \cup Processed)'
  BY DEF Placed
<1>5. Truth(rows') => Truth(rows)'
  BY <1>1 DEF Truth
<1>6. Truth(View') => Truth(View)'
  BY <1>1 DEF Truth
<1> QED BY <1>2, <1>3, <1>4, <1>5, <1>6

\* What MetControl says, about one table and the paths that it covers.
Good(t, been) ==
    /\ past.exact /\ ~cancel => Met(t, been) /\ Placed(t, been)
    /\ past.exact /\ mode = "quick" => Exact(t)
    /\ past.fresh => Truth(t)

LEMMA GoodSays ==
    ASSUME MetControl, FreshControl, past.quiet, pc # "idle"
    PROVE  Good(rows, seen) /\ Good(View, seen \cup Processed)
BY DEF MetControl, FreshControl, Good

LEMMA GoodAgain ==
    ASSUME past.quiet, UNCHANGED <<disk, past.quiet, past.exact, past.fresh, mode>>,
           cancel => cancel',
           Good(rows', seen'), Good(View', seen' \cup Processed')
    PROVE  MetControl' /\ FreshControl'
PROOF
<1>1. /\ past.exact /\ ~cancel' => /\ Met(rows, seen)' /\ Placed(rows, seen)'
                                   /\ Met(View, seen \cup Processed)'
                                   /\ Placed(View, seen \cup Processed)'
      /\ past.exact /\ mode = "quick" => Exact(rows') /\ Exact(View')
      /\ past.fresh => Truth(rows)' /\ Truth(View)'
  BY SameDisk DEF Good
<1> QED BY <1>1 DEF MetControl, FreshControl

\* A file is examined, or gets its row.
LEMMA UpsertMeets ==
    ASSUME IInv, Upsert, past.quiet
    PROVE  Good(View', seen' \cup Processed')
PROOF
<1>1. /\ TypeOK /\ WalkControl /\ ReadControl /\ MetControl /\ FreshControl
  BY DEF IInv
<1>2. /\ cur # None /\ disk[cur.path] # None /\ pc = "batch" /\ work # <<>>
      /\ cur.path = Head(work) /\ work' = Tail(work)
      /\ UNCHANGED <<disk, rows, refs, disc, pc, cancel, mode, batch, skipped, seen, past>>
  BY InHand DEF Upsert
<1>3. /\ batch \in Seq(Path) /\ work \in Seq(Path) /\ seen \subseteq Path
      /\ ToSet(batch) \subseteq Path
  BY <1>1, PathsOf DEF TypeOK
<1>4. /\ Head(work) \in ToSet(work) /\ ToSet(Tail(work)) = ToSet(work) \ {Head(work)}
  BY <1>1, <1>2, <1>3, TailSays DEF WalkControl
<1> DEFINE been == seen \cup Processed
<1>5. seen' \cup Processed' = been \cup {cur.path} /\ cur.path \notin been /\ been \subseteq Path
  BY <1>1, <1>2, <1>3, <1>4 DEF Processed, WalkControl
<1>6. \A p \in been \cup {cur.path} : disk[p] \in File
  <2>1. \A p \in been \cup {cur.path} : disk[p] # None /\ p \in Path
    BY <1>1, <1>2, <1>3, <1>4 DEF ReadControl, Processed, WalkControl
  <2> QED BY <1>1, <2>1, TypesSay
<1>7. /\ InHandIs(cur) /\ View \in Table /\ Unique(View) /\ Keyed(View, refs)
  <2>1. cur \in [path : Path, stat : File, meta : File]
    BY <1>2, UpsertedSays
  <2>2. cur.stat = disk[cur.path] /\ cur.meta = disk[cur.path] /\ ~Shadowed(cur.path)
    BY <1>1, <1>2 DEF ReadControl
  <2> QED BY <1>2, <2>1, <2>2, UpsertedSays DEF InHandIs
<1>8. Good(rows, seen) /\ Good(View, been)
  BY <1>1, <1>2, GoodSays
<1> HIDE DEF been
<1>9. Good(Upserted, been \cup {cur.path})
  BY <1>5, <1>6, <1>7, <1>8, AppliedMeets DEF Good, Upserted
<1>10. ASSUME NEW s \in Hole(Upserted, UpsertedId), txn' = MergedInto(Upserted, UpsertedId, s)
       PROVE  Good(txn', been \cup {cur.path})
  <2>1. /\ Upserted \in Table /\ Keyed(Upserted, refs) /\ UpsertedId \in Id
        /\ s \in Slot \ {UpsertedId} /\ Upserted[UpsertedId] # None
        /\ Upserted[s] # None /\ Upserted[s].unripped
    BY <1>2, UpsertedSays
  <2> QED BY <1>1, <1>6, <1>9, <1>10, <2>1, MergedMeets DEF Good
<1>11. Good(txn', been \cup {cur.path})
  BY <1>9, <1>10 DEF Upsert
<1>12. txn' # None
  BY UpsertSays, NoneAssumption DEF Table
<1> QED BY <1>5, <1>11, <1>12 DEF View

LEMMA ExamineMeets ==
    ASSUME IInv, Examine, past.quiet
    PROVE  Good(View', seen' \cup Processed')
PROOF
<1>1. /\ TypeOK /\ WalkControl /\ ReadControl /\ MetControl /\ FreshControl /\ BatchControl
      /\ TableControl
  BY DEF IInv
<1>2. /\ pc = "batch" /\ work # <<>> /\ ~cancel /\ txn' = txn
      /\ UNCHANGED <<disk, rows, refs, disc, pc, cancel, mode, batch, seen, past>>
  BY DEF Examine, NextFile
<1>3. /\ batch \in Seq(Path) /\ work \in Seq(Path) /\ seen \subseteq Path
  BY <1>1 DEF TypeOK
<1>4. ToSet(Tail(work)) = ToSet(work) \ {Head(work)}
  BY <1>1, <1>2, <1>3, TailSays DEF WalkControl
<1>5. View' = View /\ Good(View, seen \cup Processed)
  BY <1>1, <1>2, GoodSays DEF View
<1>6. CASE Processed' = Processed
  BY <1>2, <1>5, <1>6
<1> DEFINE p == Head(work)
           been == seen \cup Processed
<1>7. CASE /\ ~Shadowed(p) /\ skipped' = skipped /\ mode = "quick" /\ work' = Tail(work)
           /\ \E i \in Id : Present(View[i]) /\ View[i].path = p /\ View[i].stat = disk[p]
  <2>1. p \in ToSet(batch) /\ p \notin skipped /\ p \in Path /\ disk[p] # None
    BY <1>1, ExamineReads DEF WalkControl
  <2>2. seen' \cup Processed' = been \cup {p}
    BY <1>2, <1>4, <1>7, <2>1 DEF Processed
  <2>3. PICK i \in Id : Present(View[i]) /\ View[i].path = p /\ View[i].stat = disk[p]
    BY <1>7
  <2>4. \A j \in Id : Present(View[j]) /\ View[j].path = p => j = i
    BY <1>1, <2>3 DEF TableControl, Unique, Present
  <2> HIDE DEF been, p
  <2>5. past.exact => View[i].stat = [fp |-> View[i].fp, slot |-> View[i].slot]
    BY <1>5, <1>7, <2>3 DEF Good, Exact
  <2>6. past.exact => disk[p].fp = View[i].fp
    BY <2>3, <2>5
  <2>7. past.exact => At(View, disk[p].fp, p, been \cup {p})
    BY <2>3, <2>6 DEF At, Present
  <2>8. ASSUME past.exact PROVE Met(View, been \cup {p})
    <3>1. Met(View, been)
      BY <1>2, <1>5, <2>8 DEF Good, been
    <3>2. \A q \in been : ~Shadowed(q) /\ At(View, disk[q].fp, q, been \cup {p})
      BY <3>1, AtMore DEF Met
    <3> QED BY <1>7, <2>7, <2>8, <3>2 DEF Met
  <2>9. past.exact => Placed(View, been \cup {p})
    BY <1>2, <1>5, <2>3, <2>4, <2>5 DEF Good, Placed, been
  <2>10. Good(View, been \cup {p})
    BY <1>5, <2>8, <2>9 DEF Good
  <2> QED BY <1>5, <2>2, <2>10
<1>8. Processed' = Processed \/ ( /\ ~Shadowed(p) /\ skipped' = skipped /\ mode = "quick"
                                  /\ work' = Tail(work)
                                  /\ \E i \in Id : /\ Present(View[i]) /\ View[i].path = p
                                                   /\ View[i].stat = disk[p])
  BY <1>2, <1>4, ExamineReads DEF Processed
<1> QED BY <1>6, <1>7, <1>8

LEMMA StepMeets ==
    ASSUME IInv, [Next]_vars
    PROVE  MetControl' /\ FreshControl'
PROOF
<1>1. /\ TypeOK /\ WalkControl /\ BatchControl /\ TableControl /\ ReadControl
      /\ MetControl /\ FreshControl
  BY DEF IInv
<1>2. /\ rows \in Table /\ View \in Table /\ refs \in SUBSET Id /\ seen \in SUBSET Path
      /\ batch \in Seq(Path) /\ work \in Seq(Path) /\ ToSet(batch) \subseteq Path
      /\ listed \subseteq Path
      /\ \A p \in Path : disk[p] # None => disk[p] \in File
  BY <1>1, TypesSay, PathsOf
<1>3. past.quiet /\ pc # "idle" => Good(rows, seen) /\ Good(View, seen \cup Processed)
  BY <1>1, GoodSays
<1>4. ASSUME ~past'.quiet, ~past'.fresh PROVE MetControl' /\ FreshControl'
  BY <1>4 DEF MetControl, FreshControl
<1>5. ASSUME UNCHANGED <<disk, past, mode, rows, seen>>, View' = View, Processed' = Processed,
             cancel => cancel', pc # "idle"
      PROVE  MetControl' /\ FreshControl'
  <2>1. CASE past.quiet
    <3>1. Good(rows', seen') /\ Good(View', seen' \cup Processed')
      BY <1>3, <1>5, <2>1 DEF Good
    <3> QED BY <1>5, <2>1, <3>1, GoodAgain
  <2>2. CASE ~past.quiet
    BY <1>1, <1>4, <1>5, <2>2 DEF FreshControl
  <2> QED BY <2>1, <2>2
<1>6. ASSUME NoBatch, pc' = "idle", UNCHANGED <<disk, rows>>, past' = past
      PROVE  MetControl' /\ FreshControl'
  <2>1. past.fresh => past.quiet /\ Truth(rows)'
    BY <1>1, <1>6, SameDisk DEF FreshControl
  <2> QED BY <1>6, <2>1 DEF MetControl, FreshControl
<1>7. CASE StartScan
  <2>1. /\ seen' = {} /\ batch' = <<>> /\ NoBatch /\ pc' = "walk" /\ UNCHANGED <<disk, rows>>
        /\ past'.quiet /\ past'.fresh = past.fresh
        /\ past'.exact => mode' = "full" \/ Exact(rows)
    BY <1>1, <1>7 DEF StartScan, TypeOK
  <2>2. View' = rows' /\ Processed' = {}
    BY <2>1, NoBatchSays DEF Processed
  <2>3. past.fresh => Truth(rows)' /\ Truth(View)'
    BY <1>1, <2>1, <2>2, SameDisk DEF FreshControl
  <2>4. /\ Met(rows, seen)' /\ Met(View, seen \cup Processed)'
        /\ Placed(rows, seen)' /\ Placed(View, seen \cup Processed)'
    BY <2>1, <2>2 DEF Met, Placed
  <2>5. past'.exact /\ mode' = "quick" => Exact(rows') /\ Exact(View')
    BY <2>1, <2>2
  <2> QED BY <2>1, <2>3, <2>4, <2>5 DEF MetControl, FreshControl
<1>8. CASE ListFolder \/ Visit
  <2>1. pc = "walk" /\ UNCHANGED <<disk, rows, txn, seen, past, mode, cancel, pc>>
    BY <1>8 DEF ListFolder, Visit
  <2>2. Processed' = Processed /\ View' = View
    BY <2>1 DEF Processed, View
  <2> QED BY <1>5, <2>1, <2>2
<1>9. CASE Flush
  <2>1. /\ pc = "walk" /\ work' = batch
        /\ UNCHANGED <<disk, rows, txn, seen, past, mode, cancel, batch>>
    BY <1>9 DEF Flush
  <2>2. Processed' = Processed /\ View' = View
    BY <2>1 DEF Processed, View
  <2> QED BY <1>5, <2>1, <2>2
<1>10. CASE WalkDone
  <2>1. pc = "walk" /\ pc' = "finalize" /\ UNCHANGED <<disk, rows, txn, seen, past, mode, cancel>>
    BY <1>10 DEF WalkDone, scan
  <2>2. Processed' = Processed /\ View' = View
    BY <2>1 DEF Processed, View
  <2> QED BY <1>5, <2>1, <2>2
<1>11. CASE RequestCancel
  <2>1. pc # "idle" /\ cancel' /\ UNCHANGED <<disk, rows, past, pc, scan>>
    BY <1>11 DEF RequestCancel
  <2>2. Processed' = Processed /\ View' = View
    BY <2>1 DEF Processed, View, scan
  <2> QED BY <1>5, <2>1, <2>2 DEF scan
<1>12. CASE StatFails \/ FingerprintFails
  <2>1. pc = "batch" /\ work # <<>> /\ disk[Head(work)] = None /\ past' = past
    BY <1>12, InHand DEF StatFails, FingerprintFails
  <2>2. Head(work) \in ToSet(batch)
    BY <1>1, <1>2, <2>1, TailSays DEF WalkControl
  <2>3. ~past.quiet
    BY <1>1, <2>1, <2>2 DEF ReadControl
  <2> QED BY <1>1, <1>4, <2>1, <2>3 DEF FreshControl
<1>13. CASE Examine \/ Upsert
  <2>1. /\ pc = "batch" /\ UNCHANGED <<disk, rows, seen, past, mode, cancel>>
    BY <1>13, InHand DEF Examine, Upsert
  <2>2. CASE past.quiet
    <3>1. Good(View', seen' \cup Processed')
      BY <1>13, <2>2, ExamineMeets, UpsertMeets
    <3>2. Good(rows', seen')
      BY <1>3, <2>1, <2>2
    <3> QED BY <2>1, <2>2, <3>1, <3>2, GoodAgain
  <2>3. CASE ~past.quiet
    BY <1>1, <1>4, <2>1, <2>3 DEF FreshControl
  <2> QED BY <2>2, <2>3
<1>14. CASE CommitBatch
  <2>1. /\ pc = "batch" /\ pc' = "walk" /\ NoBatch /\ rows' = View /\ batch' = <<>>
        /\ work = <<>> \/ cancel
        /\ seen' = seen \cup (ToSet(batch) \ skipped)
        /\ UNCHANGED <<disk, past, mode, cancel>>
    BY <1>14 DEF CommitBatch
  <2>2. View' = View /\ Processed' = {}
    BY <2>1, NoBatchSays DEF Processed
  <2>3. ~cancel => seen' = seen \cup Processed
    BY <2>1, EmptySays DEF Processed
  <2>4. CASE past.quiet
    <3>1. Good(View, seen')
      BY <1>3, <2>1, <2>3, <2>4 DEF Good
    <3>2. seen' \cup Processed' = seen'
      BY <2>2
    <3>3. Good(rows', seen') /\ Good(View', seen' \cup Processed')
      BY <2>1, <2>2, <3>1, <3>2
    <3> QED BY <2>1, <2>4, <3>3, GoodAgain
  <2>5. CASE ~past.quiet
    BY <1>1, <1>4, <2>1, <2>5 DEF FreshControl
  <2> QED BY <2>4, <2>5
<1>15. CASE MergeRefused \/ Canceled \/ ScanRaises
  BY <1>6, <1>15, EndScanSays DEF MergeRefused, Canceled, ScanRaises
<1>16. CASE Finalize
  <2>1. /\ pc = "finalize" /\ pc' = "idle" /\ ~cancel /\ rows' = Hidden(rows, seen)
        /\ disk' = disk /\ past'.quiet = past.quiet
        /\ past'.fresh => past.quiet /\ past.exact
    BY <1>1, <1>16, EndScanSays DEF Finalize, TypeOK
  <2>2. ASSUME past.quiet, past.exact PROVE Truth(rows')
    <3>1. Met(rows, seen) /\ Placed(rows, seen)
      BY <1>3, <2>1, <2>2 DEF Good
    <3>2. \A p \in Path : disk[p] # None => p \in seen \/ Shadowed(p)
      BY <1>1, <2>1, <2>2, EmptySays DEF WalkControl, WalkOver, ReadControl
    <3> DEFINE u == Hidden(rows, seen)
    <3>3. \A j \in Id :
              /\ (u[j] = None) <=> (rows[j] = None)
              /\ rows[j] # None =>
                     /\ u[j].fp = rows[j].fp /\ u[j].slot = rows[j].slot
                     /\ u[j].path = IF rows[j].path \in seen THEN rows[j].path ELSE None
      BY <1>2, HiddenSays
    <3> HIDE DEF u
    <3>4. ASSUME NEW j \in Id, Present(u[j])
          PROVE  disk[u[j].path] = [fp |-> u[j].fp, slot |-> u[j].slot] /\ ~Shadowed(u[j].path)
      <4>1. /\ Present(rows[j]) /\ rows[j].path \in seen
            /\ u[j].fp = rows[j].fp /\ u[j].slot = rows[j].slot /\ u[j].path = rows[j].path
        BY <3>3, <3>4 DEF Present
      <4> QED BY <3>1, <4>1 DEF Met, Placed
    <3>5. ASSUME NEW p \in Path, disk[p] # None, ~Shadowed(p)
          PROVE  \E j \in Id : Present(u[j]) /\ u[j].fp = disk[p].fp
      <4>1. p \in seen /\ At(rows, disk[p].fp, p, seen)
        BY <3>1, <3>2, <3>5 DEF Met
      <4>2. PICK j \in Id : rows[j] # None /\ rows[j].fp = disk[p].fp /\ rows[j].path # None
                            /\ rows[j].path \in seen
        BY <4>1 DEF At
      <4> QED BY <3>3, <4>2 DEF Present
    <3>6. Truth(u)
      BY <3>4, <3>5 DEF Truth
    <3> QED BY <2>1, <3>6 DEF u
  <2>3. past'.fresh => Truth(rows)'
    BY <2>1, <2>2, SameDisk
  <2> QED BY <2>1, <2>3 DEF MetControl, FreshControl
<1>17. CASE DiskChanges
  BY <1>1, <1>4, <1>17 DEF DiskChanges, TypeOK
<1>18. CASE ConfirmWrites
  <2>1. /\ rows' = Confirmed /\ Stubbed(rows, rows')
        /\ txn = None /\ UNCHANGED <<disk, pc, cancel, scan>>
        /\ past'.quiet = (past.quiet /\ ~Disturbs) /\ past'.fresh = (past.fresh /\ ~Disturbs)
        /\ past'.exact = past.exact
    BY <1>1, <1>18, ConfirmedSays DEF ConfirmWrites, TypeOK, IInv
  <2>2. Processed' = Processed /\ View' = rows' /\ View = rows
    BY <2>1 DEF scan, Processed, View
  <2>3. CASE Disturbs
    BY <1>4, <2>1, <2>3
  <2>4. CASE ~Disturbs
    <3>1. UNCHANGED <<past.quiet, past.exact, past.fresh>>
      <4>1. past.quiet \in BOOLEAN /\ past.fresh \in BOOLEAN
        BY <1>1 DEF TypeOK
      <4> QED BY <2>1, <2>4, <4>1
    <3>2. \A j \in Id : Present(rows[j]) \/ Present(rows'[j]) => rows'[j] = rows[j]
      BY <2>1, <2>4 DEF Stubbed, Present, Disturbs
    <3>3. \A been : /\ Placed(rows, been) => Placed(rows', been)
                    /\ Exact(rows) => Exact(rows')
                    /\ Truth(rows) => Truth(rows')
                    /\ Met(rows, been) => Met(rows', been)
      BY <3>2, SamePresent
    <3>4. CASE past.quiet /\ pc # "idle"
      <4>1. Good(rows', seen') /\ Good(View', seen' \cup Processed')
        BY <1>3, <2>1, <2>2, <3>1, <3>3, <3>4 DEF Good, scan
      <4> QED BY <2>1, <3>1, <3>4, <4>1, GoodAgain DEF scan
    <3>5. CASE past.quiet /\ pc = "idle"
      <4>1. past.fresh => Truth(rows)'
        BY <1>1, <2>1, <3>3, SameDisk DEF FreshControl
      <4> QED BY <2>1, <3>1, <3>5, <4>1 DEF MetControl, FreshControl
    <3>6. CASE ~past.quiet
      BY <1>1, <1>4, <3>1, <3>6 DEF FreshControl
    <3> QED BY <3>4, <3>5, <3>6
  <2> QED BY <2>3, <2>4
<1>19. CASE ConfirmReads \/ PutPlaylist \/ UNCHANGED vars
  <2>1. UNCHANGED <<disk, rows, pc, cancel, scan, past>>
    BY <1>19 DEF ConfirmReads, PutPlaylist, vars
  <2>2. Processed' = Processed /\ View' = View
    BY <2>1 DEF scan, Processed, View
  <2>3. CASE pc # "idle"
    BY <1>5, <2>1, <2>2, <2>3 DEF scan
  <2>4. CASE pc = "idle"
    <3>1. past.fresh => Truth(rows)' /\ past.quiet
      BY <1>1, <2>1, SameDisk DEF FreshControl
    <3> QED BY <2>1, <2>4, <3>1 DEF MetControl, FreshControl
  <2> QED BY <2>3, <2>4
<1> QED BY <1>7, <1>8, <1>9, <1>10, <1>11, <1>12, <1>13, <1>14, <1>15, <1>16, <1>17, <1>18,
           <1>19 DEF Next, Scan

-----------------------------------------------------------------------------
(* The results.                                                            *)

LEMMA InitGood == Init => IInv
PROOF
<1> SUFFICES ASSUME Init PROVE IInv
  OBVIOUS
<1>1. /\ disk \in [Path -> File \cup {None}] /\ rows = [i \in Id |-> None] /\ refs = {}
      /\ disc = None /\ pc = "idle" /\ mode = "quick" /\ cancel = FALSE
      /\ todo = {} /\ listed = {} /\ batch = <<>> /\ seen = {}
      /\ work = <<>> /\ cur = None /\ txn = None /\ skipped = {}
      /\ metas = [p \in Path |-> None] /\ slots = <<>> /\ result = "none"
      /\ past = [quiet |-> TRUE, exact |-> TRUE, fresh |-> FALSE, steady |-> {}]
      /\ used = [scans |-> 0, changes |-> 0, events |-> 0]
  BY DEF Init
<1>2. used \in [scans : 0..MaxScans, changes : 0..MaxChanges, events : 0..MaxEvents]
  BY <1>1, LibraryIndexAssumption
<1>3. Len(batch) <= BatchSize /\ DOMAIN slots = {} /\ batch \in Seq(Path) /\ work \in Seq(Path)
  BY <1>1, EmptySays, LibraryIndexAssumption
<1>4. /\ past \in [quiet : BOOLEAN, exact : BOOLEAN, fresh : BOOLEAN,
                  steady : SUBSET (Content \X Path)]
      /\ past.steady = {}
  BY <1>1
<1>5. TypeOK
  BY <1>1, <1>2, <1>3, <1>4 DEF TypeOK
<1>6. /\ WalkControl /\ BatchControl /\ SteadyControl /\ ReadControl /\ MetControl /\ FreshControl
  BY <1>1, <1>4, EmptySays DEF WalkControl, BatchControl, SteadyControl, ReadControl,
     MetControl, FreshControl
<1>7. Unique(rows) /\ Keyed(rows, refs) /\ View = rows
  BY <1>1 DEF Unique, Keyed, Id, View
<1> QED BY <1>1, <1>5, <1>6, <1>7 DEF IInv, TableControl, DiscControl

\* No table that a scan or a confirmed disc leaves would be refused by its
\* columns, a row's id is that of its content, and a file that stays where it
\* is keeps its row or leaves it to a copy that the scan has met.
THEOREM Inductive == Spec => []IInv
PROOF
<1>1. Init => IInv
  BY InitGood
<1>2. IInv /\ [Next]_vars => IInv'
  BY StepTypes, StepWalks, StepBatches, StepTables, StepDisc, StepKeepsSteady, StepReads,
     StepMeets DEF IInv
<1> QED BY <1>1, <1>2, PTL DEF Spec

\* Every variable has its type, with any number of paths and contents.
THEOREM TypeCorrect == Spec => []TypeOK
PROOF
<1>1. IInv => TypeOK
  BY DEF IInv
<1> QED BY <1>1, Inductive, PTL

\* The UNIQUE columns of tracks never refuse a flush of a scan: no two rows
\* have one fingerprint or one path, in the table or in the transaction.
THEOREM ColumnsStayUnique == Spec => []UniqueColumns
PROOF
<1>1. IInv => UniqueColumns
  BY DEF IInv, TableControl, Unique, UniqueColumns
<1> QED BY <1>1, Inductive, PTL

\* A row's id is that of its content, a stub's that of its place, and no row
\* that a playlist holds goes.
THEOREM IdsAreKept == Spec => []IdsKept
PROOF
<1>1. IInv => IdsKept
  BY DEF IInv, TableControl, Keyed, IdsKept
<1> QED BY <1>1, Inductive, PTL

\* A scan of a disk that stands still leaves the index exact: every present row
\* is a file as it is, and every content not kept out by a lossless file has one.
THEOREM ScanIsTruth == Spec => []IndexIsTruth
PROOF
<1>1. IInv => IndexIsTruth
  BY DEF IInv, FreshControl, IndexIsTruth
<1> QED BY <1>1, Inductive, PTL

\* A lossless file that stays where it is has a present row, through every
\* scan, cancel, failure and copy of it.
THEOREM SteadyStayListed == Spec => []StaysListed
PROOF
<1>1. IInv => StaysListed
  BY DEF IInv, SteadyControl, At, Present, StaysListed
<1> QED BY <1>1, Inductive, PTL
=============================================================================
