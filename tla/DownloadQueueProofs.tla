--------------------------- MODULE DownloadQueueProofs ---------------------------
(***************************************************************************)
(* Proofs about DownloadQueue: until two functions have crossed, nothing   *)
(* stands under a final name but the whole track or an empty file, and     *)
(* every track of the catalog has its whole file, for any tracks, any      *)
(* number of pumps, jobs and commands and any caps.                        *)
(***************************************************************************)
EXTENDS DownloadQueue, FiniteSetTheorems, WellFoundedInduction, TLAPS

-----------------------------------------------------------------------------
(* The rows.                                                               *)

\* The row that is met first: a set of keys has a least element.
LEMMA LeastExists ==
    ASSUME NEW S, S \subseteq Nat, S # {}
    PROVE  \E k \in S : \A i \in S : k <= i
PROOF
<1> DEFINE R == {p \in Nat \X Nat : p[1] < p[2]}
<1>1. IsWellFoundedOn(R, Nat)
  BY NatLessThanWellFounded DEF OpToRel
<1>2. \A i, k \in Nat : <<i, k>> \in R <=> i < k
  OBVIOUS
<1> HIDE DEF R
<1>3. PICK k \in S : \A i \in S : ~(<<i, k>> \in R)
  BY <1>1, WFMin
<1>4. \A i \in S : k <= i
  <2> TAKE i \in S
  <2>1. i \in Nat /\ k \in Nat /\ ~(<<i, k>> \in R)
    BY <1>3
  <2>2. ~(i < k)
    BY <1>2, <2>1
  <2> QED BY <2>1, <2>2
<1> QED BY <1>3, <1>4

\* None is no row, no state, no function that runs.
LEMMA NoneSays ==
    /\ \A r \in Row : r # None
    /\ \A r \in State : r # None
    /\ \A r \in PumpRecord : r # None
    /\ \A r \in JobRecord : r # None
    /\ \A r \in SweepRecord : r # None
    /\ \A t \in Track : t # None
BY NoneAssumption, DownloadQueueAssumption

LEMMA StateOfSays ==
    ASSUME NEW q \in Rows, NEW i \in Id
    PROVE  StateOf(q, i) \in State \cup {None}
<1>1. q[i] \in Row \cup {None}
  BY DEF Rows
<1> QED BY <1>1 DEF StateOf, Row

\* Rows are written as they are given, or not at all.
LEMMA WrittenSays ==
    ASSUME NEW q \in Rows, NEW I, NEW w, \A i \in I : w[i] \in Row \cup {None}
    PROVE  /\ Written(q, I, w) \in Rows
           /\ \A i \in Id : \/ Written(q, I, w)[i] = q[i]
                            \/ i \in I /\ Written(q, I, w)[i] = w[i]
           /\ Unique(q) => Unique(Written(q, I, w))
<1> DEFINE new == [i \in Id |-> IF i \in I THEN w[i] ELSE q[i]]
<1>1. new \in Rows
  BY DEF Rows
<1>2. Written(q, I, w) = IF Unique(new) THEN new ELSE q
  BY DEF Written
<1>3. \A i \in Id : new[i] = q[i] \/ (i \in I /\ new[i] = w[i])
  OBVIOUS
<1> HIDE DEF new
<1> QED BY <1>1, <1>2, <1>3

LEMMA MarkedSays ==
    ASSUME NEW q \in Rows, NEW I, \A i \in I : i \in Id /\ q[i] # None, NEW st \in State
    PROVE  \A i \in I : /\ Marked(q, I, st)[i] \in Row
                        /\ Marked(q, I, st)[i].track = q[i].track
                        /\ Marked(q, I, st)[i].state = st
<1> TAKE i \in I
<1>1. q[i] \in Row /\ i \in Id
  BY DEF Rows
<1>2. Marked(q, I, st)[i] = [q[i] EXCEPT !.state = st]
  BY <1>1 DEF Marked
<1> QED BY <1>1, <1>2 DEF Row

LEMMA InStateSays ==
    ASSUME NEW q \in Rows, NEW S
    PROVE  \A i \in InState(q, S) : i \in Id /\ q[i] # None /\ q[i] \in Row /\ q[i].state \in S
BY DEF InState, Rows

\* What a command lists is what the queue holds.
LEMMA ListsSays ==
    ASSUME TypeOK, NEW S,
           NEW k \in {"reapply", "freeze", "unpause", "abort", "cancel", "retry", "clear",
                      "clearAll", "demote", "flush", "remove"}
    PROVE  /\ Lists(k, S) \in SweepRecord /\ Lists(k, S).track = None /\ Lists(k, S).by = None
           /\ \A i \in Id : Lists(k, S).rows[i] # None => Lists(k, S).rows[i] = queue[i]
<1> DEFINE rows == [i \in Id |-> IF i \in InState(queue, S) THEN queue[i] ELSE None]
<1>1. queue \in Rows
  BY DEF TypeOK
<1>2. rows \in Rows /\ \A i \in Id : rows[i] # None => rows[i] = queue[i]
  BY <1>1 DEF Rows
<1>3. Lists(k, S) = [kind |-> k, rows |-> rows, why |-> "pause", track |-> None, by |-> None]
  BY DEF Lists
<1> HIDE DEF rows
<1> QED BY <1>2, <1>3 DEF SweepRecord, Reason

\* The pump turns to a pending row, or ends.
LEMMA ListingSays ==
    ASSUME TypeOK
    PROVE  \/ Listing = None
           \/ /\ Listing \in PumpRecord /\ Listing.pc = "listed"
              /\ queue[Listing.id] # None /\ queue[Listing.id].track = Listing.track
<1> DEFINE pending == InState(queue, {"pending"})
<1>1. queue \in Rows
  BY DEF TypeOK
<1>2. \A i \in pending : i \in Id /\ queue[i] # None /\ queue[i] \in Row
  BY <1>1, InStateSays
<1>3. pending \subseteq Nat
  BY <1>2, DownloadQueueAssumption DEF Id
<1>4. ASSUME pending # {} PROVE First(pending) \in pending
  <2>1. \E i \in pending : \A k \in pending : i <= k
    BY <1>3, <1>4, LeastExists
  <2> HIDE DEF pending
  <2> QED BY <2>1 DEF First
<1>5. \/ Listing = None
      \/ /\ pending # {}
         /\ Listing = [pc |-> "listed", id |-> First(pending), track |-> queue[First(pending)].track]
  BY DEF Listing
<1> HIDE DEF pending
<1> QED BY <1>2, <1>4, <1>5 DEF PumpRecord, Row

-----------------------------------------------------------------------------
(* A job's record, by the fields that change.                              *)

\* job' has r where j's record was.
Becomes(j, r) == job' = [job EXCEPT ![j] = r]

LEMMA JobSays ==
    ASSUME TypeOK, NEW j \in Job, job[j] # None
    PROVE  job[j] \in JobRecord
BY DEF TypeOK

LEMMA MovesSays ==
    ASSUME TypeOK, NEW j \in Job, job[j] # None, NEW pc \in {"unwind", "swap", "copy", "drop"},
           Moves(j, pc)
    PROVE  \E r \in JobRecord :
              /\ Becomes(j, r) /\ r.id = job[j].id /\ r.track = job[j].track /\ r.pc = pc
<1> DEFINE r == [job[j] EXCEPT !.pc = pc]
<1>1. job[j] \in JobRecord
  BY JobSays
<1>2. r \in JobRecord /\ r.id = job[j].id /\ r.track = job[j].track /\ r.pc = pc
  BY <1>1 DEF JobRecord
<1>3. Becomes(j, r)
  BY DEF Moves, TypeOK, Becomes
<1> HIDE DEF r
<1> QED BY <1>2, <1>3

\* The record an outcome leaves when it has been applied, or its handler has thrown.
LEMMA AppliedSays ==
    ASSUME TypeOK, NEW j \in Job, job[j] # None, NEW pc \in {"unwind", "caught"},
           NEW read \in State \cup {None}, Applied(j, pc, read)
    PROVE  \E r \in JobRecord :
              /\ Becomes(j, r) /\ r.id = job[j].id /\ r.track = job[j].track /\ r.pc = pc
<1> DEFINE r == [job[j] EXCEPT !.pc = pc, !.read = read, !.outcome = "none",
                               !.files = FALSE, !.live = FALSE]
<1>1. job[j] \in JobRecord
  BY JobSays
<1>2. r \in JobRecord /\ r.id = job[j].id /\ r.track = job[j].track /\ r.pc = pc
  BY <1>1 DEF JobRecord
<1>3. Becomes(j, r)
  BY DEF Applied, Becomes
<1> HIDE DEF r
<1> QED BY <1>2, <1>3

LEMMA OutcomeSays ==
    ASSUME TypeOK, NEW j \in Job, job[j] # None, NEW files \in BOOLEAN,
           NEW o \in {"none", "done", "canceled", "paused", "queued", "failed", "network"},
           Outcome(j, o, files)
    PROVE  \E r \in JobRecord :
              /\ Becomes(j, r) /\ r.id = job[j].id /\ r.track = job[j].track
              /\ r.pc = "apply" /\ r.outcome = o
<1> DEFINE read == StateOf(queue, job[j].id)
           r == [job[j] EXCEPT !.pc = "apply", !.outcome = o, !.files = files,
                               !.read = read, !.offset = "none", !.base = "clean"]
<1>1. job[j] \in JobRecord /\ queue \in Rows
  BY JobSays DEF TypeOK
<1>2. read \in State \cup {None}
  BY <1>1, StateOfSays DEF JobRecord
<1>3. Becomes(j, r)
  BY DEF Outcome, Becomes
<1> HIDE DEF read
<1>4. r.id = job[j].id /\ r.track = job[j].track /\ r.pc = "apply" /\ r.outcome = o
  BY <1>1 DEF JobRecord
<1>5. r \in JobRecord
  <2>1. o \in {"none", "done", "canceled", "paused", "queued", "failed", "network"}
    OBVIOUS
  <2> HIDE DEF Becomes
  <2> QED BY <1>1, <1>2, <2>1 DEF JobRecord, Bytes
<1> HIDE DEF r
<1> QED BY <1>3, <1>4, <1>5

LEMMA StopsSays ==
    ASSUME TypeOK, NEW j \in Job, job[j] # None, Stops(j)
    PROVE  \E r \in JobRecord :
              /\ Becomes(j, r) /\ r.id = job[j].id /\ r.track = job[j].track
              /\ r.pc = "aborted"
<1> DEFINE read == StateOf(queue, job[j].id)
           r == [job[j] EXCEPT !.pc = "aborted", !.read = read, !.offset = "none", !.base = "clean"]
<1>1. job[j] \in JobRecord /\ queue \in Rows
  BY JobSays DEF TypeOK
<1>2. read \in State \cup {None}
  BY <1>1, StateOfSays DEF JobRecord
<1>3. Becomes(j, r)
  BY DEF Stops, Becomes
<1> HIDE DEF read
<1>4. r \in JobRecord /\ r.id = job[j].id /\ r.track = job[j].track /\ r.pc = "aborted"
  BY <1>1, <1>2 DEF JobRecord, Bytes
<1> HIDE DEF r
<1> QED BY <1>3, <1>4

\* A job whose file could not be finished stops, or has failed.
LEMMA UnfinishedSays ==
    ASSUME TypeOK, NEW j \in Job, job[j] # None, Unfinished(j)
    PROVE  \E r \in JobRecord :
              /\ Becomes(j, r) /\ r.id = job[j].id /\ r.track = job[j].track
              /\ r.pc = "aborted" \/ (r.pc = "apply" /\ r.outcome = "failed")
<1>1. CASE Stops(j)
  BY <1>1, StopsSays
<1>2. CASE Outcome(j, "failed", FALSE)
  <2>1. \E r \in JobRecord :
            /\ Becomes(j, r) /\ r.id = job[j].id /\ r.track = job[j].track
            /\ r.pc = "apply" /\ r.outcome = "failed"
    BY <1>2, OutcomeSays
  <2> QED BY <2>1
<1> QED BY <1>1, <1>2 DEF Unfinished

\* An abort tells a job why to stop, and leaves it where it stands.
LEMMA AbortedSays ==
    ASSUME TypeOK, NEW I, NEW why \in Reason
    PROVE  /\ Aborted(I, why) \in [Job -> JobRecord \cup {None}]
           /\ \A j \in Job : Aborted(I, why)[j] # None =>
                 /\ job[j] # None
                 /\ Aborted(I, why)[j].id = job[j].id /\ Aborted(I, why)[j].track = job[j].track
                 /\ Aborted(I, why)[j].pc = job[j].pc /\ Aborted(I, why)[j].offset = job[j].offset
                 /\ Aborted(I, why)[j].base = job[j].base
                 /\ Aborted(I, why)[j].outcome = job[j].outcome
<1>1. \A j \in Job : job[j] # None => job[j] \in JobRecord
  BY DEF TypeOK
<1>2. ASSUME NEW j \in Job
      PROVE  \/ Aborted(I, why)[j] = job[j]
             \/ job[j] # None /\ Aborted(I, why)[j] = [job[j] EXCEPT !.why = why]
  BY DEF Aborted
<1>3. ASSUME NEW j \in Job, job[j] # None
      PROVE  LET r == [job[j] EXCEPT !.why = why] IN
             /\ r \in JobRecord
             /\ r.id = job[j].id /\ r.track = job[j].track /\ r.pc = job[j].pc
             /\ r.offset = job[j].offset /\ r.base = job[j].base /\ r.outcome = job[j].outcome
  BY <1>1, <1>3 DEF JobRecord
<1>4. Aborted(I, why) = [j \in Job |-> Aborted(I, why)[j]]
  BY DEF Aborted
<1>5. \A j \in Job : Aborted(I, why)[j] \in JobRecord \cup {None}
  BY <1>1, <1>2, <1>3
<1> QED BY <1>2, <1>3, <1>4, <1>5

-----------------------------------------------------------------------------
(* Most steps only shrink what there is: rows go or keep their track, and  *)
(* a pump, a job or a command is the one that was, or has just listed what *)
(* the queue holds.                                                        *)

QueueFollows ==
    /\ Unique(queue')
    /\ \A i \in Id : queue'[i] # None => i < nextId
    /\ ~raced' => \A i \in Id : queue'[i] # None => queue[i] # None /\ queue'[i].track = queue[i].track
PumpsFollow ==
    \A p \in Pump : pump'[p] # None =>
        \/ pump'[p] = pump[p]
        \/ /\ pump'[p].pc = "listed"
           /\ queue[pump'[p].id] # None /\ queue[pump'[p].id].track = pump'[p].track
JobsFollow ==
    \A j \in Job : job'[j] # None =>
        /\ job[j] # None /\ job'[j].id = job[j].id /\ job'[j].track = job[j].track
        /\ job[j].pc = "unwind" => job'[j].pc = "unwind"
SweepsFollow ==
    \A s \in Sweep : sweep'[s] # None =>
        /\ \A i \in Id : sweep'[s].rows[i] # None =>
              \/ queue[i] # None /\ sweep'[s].rows[i].track = queue[i].track
              \/ /\ sweep[s] # None /\ sweep[s].rows[i] # None
                 /\ sweep'[s].rows[i].track = sweep[s].rows[i].track
        /\ sweep'[s].track # None =>
              \/ sweep[s] # None /\ sweep'[s].track = sweep[s].track
              \/ sweep'[s].track \in cat /\ sweep'[s].track \notin cat'
\* A track that comes into the catalog: nobody has its file, and no row is of it.
Arrives(t) ==
    /\ Settled(t)'
    /\ \A i \in Id : queue'[i] # None => queue'[i].track # t
    /\ \A s \in Sweep : sweep'[s] # None => sweep'[s].track # t
Follows ==
    /\ nextId' = nextId /\ (raced => raced')
    /\ ~raced' => \A t \in cat' : t \in cat \/ Arrives(t)
    /\ QueueFollows /\ PumpsFollow /\ JobsFollow /\ SweepsFollow

\* Such a step keeps all that is known of keys, rows, holders and the catalog.
LEMMA Kept ==
    ASSUME IInv, TypeOK', Follows, ~raced' => FileControl' /\ FilesHold'
    PROVE  IInv'
<1>1. /\ TypeOK /\ KeyControl /\ nextId' = nextId
      /\ QueueFollows /\ PumpsFollow /\ JobsFollow /\ SweepsFollow
  BY DEF IInv, Follows
<1>2. /\ \A p \in Pump : pump'[p] # None => pump'[p].id \in Id
      /\ \A j \in Job : job'[j] # None => job'[j].id \in Id
  BY DEF TypeOK, PumpRecord, JobRecord
<1>3. KeyControl'
  <2>1. \A p \in Pump : pump'[p] # None => pump'[p].id < nextId
    BY <1>1, <1>2 DEF PumpsFollow, KeyControl
  <2>2. \A j \in Job : job'[j] # None => job'[j].id < nextId
    BY <1>1, <1>2 DEF JobsFollow, KeyControl
  <2>3. \A s \in Sweep : sweep'[s] # None =>
            \A i \in Id : sweep'[s].rows[i] # None => i < nextId
    BY <1>1 DEF SweepsFollow, KeyControl
  <2> QED BY <1>1, <2>1, <2>2, <2>3 DEF KeyControl, QueueFollows
<1>4. ASSUME ~raced'
      PROVE  CopyControl' /\ HolderControl' /\ CatalogControl'
  <2>1. CopyControl /\ HolderControl /\ CatalogControl
    BY <1>4 DEF IInv, Follows
  <2>2. \A i \in Id : queue'[i] # None => queue[i] # None /\ queue'[i].track = queue[i].track
    BY <1>1, <1>4 DEF QueueFollows
  <2>3. CopyControl'
    <3>1. \A p \in Pump : pump'[p] # None => Agrees(pump[p].id, pump[p].track)'
      BY <1>1, <1>2, <2>1, <2>2 DEF CopyControl, PumpsFollow, Agrees
    <3>2. \A j \in Job : job'[j] # None => Agrees(job[j].id, job[j].track)'
      BY <1>1, <1>2, <2>1, <2>2 DEF CopyControl, JobsFollow, Agrees
    <3>3. \A s \in Sweep : sweep'[s] # None =>
              \A i \in Id : sweep'[s].rows[i] # None => Agrees(i, sweep[s].rows[i].track)'
      BY <1>1, <2>1, <2>2 DEF CopyControl, SweepsFollow, Agrees
    <3> QED BY <3>1, <3>2, <3>3 DEF CopyControl
  <2>4. \A p \in Pump : Put(p)' => Put(p) /\ pump'[p] = pump[p]
    BY <1>1 DEF PumpsFollow, Put
  <2>5. \A i \in Id : \A t : Only(i, t) => Only(i, t)'
    BY <2>2 DEF Only
  <2>6. HolderControl'
    <3>1. \A j, k \in Job : job'[j] # None /\ job'[k] # None /\ job'[j].track = job'[k].track => j = k
      BY <1>1, <2>1 DEF HolderControl, JobsFollow
    <3>2. \A p, q \in Pump : Put(p)' /\ Put(q)' /\ pump'[p].track = pump'[q].track => p = q
      BY <2>1, <2>4 DEF HolderControl
    <3>3. \A p \in Pump, j \in Job : Put(p)' /\ job'[j] # None => pump'[p].track # job'[j].track
      BY <1>1, <2>1, <2>4 DEF HolderControl, JobsFollow
    <3>4. \A p \in Pump : Put(p)' => Only(pump[p].id, pump[p].track)'
      <4> SUFFICES ASSUME NEW p \in Pump, Put(p)' PROVE Only(pump[p].id, pump[p].track)'
        OBVIOUS
      <4>1. Put(p) /\ pump'[p] = pump[p]
        BY <2>4
      <4>2. Only(pump[p].id, pump[p].track)
        BY <2>1, <4>1 DEF HolderControl
      <4> QED BY <2>2, <4>1, <4>2 DEF Only
    <3>5. \A j \in Job : job'[j] # None => Only(job[j].id, job[j].track)'
      <4> SUFFICES ASSUME NEW j \in Job, job'[j] # None PROVE Only(job[j].id, job[j].track)'
        OBVIOUS
      <4>1. job[j] # None /\ job'[j].id = job[j].id /\ job'[j].track = job[j].track
        BY <1>1 DEF JobsFollow
      <4>2. Only(job[j].id, job[j].track)
        BY <2>1, <4>1 DEF HolderControl
      <4> QED BY <2>2, <4>1, <4>2 DEF Only
    <3> QED BY <3>1, <3>2, <3>3, <3>4, <3>5 DEF HolderControl
  <2>7. ASSUME NEW t, Settled(t) PROVE Settled(t)'
    BY <1>1, <2>4, <2>7 DEF Settled, JobsFollow
  <2>8. CatalogControl'
    <3>1. \A t \in cat' : t \in cat \/ Arrives(t)
      BY <1>4 DEF Follows
    <3>2. \A t \in cat' : Settled(t)'
      BY <2>1, <2>7, <3>1 DEF CatalogControl, Arrives
    <3>3. \A t \in cat' : \A i \in Id : queue'[i] # None => queue'[i].track # t
      BY <2>1, <2>2, <3>1 DEF CatalogControl, Arrives
    <3>4. \A s \in Sweep : sweep'[s] # None /\ sweep'[s].track # None =>
              sweep'[s].track \notin cat' /\ Settled(sweep[s].track)'
      <4> SUFFICES ASSUME NEW s \in Sweep, sweep'[s] # None, sweep'[s].track # None
                   PROVE  sweep'[s].track \notin cat' /\ Settled(sweep[s].track)'
        OBVIOUS
      <4>1. PICK t : t = sweep'[s].track
        OBVIOUS
      <4>2. \/ sweep[s] # None /\ t = sweep[s].track
            \/ t \in cat /\ t \notin cat'
        BY <1>1, <4>1 DEF SweepsFollow
      <4>3. (t \in cat' => t \in cat) /\ Settled(t)
        BY <2>1, <3>1, <4>1, <4>2 DEF CatalogControl, Arrives
      <4>4. t \notin cat'
        BY <2>1, <4>1, <4>2, <4>3 DEF CatalogControl
      <4> QED BY <2>7, <4>1, <4>3, <4>4
    <3> QED BY <3>2, <3>3, <3>4 DEF CatalogControl
  <2> QED BY <2>3, <2>6, <2>8
<1>5. FilesHold'
  <2>1. CASE raced'
    BY <2>1 DEF FilesHold
  <2> QED BY <2>1
<1> QED BY <1>3, <1>4, <1>5 DEF IInv

-----------------------------------------------------------------------------
(* Steps of the queue.                                                     *)

LEMMA QueueStays ==
    ASSUME IInv, queue' = queue
    PROVE  QueueFollows
BY DEF IInv, KeyControl, QueueFollows, Unique

\* Rows that are put back where they were read; under ~raced', they are still there.
LEMMA QueuePuts ==
    ASSUME IInv, NEW I, I \subseteq Id, NEW w, queue' = Written(queue, I, w),
           \A i \in I : w[i] \in Row /\ i < nextId,
           ~raced' => \A i \in I : queue[i] # None /\ queue[i].track = w[i].track
    PROVE  queue' \in Rows /\ QueueFollows
<1>1. queue \in Rows /\ Unique(queue) /\ \A i \in Id : queue[i] # None => i < nextId
  BY DEF IInv, TypeOK, KeyControl
<1>2. /\ queue' \in Rows /\ Unique(queue')
      /\ \A i \in Id : queue'[i] = queue[i] \/ (i \in I /\ queue'[i] = w[i])
  BY <1>1, WrittenSays
<1>3. \A i \in Id : queue'[i] # None => i < nextId
  BY <1>1, <1>2
<1>4. ~raced' => \A i \in Id : queue'[i] # None => queue[i] # None /\ queue'[i].track = queue[i].track
  BY <1>1, <1>2
<1> QED BY <1>2, <1>3, <1>4 DEF QueueFollows

LEMMA QueueDrops ==
    ASSUME IInv, queue' \in Rows, \A i \in Id : queue'[i] = queue[i] \/ queue'[i] = None
    PROVE  QueueFollows
<1>1. Unique(queue) /\ \A i \in Id : queue[i] # None => i < nextId
  BY DEF IInv, KeyControl
<1>2. Unique(queue')
  BY <1>1 DEF Unique
<1> QED BY <1>1, <1>2 DEF QueueFollows

\* A row or none is put back by a job, as the row it read of its track.
LEMMA QueueDeletes ==
    ASSUME IInv, NEW i \in Id, queue' = [queue EXCEPT ![i] = None]
    PROVE  queue' \in Rows /\ QueueFollows
<1>1. queue \in Rows
  BY DEF IInv, TypeOK
<1>2. queue' \in Rows /\ \A k \in Id : queue'[k] = queue[k] \/ queue'[k] = None
  BY <1>1 DEF Rows
<1> QED BY <1>2, QueueDrops

-----------------------------------------------------------------------------
(* Steps of the commands.                                                  *)

\* What may stand in the place of a command: nothing, or one that knows of no
\* row but those of the queue and those that one knew of.
Succeeds(s, new) ==
    /\ \A i \in Id : new.rows[i] # None =>
          \/ queue[i] # None /\ new.rows[i].track = queue[i].track
          \/ /\ sweep[s] # None /\ sweep[s].rows[i] # None
             /\ new.rows[i].track = sweep[s].rows[i].track
    /\ new.track # None =>
          \/ sweep[s] # None /\ new.track = sweep[s].track
          \/ new.track \in cat /\ new.track \notin cat'

LEMMA SweepsStay ==
    ASSUME IInv, sweep' = sweep
    PROVE  SweepsFollow
BY DEF SweepsFollow

LEMMA SweepBecomes ==
    ASSUME IInv, NEW s \in Sweep, NEW new, sweep' = [sweep EXCEPT ![s] = new],
           new = None \/ (new \in SweepRecord /\ Succeeds(s, new))
    PROVE  sweep' \in [Sweep -> SweepRecord \cup {None}] /\ SweepsFollow
<1>1. sweep \in [Sweep -> SweepRecord \cup {None}]
  BY DEF IInv, TypeOK
<1>2. sweep' \in [Sweep -> SweepRecord \cup {None}]
  BY <1>1
<1>3. \A q \in Sweep : sweep'[q] = sweep[q] \/ (q = s /\ sweep'[q] = new)
  BY <1>1
<1>4. SweepsFollow
  BY <1>3 DEF SweepsFollow, Succeeds
<1> QED BY <1>2, <1>4

LEMMA FinishedSays ==
    ASSUME IInv, NEW s \in Sweep, Finished(s)
    PROVE  sweep' \in [Sweep -> SweepRecord \cup {None}] /\ SweepsFollow
BY SweepBecomes DEF Finished

\* A command that lists rows begins, at a place of its own or after another.
LEMMA ListsFollow ==
    ASSUME IInv, NEW s \in Sweep, NEW S,
           NEW k \in {"reapply", "freeze", "unpause", "abort", "cancel", "retry", "clear",
                      "clearAll", "demote", "flush", "remove"},
           sweep' = [sweep EXCEPT ![s] = Lists(k, S)]
    PROVE  sweep' \in [Sweep -> SweepRecord \cup {None}] /\ SweepsFollow
<1>1. /\ Lists(k, S) \in SweepRecord /\ Lists(k, S).track = None
      /\ \A i \in Id : Lists(k, S).rows[i] # None => Lists(k, S).rows[i] = queue[i]
  BY ListsSays DEF IInv
<1>2. Succeeds(s, Lists(k, S))
  BY <1>1 DEF Succeeds
<1> QED BY <1>1, <1>2, SweepBecomes

LEMMA SpawnLists ==
    ASSUME IInv, NEW s \in Sweep, NEW S,
           NEW k \in {"reapply", "freeze", "unpause", "abort", "cancel", "retry", "clear",
                      "clearAll", "demote", "flush", "remove"},
           Spawn(s, Lists(k, S))
    PROVE  sweep' \in [Sweep -> SweepRecord \cup {None}] /\ SweepsFollow
BY ListsFollow DEF Spawn

LEMMA FailureSays ==
    ASSUME IInv, NEW s \in Sweep, Failure(s)
    PROVE  /\ sweep' \in [Sweep -> SweepRecord \cup {None}] /\ SweepsFollow
           /\ net' \in {"online", "down"}
<1>1. CASE net' = "down" /\ Spawn(s, Freeze)
  BY <1>1, SpawnLists DEF Freeze
<1>2. CASE net' = net /\ sweep' = sweep
  BY <1>2, SweepsStay DEF IInv, TypeOK
<1> QED BY <1>1, <1>2 DEF Failure

\* A freeze goes on to abort some of the jobs it listed.
LEMMA AbortsSays ==
    ASSUME IInv, NEW s \in Sweep, sweep[s] # None, NEW I, Aborts(s, I)
    PROVE  sweep' \in [Sweep -> SweepRecord \cup {None}] /\ SweepsFollow
<1> DEFINE rows == [i \in Id |-> IF i \in I THEN sweep[s].rows[i] ELSE None]
           new == [sweep[s] EXCEPT !.kind = "abort", !.rows = rows]
<1>1. sweep[s] \in SweepRecord
  BY DEF IInv, TypeOK
<1>2. rows \in Rows /\ \A i \in Id : rows[i] # None => rows[i] = sweep[s].rows[i]
  BY <1>1 DEF SweepRecord, Rows
<1>3. sweep' = [sweep EXCEPT ![s] = new]
  BY DEF Aborts
<1> HIDE DEF rows
<1>4. new \in SweepRecord /\ new.rows = rows /\ new.track = sweep[s].track
  BY <1>1, <1>2 DEF SweepRecord
<1> HIDE DEF new
<1>5. Succeeds(s, new)
  BY <1>2, <1>4 DEF Succeeds
<1> QED BY <1>3, <1>4, <1>5, SweepBecomes

-----------------------------------------------------------------------------
(* Steps of the pumps and of the jobs.                                     *)

LEMMA PumpsStay ==
    ASSUME pump' = pump
    PROVE  PumpsFollow
BY DEF PumpsFollow

\* A pump turns to the next row.
LEMMA PumpLists ==
    ASSUME IInv, NEW p \in Pump, pump' = [pump EXCEPT ![p] = Listing]
    PROVE  pump' \in [Pump -> PumpRecord \cup {None}] /\ PumpsFollow
<1>1. pump \in [Pump -> PumpRecord \cup {None}]
  BY DEF IInv, TypeOK
<1>2. \/ Listing = None
      \/ /\ Listing \in PumpRecord /\ Listing.pc = "listed"
         /\ queue[Listing.id] # None /\ queue[Listing.id].track = Listing.track
  BY ListingSays DEF IInv
<1>3. pump' \in [Pump -> PumpRecord \cup {None}]
  BY <1>1, <1>2
<1>4. \A q \in Pump : pump'[q] = pump[q] \/ pump'[q] = Listing
  BY <1>1
<1> QED BY <1>2, <1>3, <1>4 DEF PumpsFollow

LEMMA JobsStay ==
    ASSUME job' = job
    PROVE  JobsFollow
BY DEF JobsFollow

LEMMA JobBecomes ==
    ASSUME IInv, NEW j \in Job, job[j] # None, NEW r \in JobRecord, Becomes(j, r),
           r.id = job[j].id, r.track = job[j].track, job[j].pc = "unwind" => r.pc = "unwind"
    PROVE  job' \in [Job -> JobRecord \cup {None}] /\ JobsFollow
<1>1. job \in [Job -> JobRecord \cup {None}]
  BY DEF IInv, TypeOK
<1>2. job' \in [Job -> JobRecord \cup {None}]
  BY <1>1 DEF Becomes
<1>3. \A k \in Job : k # j => job'[k] = job[k]
  BY <1>1 DEF Becomes
<1>4. job'[j] = r
  BY <1>1 DEF Becomes
<1>5. JobsFollow
  BY <1>3, <1>4 DEF JobsFollow
<1> QED BY <1>2, <1>5

LEMMA AbortedFollows ==
    ASSUME IInv, NEW I, NEW why \in Reason, job' = Aborted(I, why)
    PROVE  job' \in [Job -> JobRecord \cup {None}] /\ JobsFollow
BY AbortedSays DEF IInv, JobsFollow

-----------------------------------------------------------------------------
(* Steps of the files.                                                     *)

\* A file of which it is known that nothing is torn.
Sound(f) == f \in File /\ f.part # "torn" /\ f.final \in {"none", "whole", "empty"}

LEMMA SoundSays ==
    ASSUME IInv, ~raced, NEW t \in Track
    PROVE  Sound(file[t])
<1>1. file[t] \in File
  BY DEF IInv, TypeOK
<1>2. file[t].part # "torn" /\ file[t].final # "torn" /\ file[t].final # "prefix"
  BY DEF IInv, FileControl, FilesHold
<1> QED BY <1>1, <1>2 DEF Sound, File, Bytes

\* A job stands where it stood, and its file is as it was.
LEMMA FilesStay ==
    ASSUME IInv, ~raced, file' = file, cat' \subseteq cat,
           \A j \in Job : job'[j] # None =>
               /\ job[j] # None /\ job'[j].track = job[j].track
               /\ job'[j].pc = job[j].pc /\ job'[j].offset = job[j].offset
               /\ job'[j].base = job[j].base /\ job'[j].outcome = job[j].outcome
    PROVE  FileControl' /\ FilesHold'
<1>1. FileControl /\ FilesHold
  BY DEF IInv
<1>2. FileControl'
  <2>1. ASSUME NEW j \in Job, job'[j] # None
        PROVE  Fits(job'[j], file'[job'[j].track])
    <3>1. job[j] # None /\ Fits(job[j], file[job[j].track])
      BY <1>1, <2>1 DEF FileControl
    <3>2. /\ job'[j].track = job[j].track
          /\ job'[j].pc = job[j].pc /\ job'[j].offset = job[j].offset
          /\ job'[j].base = job[j].base /\ job'[j].outcome = job[j].outcome
      BY <2>1
    <3> QED BY <3>1, <3>2 DEF Fits
  <2> QED BY <1>1, <2>1 DEF FileControl
<1>3. FilesHold'
  BY <1>1 DEF FilesHold
<1> QED BY <1>2, <1>3

\* A job does something to its own file, which no other job has.
LEMMA JobFile ==
    ASSUME IInv, ~raced, NEW j \in Job, job[j] # None, NEW r \in JobRecord, Becomes(j, r),
           r.track = job[j].track, NEW f, Sound(f), Sets(j, f), Fits(r, f),
           job[j].track \in cat' => f.final = "whole",
           \A t \in cat' : t \in cat \/ t = job[j].track
    PROVE  FileControl' /\ FilesHold'
<1>1. FileControl /\ FilesHold /\ HolderControl /\ job \in [Job -> JobRecord \cup {None}]
      /\ file \in [Track -> File]
  BY DEF IInv, TypeOK
<1>2. PICK t : t = job[j].track
  OBVIOUS
<1>3. t \in Track
  BY <1>1, <1>2 DEF JobRecord
<1>4. file'[t] = f /\ \A u \in Track : u # t => file'[u] = file[u]
  BY <1>1, <1>2, <1>3 DEF Sets
<1>5. job'[j] = r /\ \A k \in Job : k # j => job'[k] = job[k]
  BY <1>1 DEF Becomes
<1>6. FileControl'
  <2>1. \A u \in Track : file'[u].part # "torn"
    BY <1>1, <1>4 DEF FileControl, Sound
  <2>2. ASSUME NEW k \in Job, job'[k] # None PROVE Fits(job'[k], file'[job'[k].track])
    <3>1. CASE k = j
      BY <1>2, <1>4, <1>5, <3>1
    <3>2. CASE k # j
      <4>1. job'[k] = job[k] /\ job[k] # None /\ job[k].track # t /\ job[k].track \in Track
        BY <1>1, <1>2, <1>5, <2>2, <3>2 DEF HolderControl, JobRecord
      <4>2. file'[job'[k].track] = file[job[k].track]
        BY <1>4, <4>1
      <4> QED BY <1>1, <4>1, <4>2 DEF FileControl
    <3> QED BY <3>1, <3>2
  <2> QED BY <2>1, <2>2 DEF FileControl
<1>7. FilesHold'
  <2>1. ASSUME NEW u \in Track
        PROVE  /\ file'[u].final # "torn" /\ file'[u].final # "prefix"
               /\ u \in cat' => file'[u].final = "whole"
    <3>1. CASE u = t
      BY <1>2, <1>4, <3>1 DEF Sound
    <3>2. CASE u # t
      BY <1>1, <1>2, <1>4, <3>2 DEF FilesHold
    <3> QED BY <3>1, <3>2
  <2> QED BY <2>1 DEF FilesHold
<1> QED BY <1>6, <1>7

\* Something is done to files that no job has and that keep their final name,
\* or are not in the catalog.
LEMMA FilesChange ==
    ASSUME IInv, ~raced, NEW T, job' = job, cat' = cat,
           \A t \in Track : \/ file'[t] = file[t]
                            \/ /\ t \in T /\ Sound(file'[t])
                               /\ file'[t].final = file[t].final \/ t \notin cat,
           \A t \in T : ~HasJob(t)
    PROVE  FileControl' /\ FilesHold'
<1>1. FileControl /\ FilesHold /\ job \in [Job -> JobRecord \cup {None}]
  BY DEF IInv, TypeOK
<1>2. \A t \in Track : file'[t].part # "torn"
  BY <1>1 DEF FileControl, Sound
<1>3. ASSUME NEW j \in Job, job'[j] # None PROVE Fits(job'[j], file'[job'[j].track])
  <2>1. job'[j] = job[j] /\ job[j] # None /\ job[j].track \in Track /\ job[j].track \notin T
    BY <1>1, <1>3 DEF HasJob, JobRecord
  <2>2. file'[job[j].track] = file[job[j].track]
    BY <2>1
  <2> QED BY <1>1, <2>1, <2>2 DEF FileControl
<1>4. FilesHold'
  BY <1>1 DEF FilesHold, Sound
<1> QED BY <1>2, <1>3, <1>4 DEF FileControl

-----------------------------------------------------------------------------
(* The pump.                                                               *)

LEMMA PumpBeginKeeps ==
    ASSUME IInv, NEW p \in Pump, PumpBegin(p)
    PROVE  IInv'
<1>1. pump' \in [Pump -> PumpRecord \cup {None}] /\ PumpsFollow
  BY PumpLists DEF PumpBegin
<1>2. TypeOK'
  BY <1>1 DEF IInv, TypeOK, PumpBegin, store
<1>3. Follows
  BY <1>1, QueueStays, JobsStay, SweepsStay DEF Follows, PumpBegin, store
<1>4. ~raced' => FileControl' /\ FilesHold'
  BY FilesStay DEF PumpBegin, store
<1> QED BY <1>2, <1>3, <1>4, Kept

LEMMA PumpTakeKeeps ==
    ASSUME IInv, NEW p \in Pump, PumpTake(p)
    PROVE  IInv'
<1> DEFINE i == pump[p].id
           t == pump[p].track
           w == [k \in Id |-> [track |-> t, state |-> "active"]]
           ok == queue'[i] # None /\ queue'[i].state = "active"
           r == [pump[p] EXCEPT !.pc = "put"]
<1>1. /\ TypeOK /\ KeyControl /\ pump[p] \in PumpRecord /\ pump[p].pc = "listed"
      /\ queue \in Rows /\ pump \in [Pump -> PumpRecord \cup {None}]
  BY DEF IInv, TypeOK, PumpTake
<1>2. i \in Id /\ t \in Track /\ pump[p] # None /\ i < nextId
  BY <1>1, NoneSays DEF PumpRecord, KeyControl
<1>3. /\ queue' = Written(queue, {i}, w)
      /\ activeIds' = activeIds \cup {i}
      /\ pump' = [pump EXCEPT ![p] = IF ok THEN r ELSE None]
      /\ refused' = (refused \/ ~ok)
      /\ raced' = (raced \/ queue[i] = None \/ Held(t))
      /\ UNCHANGED <<nextId, cat, file, controllers, userPaused, net, cap, scheduled,
                     job, sweep, events>>
  BY DEF PumpTake
<1>4. r \in PumpRecord /\ r.id = i /\ r.track = t /\ r.pc = "put"
  BY <1>1 DEF PumpRecord
<1>5. ASSUME ~raced'
      PROVE  /\ ~raced /\ queue[i] # None /\ queue[i].track = t /\ ~Held(t)
             /\ CopyControl /\ HolderControl /\ CatalogControl
  <2>1. ~raced /\ queue[i] # None /\ ~Held(t)
    BY <1>3, <1>5
  <2>2. CopyControl /\ HolderControl /\ CatalogControl
    BY <2>1 DEF IInv
  <2> QED BY <1>2, <2>1, <2>2 DEF CopyControl, Agrees
<1>6. w[i] \in Row /\ w[i].track = t
  BY <1>2 DEF Row, State
<1>7. queue' \in Rows /\ QueueFollows
  <2>1. \A k \in {i} : w[k] \in Row /\ k < nextId
    BY <1>2, <1>6
  <2>2. ~raced' => \A k \in {i} : queue[k] # None /\ queue[k].track = w[k].track
    BY <1>5, <1>6
  <2>3. {i} \subseteq Id
    BY <1>2
  <2> HIDE DEF w
  <2> QED BY <1>3, <2>1, <2>2, <2>3, QueuePuts
<1> HIDE DEF i, t, w, ok, r
<1>8. pump' \in [Pump -> PumpRecord \cup {None}]
  BY <1>1, <1>3, <1>4
<1>9. TypeOK'
  <2>1. raced' \in BOOLEAN /\ refused' \in BOOLEAN /\ activeIds' \subseteq Id
    BY <1>1, <1>2, <1>3 DEF TypeOK
  <2> QED BY <1>1, <1>3, <1>7, <1>8, <2>1 DEF TypeOK
<1>10. ~raced' => FileControl' /\ FilesHold'
  <2>1. ASSUME ~raced' PROVE FileControl' /\ FilesHold'
    <3>1. ~raced
      BY <1>5, <2>1
    <3> QED BY <1>3, <3>1, FilesStay
  <2> QED BY <2>1
<1>11. CASE ~ok
  <2>1. PumpsFollow
    BY <1>1, <1>3, <1>11 DEF PumpsFollow
  <2>2. Follows
    BY <1>3, <1>7, <2>1, JobsStay, SweepsStay DEF Follows
  <2> QED BY <1>9, <1>10, <2>2, Kept
<1>12. CASE ok
  <2>1. pump'[p] = r /\ \A q \in Pump : q # p => pump'[q] = pump[q]
    BY <1>1, <1>3, <1>12
  <2>2. \A q \in Pump : pump'[q] # None =>
            pump[q] # None /\ pump'[q].id = pump[q].id /\ pump'[q].track = pump[q].track
    BY <1>2, <1>4, <2>1 DEF i, t
  <2>3. KeyControl'
    BY <1>1, <1>3, <1>7, <2>2 DEF KeyControl, QueueFollows
  <2>4. ASSUME ~raced'
        PROVE  CopyControl' /\ HolderControl' /\ CatalogControl'
    <3>1. /\ ~raced /\ queue[i] # None /\ queue[i].track = t /\ ~Held(t)
          /\ CopyControl /\ HolderControl /\ CatalogControl
      BY <1>5, <2>4
    <3>2. \A k \in Id : queue'[k] # None => queue[k] # None /\ queue'[k].track = queue[k].track
      BY <1>7, <2>4 DEF QueueFollows
    <3>3. Unique(queue') /\ queue'[i] # None /\ queue'[i].track = t
      BY <1>2, <1>7, <1>12, <3>1, <3>2 DEF QueueFollows, ok
    <3>4. /\ \A j \in Job : job[j] # None => job[j].track # t
          /\ \A q \in Pump : Put(q) => pump[q].track # t
          /\ \A s \in Sweep : sweep[s] # None => sweep[s].track # t
      BY <3>1 DEF Held, HasJob, Put
    <3>5. \A q \in Pump : Put(q)' => q = p \/ (Put(q) /\ pump'[q] = pump[q])
      BY <2>1 DEF Put
    <3>6. pump'[p].id = i /\ pump'[p].track = t
      BY <1>4, <2>1
    <3>7. CopyControl'
      <4>1. \A q \in Pump : pump'[q] # None => Agrees(pump[q].id, pump[q].track)'
        BY <1>1, <2>2, <3>1, <3>2 DEF CopyControl, Agrees, PumpRecord
      <4>2. \A j \in Job : job[j] # None => Agrees(job[j].id, job[j].track)'
        BY <1>1, <1>3, <3>1, <3>2 DEF CopyControl, Agrees, TypeOK, JobRecord
      <4>3. \A s \in Sweep : sweep[s] # None =>
                \A k \in Id : sweep[s].rows[k] # None => Agrees(k, sweep[s].rows[k].track)'
        BY <1>3, <3>1, <3>2 DEF CopyControl, Agrees
      <4> QED BY <1>3, <4>1, <4>2, <4>3 DEF CopyControl
    <3>8. HolderControl'
      <4>1. \A q, u \in Pump : Put(q)' /\ Put(u)' /\ pump'[q].track = pump'[u].track => q = u
        BY <3>1, <3>4, <3>5, <3>6 DEF HolderControl
      <4>2. \A q \in Pump, j \in Job : Put(q)' /\ job[j] # None => pump'[q].track # job[j].track
        BY <3>1, <3>4, <3>5, <3>6 DEF HolderControl
      <4>3. \A q \in Pump : Put(q)' => Only(pump[q].id, pump[q].track)'
        <5> SUFFICES ASSUME NEW q \in Pump, Put(q)' PROVE Only(pump[q].id, pump[q].track)'
          OBVIOUS
        <5>1. CASE q = p
          <6>1. \A k \in Id : queue'[k] # None /\ queue'[k].track = t => k = i
            BY <1>2, <3>3 DEF Unique
          <6> QED BY <3>6, <5>1, <6>1 DEF Only
        <5>2. CASE q # p
          <6>1. Put(q) /\ pump'[q] = pump[q]
            BY <3>5, <5>2
          <6>2. Only(pump[q].id, pump[q].track)
            BY <3>1, <6>1 DEF HolderControl
          <6> QED BY <3>2, <6>1, <6>2 DEF Only
        <5> QED BY <5>1, <5>2
      <4>4. \A j \in Job : job[j] # None => Only(job[j].id, job[j].track)'
        <5>1. job' = job
          BY <1>3
        <5>2. \A j \in Job : job[j] # None =>
                  \A k \in Id : queue'[k] # None /\ queue'[k].track = job[j].track => k = job[j].id
          BY <3>1, <3>2 DEF HolderControl, Only
        <5> QED BY <5>1, <5>2 DEF Only
      <4> QED BY <1>3, <3>1, <4>1, <4>2, <4>3, <4>4 DEF HolderControl
    <3>9. CatalogControl'
      <4>1. t \notin cat
        BY <1>2, <3>1 DEF CatalogControl
      <4>2. ASSUME NEW u, u # t, Settled(u) PROVE Settled(u)'
        BY <1>3, <3>5, <3>6, <4>2 DEF Settled
      <4>3. \A u \in cat : Settled(u)' /\ \A k \in Id : queue'[k] # None => queue'[k].track # u
        BY <3>1, <3>2, <4>1, <4>2 DEF CatalogControl
      <4>4. \A s \in Sweep : sweep[s] # None /\ sweep[s].track # None =>
                sweep[s].track \notin cat /\ Settled(sweep[s].track)'
        <5> SUFFICES ASSUME NEW s \in Sweep, sweep[s] # None, sweep[s].track # None
                     PROVE  sweep[s].track \notin cat /\ Settled(sweep[s].track)'
          OBVIOUS
        <5>1. PICK u : u = sweep[s].track
          OBVIOUS
        <5>2. u # t /\ u \notin cat /\ Settled(u)
          BY <3>1, <3>4, <5>1 DEF CatalogControl
        <5>3. Settled(u)' /\ sweep' = sweep
          BY <1>3, <4>2, <5>2
        <5> QED BY <5>1, <5>2, <5>3
      <4> QED BY <1>3, <4>3, <4>4 DEF CatalogControl
    <3> QED BY <3>7, <3>8, <3>9
  <2>5. FilesHold'
    BY <1>10 DEF FilesHold
  <2> QED BY <1>9, <1>10, <2>3, <2>4, <2>5 DEF IInv
<1> QED BY <1>11, <1>12

LEMMA PumpStartKeeps ==
    ASSUME IInv, NEW p \in Pump, NEW j \in Job, PumpStart(p, j)
    PROVE  IInv'
<1> DEFINE i == pump[p].id
           t == pump[p].track
           read == StateOf(queue, i)
           r == [pc |-> "check", id |-> i, track |-> t,
                 read |-> read, offset |-> "none", base |-> "clean",
                 why |-> "go", outcome |-> "none", files |-> FALSE, live |-> FALSE]
<1>1. /\ TypeOK /\ KeyControl /\ pump[p] \in PumpRecord /\ pump[p].pc = "put" /\ job[j] = None
      /\ queue \in Rows /\ pump \in [Pump -> PumpRecord \cup {None}]
      /\ job \in [Job -> JobRecord \cup {None}]
  BY DEF IInv, TypeOK, PumpStart, FirstFree
<1>2. i \in Id /\ t \in Track /\ pump[p] # None /\ i < nextId /\ Put(p)
  BY <1>1, NoneSays DEF PumpRecord, KeyControl, Put
<1>3. /\ job' = [job EXCEPT ![j] = r]
      /\ controllers' = [controllers EXCEPT ![i] = j]
      /\ scheduled' = TRUE
      /\ pump' = [pump EXCEPT ![p] = Listing]
      /\ UNCHANGED <<queue, nextId, cat, file, activeIds, userPaused, net, cap, sweep,
                     events, raced, refused>>
  BY DEF PumpStart, Emit, store
<1>4. read \in State \cup {None}
  BY <1>1, <1>2, StateOfSays
<1> HIDE DEF i, t, read
<1>5. r \in JobRecord /\ r.id = i /\ r.track = t /\ r.pc = "check"
  BY <1>2, <1>4 DEF JobRecord, Bytes, Reason
<1> HIDE DEF r
<1>6. pump' \in [Pump -> PumpRecord \cup {None}] /\ PumpsFollow
  BY <1>3, PumpLists
<1>7. TypeOK'
  <2>1. job' \in [Job -> JobRecord \cup {None}]
    BY <1>1, <1>3, <1>5
  <2>2. controllers' \in [Id -> Job \cup {None}]
    BY <1>1, <1>2, <1>3 DEF TypeOK
  <2> QED BY <1>1, <1>3, <1>6, <2>1, <2>2 DEF TypeOK
<1>8. job'[j] = r /\ \A k \in Job : k # j => job'[k] = job[k]
  BY <1>1, <1>3
<1>9. KeyControl'
  <2>1. \A q \in Pump : pump'[q] # None => pump'[q].id < nextId
    BY <1>1, <1>6 DEF PumpsFollow, KeyControl, PumpRecord
  <2>2. \A k \in Job : job'[k] # None => job'[k].id < nextId
    BY <1>1, <1>2, <1>5, <1>8 DEF KeyControl
  <2> QED BY <1>1, <1>3, <2>1, <2>2 DEF KeyControl, Unique
<1>10. ASSUME ~raced'
       PROVE  CopyControl' /\ HolderControl' /\ CatalogControl' /\ FileControl' /\ FilesHold
  <2>1. CopyControl /\ HolderControl /\ CatalogControl /\ FileControl /\ FilesHold
    BY <1>3, <1>10 DEF IInv
  <2>2. Agrees(i, t) /\ Only(i, t)
    BY <1>2, <2>1 DEF CopyControl, HolderControl, i, t
  <2>3. \A q \in Pump : Put(q)' => Put(q) /\ pump'[q] = pump[q] /\ q # p
    BY <1>1, <1>3, <1>6, ListingSays, NoneSays DEF PumpsFollow, Put
  <2>4. CopyControl'
    <3>1. \A q \in Pump : pump'[q] # None => Agrees(pump[q].id, pump[q].track)'
      BY <1>3, <1>6, <2>1 DEF CopyControl, PumpsFollow, Agrees
    <3>2. \A k \in Job : job'[k] # None => Agrees(job[k].id, job[k].track)'
      BY <1>3, <1>5, <1>8, <2>1, <2>2 DEF CopyControl, Agrees
    <3> QED BY <1>3, <2>1, <3>1, <3>2 DEF CopyControl, Agrees
  <2>5. HolderControl'
    <3>1. \A k, l \in Job : job'[k] # None /\ job'[l] # None /\ job'[k].track = job'[l].track => k = l
      BY <1>2, <1>5, <1>8, <2>1 DEF HolderControl, t
    <3>2. \A q, u \in Pump : Put(q)' /\ Put(u)' /\ pump'[q].track = pump'[u].track => q = u
      BY <2>1, <2>3 DEF HolderControl
    <3>3. \A q \in Pump, k \in Job : Put(q)' /\ job'[k] # None => pump'[q].track # job'[k].track
      BY <1>2, <1>5, <1>8, <2>1, <2>3 DEF HolderControl, t
    <3>4. \A q \in Pump : Put(q)' => Only(pump[q].id, pump[q].track)'
      BY <1>3, <2>1, <2>3 DEF HolderControl, Only
    <3>5. \A k \in Job : job'[k] # None => Only(job[k].id, job[k].track)'
      BY <1>3, <1>5, <1>8, <2>1, <2>2 DEF HolderControl, Only
    <3> QED BY <3>1, <3>2, <3>3, <3>4, <3>5 DEF HolderControl
  <2>6. ASSUME NEW u, Settled(u) PROVE Settled(u)'
    <3>1. t # u
      BY <1>2, <2>6 DEF Settled, t
    <3>2. \A k \in Job : job'[k] # None /\ job'[k].track = u => job'[k].pc = "unwind"
      BY <1>5, <1>8, <2>6, <3>1 DEF Settled
    <3> QED BY <2>3, <2>6, <3>2 DEF Settled
  <2>7. CatalogControl'
    <3>1. \A u \in cat : Settled(u)'
      BY <2>1, <2>6 DEF CatalogControl
    <3>2. \A s \in Sweep : sweep[s] # None /\ sweep[s].track # None =>
              sweep[s].track \notin cat /\ Settled(sweep[s].track)'
      <4> SUFFICES ASSUME NEW s \in Sweep, sweep[s] # None, sweep[s].track # None
                   PROVE  sweep[s].track \notin cat /\ Settled(sweep[s].track)'
        OBVIOUS
      <4>1. PICK u : u = sweep[s].track
        OBVIOUS
      <4>2. u \notin cat /\ Settled(u)
        BY <2>1, <4>1 DEF CatalogControl
      <4>3. Settled(u)' /\ sweep' = sweep
        BY <1>3, <2>6, <4>2
      <4> QED BY <4>1, <4>2, <4>3
    <3> QED BY <1>3, <2>1, <3>1, <3>2 DEF CatalogControl
  <2>8. FileControl'
    <3>1. ASSUME NEW k \in Job, job'[k] # None PROVE Fits(job'[k], file'[job'[k].track])
      <4>1. CASE k = j
        BY <1>5, <1>8, <4>1 DEF Fits
      <4>2. CASE k # j
        BY <1>3, <1>8, <2>1, <3>1, <4>2 DEF FileControl
      <4> QED BY <4>1, <4>2
    <3> QED BY <1>3, <2>1, <3>1 DEF FileControl
  <2> QED BY <2>1, <2>4, <2>5, <2>7, <2>8
<1>11. FilesHold'
  BY <1>3, <1>10 DEF FilesHold
<1> QED BY <1>7, <1>9, <1>10, <1>11 DEF IInv

-----------------------------------------------------------------------------
(* The commands.                                                           *)

LEMMA MineSays ==
    ASSUME IInv, NEW s \in Sweep, sweep[s] # None
    PROVE  /\ sweep[s] \in SweepRecord /\ sweep[s].rows \in Rows
           /\ \A i \in Mine(s) : /\ i \in Id /\ sweep[s].rows[i] # None /\ i < nextId
                                 /\ sweep[s].rows[i] \in Row
                                 /\ ~raced => Agrees(i, sweep[s].rows[i].track)
<1>1. sweep[s] \in SweepRecord
  BY DEF IInv, TypeOK
<1>2. sweep[s].rows \in Rows
  BY <1>1 DEF SweepRecord
<1>3. \A i \in Mine(s) : i \in Id /\ sweep[s].rows[i] # None /\ sweep[s].rows[i] \in Row
  BY <1>2 DEF Mine, Rows
<1> QED BY <1>1, <1>2, <1>3 DEF IInv, KeyControl, CopyControl

\* Rows that were listed are put back with another state.
LEMMA PutsBackSays ==
    ASSUME IInv, NEW s \in Sweep, sweep[s] # None, NEW st \in State, NEW I, I \subseteq Mine(s),
           queue' = Written(queue, I, Marked(sweep[s].rows, I, st)), PutsBack(s)
    PROVE  queue' \in Rows /\ QueueFollows /\ raced' \in BOOLEAN /\ (raced => raced')
<1> DEFINE w == Marked(sweep[s].rows, I, st)
<1>1. /\ sweep[s].rows \in Rows
      /\ \A i \in I : /\ i \in Id /\ sweep[s].rows[i] # None /\ i < nextId
                      /\ ~raced => Agrees(i, sweep[s].rows[i].track)
  BY MineSays
<1>2. \A i \in I : w[i] \in Row /\ w[i].track = sweep[s].rows[i].track
  BY <1>1, MarkedSays
<1> HIDE DEF w
<1>3. raced' = (raced \/ \E i \in Mine(s) : queue[i] = None)
  BY DEF PutsBack
<1>4. raced' \in BOOLEAN /\ (raced => raced')
  BY <1>3
<1>5. ~raced' => \A i \in I : queue[i] # None /\ queue[i].track = w[i].track
  BY <1>1, <1>2, <1>3 DEF Agrees
<1>6. queue' = Written(queue, I, w) /\ I \subseteq Id
  BY <1>1 DEF w
<1> QED BY <1>1, <1>2, <1>4, <1>5, <1>6, QueuePuts

LEMMA SweepReapplyKeeps ==
    ASSUME IInv, NEW s \in Sweep, SweepReapply(s)
    PROVE  IInv'
<1>1. sweep' \in [Sweep -> SweepRecord \cup {None}] /\ SweepsFollow /\ scheduled' \in BOOLEAN
  <2>1. CASE Finished(s) /\ Emit
    BY <2>1, FinishedSays DEF Emit
  <2>2. CASE sweep' = [sweep EXCEPT ![s] = Freeze] /\ scheduled' = scheduled
    BY <2>2, ListsFollow DEF Freeze, IInv, TypeOK
  <2>3. CASE sweep' = [sweep EXCEPT ![s] = Unpause] /\ scheduled' = scheduled
    BY <2>3, ListsFollow DEF Unpause, IInv, TypeOK
  <2> QED BY <2>1, <2>2, <2>3 DEF SweepReapply
<1>2. TypeOK'
  BY <1>1 DEF IInv, TypeOK, SweepReapply, store
<1>3. Follows
  BY <1>1, QueueStays, JobsStay, PumpsStay DEF Follows, SweepReapply, store
<1>4. ~raced' => FileControl' /\ FilesHold'
  BY FilesStay DEF SweepReapply, store
<1> QED BY <1>2, <1>3, <1>4, Kept

LEMMA SweepFreezeKeeps ==
    ASSUME IInv, NEW s \in Sweep, SweepFreeze(s)
    PROVE  IInv'
<1>1. queue' \in Rows /\ QueueFollows /\ raced' \in BOOLEAN /\ (raced => raced')
  BY PutsBackSays DEF SweepFreeze, Is, State
<1>2. sweep' \in [Sweep -> SweepRecord \cup {None}] /\ SweepsFollow /\ scheduled' \in BOOLEAN
  <2>1. CASE Emit /\ Aborts(s, InState(sweep[s].rows, {"active"}))
    BY <2>1, AbortsSays DEF Emit, SweepFreeze, Is
  <2>2. CASE UNCHANGED scheduled /\ Finished(s)
    BY <2>2, FinishedSays DEF IInv, TypeOK
  <2> QED BY <2>1, <2>2 DEF SweepFreeze
<1>3. /\ TypeOK
      /\ UNCHANGED <<nextId, cat, file, activeIds, controllers, userPaused, net, cap, pump, job,
                     events, refused>>
  BY DEF IInv, SweepFreeze
<1>4. TypeOK'
  BY <1>1, <1>2, <1>3 DEF TypeOK
<1>5. Follows
  BY <1>1, <1>2, <1>3, JobsStay, PumpsStay DEF Follows
<1>6. ~raced' => FileControl' /\ FilesHold'
  BY <1>1, <1>3, FilesStay
<1> QED BY <1>4, <1>5, <1>6, Kept

LEMMA SweepUnpauseKeeps ==
    ASSUME IInv, NEW s \in Sweep, SweepUnpause(s)
    PROVE  IInv'
<1>1. queue' \in Rows /\ QueueFollows /\ raced' \in BOOLEAN /\ (raced => raced')
  BY PutsBackSays DEF SweepUnpause, Is, State
<1>2. sweep' \in [Sweep -> SweepRecord \cup {None}] /\ SweepsFollow /\ scheduled' \in BOOLEAN
  BY FinishedSays DEF SweepUnpause, Emit
<1>3. /\ TypeOK
      /\ UNCHANGED <<nextId, cat, file, activeIds, controllers, userPaused, net, cap, pump, job,
                     events, refused>>
  BY DEF IInv, SweepUnpause
<1>4. TypeOK'
  BY <1>1, <1>2, <1>3 DEF TypeOK
<1>5. Follows
  BY <1>1, <1>2, <1>3, JobsStay, PumpsStay DEF Follows
<1>6. ~raced' => FileControl' /\ FilesHold'
  BY <1>1, <1>3, FilesStay
<1> QED BY <1>4, <1>5, <1>6, Kept

LEMMA SweepAbortKeeps ==
    ASSUME IInv, NEW s \in Sweep, SweepAbort(s)
    PROVE  IInv'
<1>1. sweep[s] \in SweepRecord /\ sweep[s].why \in Reason
  BY MineSays DEF SweepAbort, Is, SweepRecord
<1>2. /\ TypeOK /\ Finished(s)
      /\ job' = Aborted(Mine(s), sweep[s].why)
      /\ activeIds' = activeIds \ Mine(s)
      /\ scheduled' = (scheduled \/ sweep[s].why = "demote")
      /\ UNCHANGED <<queue, nextId, cat, file, controllers, userPaused, net, cap, pump,
                     events, raced, refused>>
  BY DEF IInv, SweepAbort, store
<1>3. job' \in [Job -> JobRecord \cup {None}] /\ JobsFollow
  BY <1>1, <1>2, AbortedFollows
<1>4. sweep' \in [Sweep -> SweepRecord \cup {None}] /\ SweepsFollow
  BY <1>2, FinishedSays
<1>5. TypeOK'
  <2>1. activeIds' \subseteq Id /\ scheduled' \in BOOLEAN
    BY <1>2 DEF TypeOK
  <2> QED BY <1>2, <1>3, <1>4, <2>1 DEF TypeOK
<1>6. Follows
  BY <1>2, <1>3, <1>4, QueueStays, PumpsStay DEF Follows
<1>7. ~raced' => FileControl' /\ FilesHold'
  BY <1>1, <1>2, AbortedSays, FilesStay
<1> QED BY <1>5, <1>6, <1>7, Kept

LEMMA DiscardsSays ==
    ASSUME IInv, NEW T, Discards(T), job' = job, cat' = cat
    PROVE  /\ file' \in [Track -> File] /\ raced' \in BOOLEAN /\ (raced => raced')
           /\ ~raced' => FileControl' /\ FilesHold'
<1>1. file \in [Track -> File] /\ raced \in BOOLEAN
  BY DEF IInv, TypeOK
<1>2. \A f \in File : /\ Discarded(f) \in File /\ Discarded(f).final = f.final
                      /\ Sound(f) => Sound(Discarded(f))
  BY DEF Discarded, File, Bytes, Sound
<1>3. /\ file' = [t \in Track |-> IF t \in T THEN Discarded(file[t]) ELSE file[t]]
      /\ raced' = (raced \/ \E t \in T : HasJob(t))
  BY DEF Discards
<1>4. file' \in [Track -> File] /\ raced' \in BOOLEAN /\ (raced => raced')
  BY <1>1, <1>2, <1>3
<1>5. ASSUME ~raced' PROVE FileControl' /\ FilesHold'
  <2>1. ~raced /\ \A t \in T : ~HasJob(t)
    BY <1>3, <1>5
  <2>2. \A t \in Track : \/ file'[t] = file[t]
                         \/ t \in T /\ Sound(file'[t]) /\ file'[t].final = file[t].final
    BY <1>1, <1>2, <1>3, <2>1, SoundSays
  <2> QED BY <2>1, <2>2, FilesChange
<1> QED BY <1>4, <1>5

LEMMA SweepItemKeeps ==
    ASSUME IInv, NEW s \in Sweep, SweepItem(s)
    PROVE  IInv'
<1> DEFINE rows == sweep[s].rows
           held == IF CanPump THEN "pending" ELSE "paused"
<1>1. PICK i \in Mine(s) :
          \/ /\ queue' = Written(queue, {i}, Marked(rows, {i}, held))
             /\ Finished(s) /\ UNCHANGED file /\ PutsBack(s)
          \/ /\ queue' = Written(queue, {i}, Marked(rows, {i}, "canceled"))
             /\ Aborts(s, {i}) /\ UNCHANGED file /\ PutsBack(s)
          \/ /\ Discards({rows[i].track})
             /\ queue' = [queue EXCEPT ![i] = None]
             /\ Finished(s)
  BY DEF SweepItem
<1>2. /\ TypeOK /\ sweep[s] # None /\ scheduled' = TRUE
      /\ UNCHANGED <<nextId, cat, activeIds, controllers, userPaused, net, cap, pump, job,
                     events, refused>>
  BY DEF IInv, SweepItem, Is, Emit
<1>3. i \in Id /\ {i} \subseteq Mine(s) /\ held \in State /\ "canceled" \in State
  BY <1>2, MineSays DEF State
<1> HIDE DEF held
<1>4. /\ queue' \in Rows /\ QueueFollows /\ raced' \in BOOLEAN /\ (raced => raced')
      /\ sweep' \in [Sweep -> SweepRecord \cup {None}] /\ SweepsFollow
      /\ file' \in [Track -> File]
      /\ ~raced' => FileControl' /\ FilesHold'
  <2>1. CASE /\ queue' = Written(queue, {i}, Marked(rows, {i}, held))
             /\ Finished(s) /\ UNCHANGED file /\ PutsBack(s)
    <3>1. queue' \in Rows /\ QueueFollows /\ raced' \in BOOLEAN /\ (raced => raced')
      BY <1>2, <1>3, <2>1, PutsBackSays
    <3>2. ~raced' => FileControl' /\ FilesHold'
      BY <1>2, <2>1, <3>1, FilesStay
    <3> QED BY <1>2, <2>1, <3>1, <3>2, FinishedSays DEF TypeOK
  <2>2. CASE /\ queue' = Written(queue, {i}, Marked(rows, {i}, "canceled"))
             /\ Aborts(s, {i}) /\ UNCHANGED file /\ PutsBack(s)
    <3>1. queue' \in Rows /\ QueueFollows /\ raced' \in BOOLEAN /\ (raced => raced')
      BY <1>2, <1>3, <2>2, PutsBackSays
    <3>2. ~raced' => FileControl' /\ FilesHold'
      BY <1>2, <2>2, <3>1, FilesStay
    <3> QED BY <1>2, <2>2, <3>1, <3>2, AbortsSays DEF TypeOK
  <2>3. CASE /\ Discards({rows[i].track})
             /\ queue' = [queue EXCEPT ![i] = None]
             /\ Finished(s)
    BY <1>2, <1>3, <2>3, QueueDeletes, DiscardsSays, FinishedSays
  <2> QED BY <1>1, <2>1, <2>2, <2>3
<1>5. TypeOK'
  BY <1>2, <1>4 DEF TypeOK
<1>6. Follows
  BY <1>2, <1>4, JobsStay, PumpsStay DEF Follows
<1> QED BY <1>4, <1>5, <1>6, Kept

LEMMA SweepClearKeeps ==
    ASSUME IInv, NEW s \in Sweep, SweepClear(s)
    PROVE  IInv'
<1>1. /\ TypeOK /\ Finished(s) /\ scheduled' = TRUE
      /\ queue' = [i \in Id |-> IF Is(s, "clearAll") \/ i \in Mine(s) THEN None ELSE queue[i]]
      /\ Discards({sweep[s].rows[i].track : i \in Mine(s)})
      /\ UNCHANGED <<nextId, cat, activeIds, controllers, userPaused, net, cap, pump, job,
                     events, refused>>
  BY DEF IInv, SweepClear, Emit
<1>2. queue' \in Rows /\ \A i \in Id : queue'[i] = queue[i] \/ queue'[i] = None
  BY <1>1 DEF TypeOK, Rows
<1>3. /\ file' \in [Track -> File] /\ raced' \in BOOLEAN /\ (raced => raced')
      /\ ~raced' => FileControl' /\ FilesHold'
  BY <1>1, DiscardsSays
<1>4. sweep' \in [Sweep -> SweepRecord \cup {None}] /\ SweepsFollow
  BY <1>1, FinishedSays
<1>5. TypeOK'
  BY <1>1, <1>2, <1>3, <1>4 DEF TypeOK
<1>6. Follows
  BY <1>1, <1>2, <1>3, <1>4, QueueDrops, JobsStay, PumpsStay DEF Follows
<1> QED BY <1>3, <1>5, <1>6, Kept

LEMMA SweepDemoteKeeps ==
    ASSUME IInv, NEW s \in Sweep, SweepDemote(s)
    PROVE  IInv'
<1>1. sweep' \in [Sweep -> SweepRecord \cup {None}] /\ SweepsFollow
  BY AbortsSays DEF SweepDemote, Is
<1>2. TypeOK'
  BY <1>1 DEF IInv, TypeOK, SweepDemote, store, runtime
<1>3. Follows
  BY <1>1, QueueStays, JobsStay, PumpsStay DEF Follows, SweepDemote, store, runtime
<1>4. ~raced' => FileControl' /\ FilesHold'
  BY FilesStay DEF SweepDemote, store
<1> QED BY <1>2, <1>3, <1>4, Kept

LEMMA SweepFlushKeeps ==
    ASSUME IInv, NEW s \in Sweep, SweepFlush(s)
    PROVE  IInv'
<1>1. /\ TypeOK /\ Finished(s) /\ sweep[s] # None
      /\ queue' = Written(queue, Mine(s), sweep[s].rows)
      /\ raced' = (raced \/ \E i \in Mine(s) : queue[i] # sweep[s].rows[i])
      /\ UNCHANGED <<nextId, cat, file, activeIds, controllers, userPaused, net, cap, scheduled,
                     pump, job, events, refused>>
  BY DEF IInv, SweepFlush, Is, runtime
<1>2. raced' \in BOOLEAN /\ (raced => raced')
  BY <1>1
<1>3. /\ Mine(s) \subseteq Id
      /\ \A i \in Mine(s) : sweep[s].rows[i] \in Row /\ i < nextId /\ sweep[s].rows[i] # None
  BY <1>1, MineSays
<1>4. ~raced' => \A i \in Mine(s) : queue[i] # None /\ queue[i].track = sweep[s].rows[i].track
  BY <1>1, <1>3
<1>5. queue' \in Rows /\ QueueFollows
  BY <1>1, <1>3, <1>4, QueuePuts
<1>6. sweep' \in [Sweep -> SweepRecord \cup {None}] /\ SweepsFollow
  BY <1>1, FinishedSays
<1>7. TypeOK'
  BY <1>1, <1>2, <1>5, <1>6 DEF TypeOK
<1>8. Follows
  BY <1>1, <1>2, <1>5, <1>6, JobsStay, PumpsStay DEF Follows
<1>9. ~raced' => FileControl' /\ FilesHold'
  BY <1>1, <1>2, FilesStay
<1> QED BY <1>7, <1>8, <1>9, Kept

LEMMA SweepRemoveKeeps ==
    ASSUME IInv, NEW s \in Sweep, SweepRemove(s)
    PROVE  IInv'
<1> DEFINE t == sweep[s].track
<1>1. /\ TypeOK /\ Finished(s) /\ sweep[s] # None
      /\ file' = [file EXCEPT ![t] = Deleted(@)]
      /\ raced' = (raced \/ HasJob(t))
      /\ UNCHANGED <<queue, nextId, cat, activeIds, controllers, userPaused, net, cap, scheduled,
                     pump, job, events, refused>>
  BY DEF IInv, SweepRemove, Is, runtime
<1>2. raced' \in BOOLEAN /\ (raced => raced')
  BY <1>1
<1>3. \A f \in File : Deleted(f) \in File /\ Sound(Deleted(f))
  BY DEF Deleted, Absent, File, Bytes, Sound
<1>4. file' \in [Track -> File]
  BY <1>1, <1>3 DEF TypeOK
<1>5. sweep' \in [Sweep -> SweepRecord \cup {None}] /\ SweepsFollow
  BY <1>1, FinishedSays
<1>6. TypeOK'
  BY <1>1, <1>2, <1>4, <1>5 DEF TypeOK
<1>7. Follows
  BY <1>1, <1>2, <1>5, QueueStays, JobsStay, PumpsStay DEF Follows
<1>8. ASSUME ~raced' PROVE FileControl' /\ FilesHold'
  <2>1. ~raced /\ ~HasJob(t)
    BY <1>1, <1>8
  <2>2. t \in Track => t \notin cat
    BY <1>1, <2>1, NoneSays DEF IInv, CatalogControl
  <2>3. \A u \in Track : file'[u] = file[u] \/ (u = t /\ Sound(file'[u]))
    BY <1>1, <1>3 DEF TypeOK
  <2> HIDE DEF t
  <2>4. \A u \in Track : \/ file'[u] = file[u]
                         \/ /\ u \in {t} /\ Sound(file'[u])
                            /\ file'[u].final = file[u].final \/ u \notin cat
    BY <2>2, <2>3
  <2> QED BY <1>1, <2>1, <2>4, FilesChange
<1> QED BY <1>6, <1>7, <1>8, Kept

-----------------------------------------------------------------------------
(* A job: what it makes of its file.                                       *)

LEMMA FileSays ==
    ASSUME NEW f \in File, NEW base \in {"clean", "gap"}
    PROVE  /\ Closed(f, base) \in File /\ Closed(f, base).final = f.final
           /\ base = "clean" => Closed(f, base).part = "whole"
           /\ Short(f, base) \in File /\ Short(f, base).final = f.final
           /\ base = "clean" => Short(f, base).part = "prefix"
           /\ Discarded(f) \in File /\ Discarded(f).final = f.final /\ Discarded(f).part = "none"
           /\ Deleted(f) \in File /\ Deleted(f).final = "none" /\ Deleted(f).part = "none"
           /\ Cleared(f) \in File /\ Cleared(f).final = "none" /\ Cleared(f).part = f.part
           /\ Promoted(f) \in File /\ Promoted(f).final = f.part /\ Promoted(f).part = "none"
           /\ Created(f) \in File /\ Created(f).final = "empty" /\ Created(f).part = f.part
           /\ Copied(f) \in File /\ Copied(f).final = f.part /\ Copied(f).part = f.part
<1>1. Closed(f, base) \in File /\ Closed(f, base).final = f.final
      /\ (base = "clean" => Closed(f, base).part = "whole")
  BY DEF Closed, File, Bytes
<1>2. Short(f, base) \in File /\ Short(f, base).final = f.final
      /\ (base = "clean" => Short(f, base).part = "prefix")
  BY DEF Short, File, Bytes
<1>3. Discarded(f) \in File /\ Discarded(f).final = f.final /\ Discarded(f).part = "none"
  BY DEF Discarded, File, Bytes
<1>4. Deleted(f) \in File /\ Deleted(f).final = "none" /\ Deleted(f).part = "none"
  BY DEF Deleted, Absent, File, Bytes
<1>5. Cleared(f) \in File /\ Cleared(f).final = "none" /\ Cleared(f).part = f.part
  BY DEF Cleared, File, Bytes
<1>6. Promoted(f) \in File /\ Promoted(f).final = f.part /\ Promoted(f).part = "none"
  BY DEF Promoted, File, Bytes
<1>7. Created(f) \in File /\ Created(f).final = "empty" /\ Created(f).part = f.part
  BY DEF Created, File, Bytes
<1>8. Copied(f) \in File /\ Copied(f).final = f.part /\ Copied(f).part = f.part
  BY DEF Copied, File, Bytes
<1> QED BY <1>1, <1>2, <1>3, <1>4, <1>5, <1>6, <1>7, <1>8

LEMMA MyFileSays ==
    ASSUME IInv, NEW j \in Job, job[j] # None
    PROVE  /\ job[j] \in JobRecord /\ job[j].track \in Track /\ MyFile(j) \in File
           /\ file' = file => Sets(j, MyFile(j))
           /\ ~raced => Sound(MyFile(j)) /\ Fits(job[j], MyFile(j))
           /\ ~raced /\ job[j].pc # "unwind" => job[j].track \notin cat
<1>1. job[j] \in JobRecord /\ job[j].track \in Track /\ file \in [Track -> File]
  BY DEF IInv, TypeOK, JobRecord
<1>2. file' = file => Sets(j, MyFile(j))
  BY <1>1 DEF Sets, MyFile
<1>3. ~raced => Sound(MyFile(j)) /\ Fits(job[j], MyFile(j))
  BY <1>1, SoundSays DEF MyFile, IInv, FileControl
<1>4. ~raced /\ job[j].pc # "unwind" => job[j].track \notin cat
  BY DEF IInv, CatalogControl, Settled
<1> QED BY <1>1, <1>2, <1>3, <1>4 DEF MyFile

\* A job that has not come to its end does something to its file, and to no row.
LEMMA JobMoved ==
    ASSUME IInv, NEW j \in Job, job[j] # None, job[j].pc # "unwind",
           NEW r \in JobRecord, Becomes(j, r), r.id = job[j].id, r.track = job[j].track,
           NEW f \in File, Sets(j, f), ~raced => Sound(f) /\ Fits(r, f),
           UNCHANGED <<queue, nextId, cat, activeIds, controllers, userPaused, cap, scheduled,
                       pump, raced, refused>>,
           net' \in {"online", "down"}, events' \in 0..MaxEvents,
           sweep' \in [Sweep -> SweepRecord \cup {None}], SweepsFollow
    PROVE  IInv'
<1>1. TypeOK /\ job' \in [Job -> JobRecord \cup {None}] /\ JobsFollow
  BY JobBecomes DEF IInv
<1>2. file' \in [Track -> File]
  BY MyFileSays DEF IInv, TypeOK, Sets
<1>3. TypeOK'
  BY <1>1, <1>2 DEF TypeOK
<1>4. Follows
  BY <1>1, QueueStays, PumpsStay DEF Follows
<1>5. ~raced' => FileControl' /\ FilesHold'
  BY MyFileSays, JobFile
<1> QED BY <1>3, <1>4, <1>5, Kept

\* The same, where the file, the network and the commands stay as they are.
LEMMA JobTurned ==
    ASSUME IInv, NEW j \in Job, job[j] # None, job[j].pc # "unwind",
           NEW r \in JobRecord, Becomes(j, r), r.id = job[j].id, r.track = job[j].track,
           ~raced => Fits(r, MyFile(j)),
           UNCHANGED <<store, runtime, pump, sweep, events, raced, refused>>
    PROVE  IInv'
<1>1. /\ UNCHANGED <<queue, nextId, cat, activeIds, controllers, userPaused, cap, scheduled,
                     pump, raced, refused>>
      /\ file' = file /\ net' \in {"online", "down"} /\ events' \in 0..MaxEvents
      /\ sweep' \in [Sweep -> SweepRecord \cup {None}] /\ SweepsFollow
  BY SweepsStay DEF store, runtime, IInv, TypeOK
<1>2. MyFile(j) \in File /\ Sets(j, MyFile(j)) /\ (~raced => Sound(MyFile(j)))
  BY <1>1, MyFileSays
<1> QED BY <1>1, <1>2, JobMoved

\* The same, where the job may write its row and find it overwritten.
LEMMA JobWrote ==
    ASSUME IInv, NEW j \in Job, job[j] # None, job[j].pc # "unwind",
           NEW r \in JobRecord, Becomes(j, r), r.id = job[j].id, r.track = job[j].track,
           NEW f \in File, Sets(j, f), ~raced => Sound(f) /\ Fits(r, f),
           queue' \in Rows, QueueFollows, raced' \in BOOLEAN, raced => raced',
           scheduled' \in BOOLEAN, events' \in 0..MaxEvents,
           UNCHANGED <<nextId, cat, activeIds, controllers, userPaused, net, cap, pump, sweep,
                       refused>>
    PROVE  IInv'
<1>1. TypeOK /\ job' \in [Job -> JobRecord \cup {None}] /\ JobsFollow
  BY JobBecomes DEF IInv
<1>2. file' \in [Track -> File]
  BY MyFileSays DEF IInv, TypeOK, Sets
<1>3. TypeOK'
  BY <1>1, <1>2 DEF TypeOK
<1>4. Follows
  BY <1>1, PumpsStay, SweepsStay DEF Follows
<1>5. ~raced' => FileControl' /\ FilesHold'
  BY MyFileSays, JobFile
<1> QED BY <1>3, <1>4, <1>5, Kept

\* A job writes its row back as it read it, in another state.
LEMMA PutsSays ==
    ASSUME IInv, NEW j \in Job, job[j] # None, job[j].read # None, NEW st \in State, Puts(j, st),
           raced' = (raced \/ StateOf(queue, job[j].id) # job[j].read)
    PROVE  queue' \in Rows /\ QueueFollows
<1> DEFINE i == job[j].id
           t == job[j].track
           w == [n \in Id |-> [track |-> t, state |-> st]]
<1>1. i \in Id /\ t \in Track /\ i < nextId
  BY MyFileSays DEF IInv, KeyControl, JobRecord
<1>2. queue' = Written(queue, {i}, w)
  BY DEF Puts
<1>3. w[i] \in Row /\ w[i].track = t
  BY <1>1 DEF Row
<1>4. ~raced' => queue[i] # None /\ queue[i].track = t
  <2>1. ASSUME ~raced' PROVE queue[i] # None /\ queue[i].track = t
    <3>1. StateOf(queue, i) = job[j].read /\ ~raced
      BY <2>1
    <3>2. queue[i] # None
      BY <3>1 DEF StateOf
    <3> QED BY <1>1, <3>1, <3>2 DEF IInv, CopyControl, Agrees
  <2> QED BY <2>1
<1> HIDE DEF w
<1>5. \A n \in {i} : w[n] \in Row /\ n < nextId
  BY <1>1, <1>3
<1>6. ~raced' => \A n \in {i} : queue[n] # None /\ queue[n].track = w[n].track
  BY <1>3, <1>4
<1>7. {i} \subseteq Id
  BY <1>1
<1> QED BY <1>2, <1>5, <1>6, <1>7, QueuePuts

\* What an outcome leaves of a file is a file, and as sound as it was.
LEMMA EndFileSays ==
    ASSUME IInv, NEW j \in Job, job[j] # None
    PROVE  EndFile(j) \in File /\ (~raced => Sound(EndFile(j)))
<1>1. MyFile(j) \in File /\ (~raced => Sound(MyFile(j)))
  BY MyFileSays
<1>2. EndFile(j) \in {Deleted(MyFile(j)), Discarded(MyFile(j)), MyFile(j)}
  BY DEF EndFile
<1>3. /\ Deleted(MyFile(j)) \in File /\ Discarded(MyFile(j)) \in File
      /\ Sound(MyFile(j)) => Sound(Deleted(MyFile(j))) /\ Sound(Discarded(MyFile(j)))
  BY <1>1, FileSays DEF Sound
<1> QED BY <1>1, <1>2, <1>3

LEMMA EventSays ==
    ASSUME IInv, Event \/ events' = events
    PROVE  events' \in 0..MaxEvents
<1>1. events \in 0..MaxEvents /\ MaxEvents \in Nat
  BY DownloadQueueAssumption DEF IInv, TypeOK
<1> QED BY <1>1 DEF Event

-----------------------------------------------------------------------------
(* The job, step by step.                                                  *)

LEMMA JobCheckKeeps ==
    ASSUME IInv, NEW j \in Job, JobCheck(j)
    PROVE  IInv'
<1>1. /\ TypeOK /\ job[j] # None /\ job[j].pc = "check" /\ job[j] \in JobRecord
      /\ UNCHANGED <<store, runtime, pump, sweep, events, raced, refused>>
  BY MyFileSays DEF IInv, JobCheck, At
<1>2. CASE Outcome(j, "canceled", FALSE) \/ Outcome(j, "paused", FALSE)
  <2>1. PICK r \in JobRecord :
            /\ Becomes(j, r) /\ r.id = job[j].id /\ r.track = job[j].track
            /\ r.pc = "apply" /\ r.outcome \in {"canceled", "paused"}
    <3>1. TypeOK /\ job[j] # None /\ FALSE \in BOOLEAN
      BY <1>1
    <3>2. ASSUME Outcome(j, "canceled", FALSE)
          PROVE  \E r \in JobRecord :
                    /\ Becomes(j, r) /\ r.id = job[j].id /\ r.track = job[j].track
                    /\ r.pc = "apply" /\ r.outcome = "canceled"
      BY <3>1, <3>2, OutcomeSays
    <3>3. ASSUME Outcome(j, "paused", FALSE)
          PROVE  \E r \in JobRecord :
                    /\ Becomes(j, r) /\ r.id = job[j].id /\ r.track = job[j].track
                    /\ r.pc = "apply" /\ r.outcome = "paused"
      BY <3>1, <3>3, OutcomeSays
    <3> QED BY <1>2, <3>2, <3>3
  <2>2. Fits(r, MyFile(j))
    BY <2>1 DEF Fits
  <2> QED BY <1>1, <2>1, <2>2, JobTurned
<1>3. CASE job' = [job EXCEPT ![j] = [@ EXCEPT !.pc = "refresh", !.read = None]]
  <2> DEFINE r == [job[j] EXCEPT !.pc = "refresh", !.read = None]
  <2>1. r \in JobRecord /\ r.id = job[j].id /\ r.track = job[j].track /\ r.pc = "refresh"
    BY <1>1 DEF JobRecord
  <2>2. Becomes(j, r)
    BY <1>3 DEF Becomes
  <2> HIDE DEF r
  <2> QED BY <1>1, <2>1, <2>2, JobTurned DEF Fits
<1> QED BY <1>2, <1>3 DEF JobCheck

LEMMA JobRefreshedKeeps ==
    ASSUME IInv, NEW j \in Job, JobRefreshed(j)
    PROVE  IInv'
<1>1. /\ TypeOK /\ job[j] # None /\ job[j].pc = "refresh" /\ job[j] \in JobRecord
      /\ UNCHANGED <<store, runtime, pump, sweep, events, raced, refused>>
  BY MyFileSays DEF IInv, JobRefreshed, At
<1>2. CASE Stops(j)
  <2>1. PICK r \in JobRecord :
            /\ Becomes(j, r) /\ r.id = job[j].id /\ r.track = job[j].track /\ r.pc = "aborted"
    BY <1>1, <1>2, StopsSays
  <2> QED BY <1>1, <2>1, JobTurned DEF Fits
<1>3. CASE job' = [job EXCEPT ![j] = [@ EXCEPT !.pc = "fetch", !.offset = Resume(MyFile(j))]]
  <2> DEFINE offset == MyFile(j).part
             r == [job[j] EXCEPT !.pc = "fetch", !.offset = offset]
  <2>1. offset \in Bytes
    BY <1>1, MyFileSays DEF File
  <2>2. Becomes(j, r)
    BY <1>3 DEF Becomes, Resume
  <2> HIDE DEF offset
  <2>3. r \in JobRecord /\ r.id = job[j].id /\ r.track = job[j].track /\ r.pc = "fetch"
        /\ r.offset = offset
    BY <1>1, <2>1 DEF JobRecord
  <2> HIDE DEF r
  <2>4. Fits(r, MyFile(j))
    BY <2>3 DEF Fits, offset
  <2> QED BY <1>1, <2>2, <2>3, <2>4, JobTurned
<1> QED BY <1>2, <1>3 DEF JobRefreshed

LEMMA JobOfflineKeeps ==
    ASSUME IInv, NEW j \in Job, JobOffline(j)
    PROVE  IInv'
<1>1. /\ TypeOK /\ job[j] # None /\ job[j].pc \in {"refresh", "fetch", "refetch"}
      /\ Outcome(j, "network", FALSE) /\ Event
      /\ UNCHANGED <<queue, nextId, cat, file, activeIds, controllers, userPaused, cap, scheduled,
                     pump, raced, refused>>
  BY DEF IInv, JobOffline, At, store
<1>2. /\ net' \in {"online", "down"}
      /\ sweep' \in [Sweep -> SweepRecord \cup {None}] /\ SweepsFollow
  BY FailureSays DEF JobOffline
<1>3. PICK r \in JobRecord :
          /\ Becomes(j, r) /\ r.id = job[j].id /\ r.track = job[j].track
          /\ r.pc = "apply" /\ r.outcome = "network"
  BY <1>1, OutcomeSays
<1>4. MyFile(j) \in File /\ Sets(j, MyFile(j)) /\ (~raced => Sound(MyFile(j)))
  BY <1>1, MyFileSays
<1>5. Fits(r, MyFile(j)) /\ events' \in 0..MaxEvents
  BY <1>1, <1>3, EventSays DEF Fits
<1> QED BY <1>1, <1>2, <1>3, <1>4, <1>5, JobMoved

LEMMA JobResponseKeeps ==
    ASSUME IInv, NEW j \in Job, JobResponse(j)
    PROVE  IInv'
<1>1. /\ TypeOK /\ job[j] # None /\ job[j].pc \in {"fetch", "refetch"} /\ job[j] \in JobRecord
      /\ UNCHANGED <<queue, nextId, cat, activeIds, controllers, userPaused, net, cap, scheduled,
                     pump, sweep, events, raced, refused>>
  BY MyFileSays DEF IInv, JobResponse, At, runtime
<1>2. /\ net' \in {"online", "down"} /\ events' \in 0..MaxEvents
      /\ sweep' \in [Sweep -> SweepRecord \cup {None}] /\ SweepsFollow
  BY <1>1, SweepsStay DEF TypeOK
<1>3. /\ MyFile(j) \in File /\ (file' = file => Sets(j, MyFile(j)))
      /\ ~raced => Sound(MyFile(j)) /\ Fits(job[j], MyFile(j))
  BY <1>1, MyFileSays
<1>4. CASE Stops(j) /\ UNCHANGED file
  <2>1. PICK r \in JobRecord :
            /\ Becomes(j, r) /\ r.id = job[j].id /\ r.track = job[j].track /\ r.pc = "aborted"
    BY <1>1, <1>4, StopsSays
  <2>2. Fits(r, MyFile(j))
    BY <2>1 DEF Fits
  <2> QED BY <1>1, <1>2, <1>3, <1>4, <2>1, <2>2, JobMoved
<1>5. CASE /\ job' = [job EXCEPT ![j] = [@ EXCEPT !.pc = "refetch", !.offset = "none"]]
           /\ Sets(j, Discarded(MyFile(j)))
  <2> DEFINE r == [job[j] EXCEPT !.pc = "refetch", !.offset = "none"]
             f == Discarded(MyFile(j))
  <2>1. r \in JobRecord /\ r.id = job[j].id /\ r.track = job[j].track /\ r.pc = "refetch"
        /\ r.offset = "none"
    BY <1>1 DEF JobRecord, Bytes
  <2>2. Becomes(j, r)
    BY <1>5 DEF Becomes
  <2>3. f \in File /\ f.final = MyFile(j).final /\ f.part = "none" /\ Sets(j, f)
    BY <1>3, <1>5, FileSays
  <2> HIDE DEF r, f
  <2>4. Fits(r, f) /\ (~raced => Sound(f))
    BY <1>3, <2>1, <2>3 DEF Fits, Sound
  <2> QED BY <1>1, <1>2, <2>1, <2>2, <2>3, <2>4, JobMoved
<1>6. CASE /\ job[j].offset # "whole"
           /\ job' = [job EXCEPT ![j] = [@ EXCEPT !.pc = "write", !.offset = "none", !.live = TRUE,
                                                  !.base = Opened(MyFile(j), job[j].offset)]]
           /\ UNCHANGED file
  <2> DEFINE base == Opened(MyFile(j), job[j].offset)
             r == [job[j] EXCEPT !.pc = "write", !.offset = "none", !.live = TRUE, !.base = base]
  <2>1. base \in {"clean", "gap"}
    BY DEF Opened
  <2>2. ~raced => base = "clean"
    BY <1>1, <1>3, <1>6 DEF Opened, Fits, Sound
  <2>3. Becomes(j, r)
    BY <1>6 DEF Becomes
  <2> HIDE DEF base
  <2>4. r \in JobRecord /\ r.id = job[j].id /\ r.track = job[j].track /\ r.pc = "write"
        /\ r.base = base
    BY <1>1, <2>1 DEF JobRecord, Bytes
  <2> HIDE DEF r
  <2>5. ~raced => Fits(r, MyFile(j))
    BY <2>2, <2>4 DEF Fits
  <2> QED BY <1>1, <1>2, <1>3, <1>6, <2>3, <2>4, <2>5, JobMoved
<1> QED BY <1>4, <1>5, <1>6 DEF JobResponse

LEMMA JobThrowsKeeps ==
    ASSUME IInv, NEW j \in Job, JobThrows(j)
    PROVE  IInv'
<1>1. /\ TypeOK /\ job[j] # None /\ job[j].pc = "refetch" /\ Moves(j, "unwind")
      /\ UNCHANGED <<queue, nextId, cat, file, activeIds, controllers, userPaused, net, cap,
                     scheduled, pump, sweep, raced, refused>>
  BY DEF IInv, JobThrows, At, store, runtime
<1>2. /\ net' \in {"online", "down"} /\ events' \in 0..MaxEvents
      /\ sweep' \in [Sweep -> SweepRecord \cup {None}] /\ SweepsFollow
  BY <1>1, EventSays, SweepsStay DEF JobThrows, TypeOK
<1>3. PICK r \in JobRecord :
          /\ Becomes(j, r) /\ r.id = job[j].id /\ r.track = job[j].track /\ r.pc = "unwind"
  BY <1>1, MovesSays
<1>4. /\ MyFile(j) \in File /\ Sets(j, MyFile(j)) /\ (~raced => Sound(MyFile(j)))
  BY <1>1, MyFileSays
<1>5. Fits(r, MyFile(j))
  BY <1>3 DEF Fits
<1> QED BY <1>1, <1>2, <1>3, <1>4, <1>5, JobMoved

LEMMA JobRejectedKeeps ==
    ASSUME IInv, NEW j \in Job, JobRejected(j)
    PROVE  IInv'
<1>1. /\ TypeOK /\ job[j] # None /\ job[j].pc \in {"fetch", "refetch"}
      /\ Outcome(j, "failed", FALSE) /\ Event
      /\ UNCHANGED <<queue, nextId, cat, file, activeIds, controllers, userPaused, net, cap,
                     scheduled, pump, sweep, raced, refused>>
  BY DEF IInv, JobRejected, At, store, runtime
<1>2. /\ net' \in {"online", "down"} /\ events' \in 0..MaxEvents
      /\ sweep' \in [Sweep -> SweepRecord \cup {None}] /\ SweepsFollow
  BY <1>1, EventSays, SweepsStay DEF TypeOK
<1>3. PICK r \in JobRecord :
          /\ Becomes(j, r) /\ r.id = job[j].id /\ r.track = job[j].track
          /\ r.pc = "apply" /\ r.outcome = "failed"
  BY <1>1, OutcomeSays
<1>4. /\ MyFile(j) \in File /\ Sets(j, MyFile(j)) /\ (~raced => Sound(MyFile(j)))
  BY <1>1, MyFileSays
<1>5. Fits(r, MyFile(j))
  BY <1>3 DEF Fits
<1> QED BY <1>1, <1>2, <1>3, <1>4, <1>5, JobMoved

LEMMA JobBodyKeeps ==
    ASSUME IInv, NEW j \in Job, JobBody(j)
    PROVE  IInv'
<1> DEFINE base == job[j].base
<1>1. /\ TypeOK /\ job[j] # None /\ job[j].pc = "write" /\ job[j] \in JobRecord
      /\ base \in {"clean", "gap"}
      /\ UNCHANGED <<queue, nextId, cat, activeIds, controllers, userPaused, cap, scheduled,
                     pump, raced, refused>>
  BY MyFileSays DEF IInv, JobBody, At, JobRecord
<1>2. /\ MyFile(j) \in File /\ (file' = file => Sets(j, MyFile(j)))
      /\ ~raced => Sound(MyFile(j)) /\ base = "clean"
  BY <1>1, MyFileSays DEF Fits
<1>3. sweep' = sweep /\ net' = net =>
          /\ net' \in {"online", "down"}
          /\ sweep' \in [Sweep -> SweepRecord \cup {None}] /\ SweepsFollow
  BY <1>1, SweepsStay DEF TypeOK
<1>4. CASE Stops(j) /\ UNCHANGED <<file, net, sweep, events>>
  <2>1. PICK r \in JobRecord :
            /\ Becomes(j, r) /\ r.id = job[j].id /\ r.track = job[j].track /\ r.pc = "aborted"
    BY <1>1, <1>4, StopsSays
  <2>2. Fits(r, MyFile(j))
    BY <2>1 DEF Fits
  <2>3. events' \in 0..MaxEvents
    BY <1>4, EventSays
  <2> QED BY <1>1, <1>2, <1>3, <1>4, <2>1, <2>2, <2>3, JobMoved
<1>5. CASE /\ Sets(j, Closed(MyFile(j), base))
           /\ job' = [job EXCEPT ![j] = [@ EXCEPT !.pc = "close", !.base = "clean"]]
           /\ UNCHANGED <<net, sweep, events>>
  <2> DEFINE r == [job[j] EXCEPT !.pc = "close", !.base = "clean"]
             f == Closed(MyFile(j), base)
  <2>1. r \in JobRecord /\ r.id = job[j].id /\ r.track = job[j].track /\ r.pc = "close"
    BY <1>1 DEF JobRecord
  <2>2. Becomes(j, r) /\ Sets(j, f)
    BY <1>5 DEF Becomes
  <2>3. f \in File /\ f.final = MyFile(j).final /\ (base = "clean" => f.part = "whole")
    BY <1>1, <1>2, FileSays
  <2>4. events' \in 0..MaxEvents
    BY <1>5, EventSays
  <2> HIDE DEF r, f
  <2>5. ~raced => Fits(r, f) /\ Sound(f)
    BY <1>2, <2>1, <2>3 DEF Fits, Sound
  <2> QED BY <1>1, <1>3, <1>5, <2>1, <2>2, <2>3, <2>4, <2>5, JobMoved
<1>6. CASE /\ Event
           /\ Sets(j, Short(MyFile(j), base))
           /\ Outcome(j, "network", FALSE) /\ UNCHANGED <<net, sweep>>
  <2> DEFINE f == Short(MyFile(j), base)
  <2>1. PICK r \in JobRecord :
            /\ Becomes(j, r) /\ r.id = job[j].id /\ r.track = job[j].track
            /\ r.pc = "apply" /\ r.outcome = "network"
    BY <1>1, <1>6, OutcomeSays
  <2>2. f \in File /\ f.final = MyFile(j).final /\ (base = "clean" => f.part = "prefix")
    BY <1>1, <1>2, FileSays
  <2>3. events' \in 0..MaxEvents /\ Sets(j, f)
    BY <1>6, EventSays
  <2> HIDE DEF f
  <2>4. ~raced => Fits(r, f) /\ Sound(f)
    BY <1>2, <2>1, <2>2 DEF Fits, Sound
  <2> QED BY <1>1, <1>3, <1>6, <2>1, <2>2, <2>3, <2>4, JobMoved
<1>7. CASE /\ Event
           /\ UNCHANGED <<net, sweep>> \/ \E s \in Sweep : Failure(s)
           /\ Outcome(j, "network", FALSE) /\ UNCHANGED file
  <2>1. PICK r \in JobRecord :
            /\ Becomes(j, r) /\ r.id = job[j].id /\ r.track = job[j].track
            /\ r.pc = "apply" /\ r.outcome = "network"
    BY <1>1, <1>7, OutcomeSays
  <2>2. Fits(r, MyFile(j)) /\ events' \in 0..MaxEvents
    BY <1>7, <2>1, EventSays DEF Fits
  <2>3. /\ net' \in {"online", "down"}
        /\ sweep' \in [Sweep -> SweepRecord \cup {None}] /\ SweepsFollow
    BY <1>3, <1>7, FailureSays
  <2> QED BY <1>1, <1>2, <1>7, <2>1, <2>2, <2>3, JobMoved
<1> QED BY <1>4, <1>5, <1>6, <1>7 DEF JobBody

LEMMA JobClosedKeeps ==
    ASSUME IInv, NEW j \in Job, JobClosed(j)
    PROVE  IInv'
<1> DEFINE f == Cleared(MyFile(j))
<1>1. /\ TypeOK /\ job[j] # None /\ job[j].pc = "close" /\ Moves(j, "swap") /\ Sets(j, f)
      /\ UNCHANGED <<queue, nextId, cat, activeIds, controllers, userPaused, net, cap, scheduled,
                     pump, sweep, events, raced, refused>>
  BY DEF IInv, JobClosed, At, runtime
<1>2. /\ net' \in {"online", "down"} /\ events' \in 0..MaxEvents
      /\ sweep' \in [Sweep -> SweepRecord \cup {None}] /\ SweepsFollow
  BY <1>1, SweepsStay DEF TypeOK
<1>3. PICK r \in JobRecord :
          /\ Becomes(j, r) /\ r.id = job[j].id /\ r.track = job[j].track /\ r.pc = "swap"
  BY <1>1, MovesSays
<1>4. /\ MyFile(j) \in File
      /\ ~raced => Sound(MyFile(j)) /\ Fits(job[j], MyFile(j))
  BY <1>1, MyFileSays
<1>5. f \in File /\ f.final = "none" /\ f.part = MyFile(j).part
  BY <1>4, FileSays
<1> HIDE DEF f
<1>6. ~raced => Fits(r, f) /\ Sound(f)
  BY <1>1, <1>3, <1>4, <1>5 DEF Fits, Sound
<1> QED BY <1>1, <1>2, <1>3, <1>5, <1>6, JobMoved

LEMMA JobPromotesKeeps ==
    ASSUME IInv, NEW j \in Job, JobPromotes(j)
    PROVE  IInv'
<1>1. /\ TypeOK /\ job[j] # None /\ job[j].pc = "swap" /\ job[j] \in JobRecord /\ queue \in Rows
      /\ UNCHANGED <<queue, nextId, cat, activeIds, controllers, userPaused, net, cap, scheduled,
                     pump, sweep, events, raced, refused>>
  BY MyFileSays DEF IInv, TypeOK, JobPromotes, At, runtime
<1>2. /\ net' \in {"online", "down"} /\ events' \in 0..MaxEvents
      /\ sweep' \in [Sweep -> SweepRecord \cup {None}] /\ SweepsFollow
  BY <1>1, SweepsStay DEF TypeOK
<1>3. /\ MyFile(j) \in File /\ (file' = file => Sets(j, MyFile(j)))
      /\ ~raced => Sound(MyFile(j)) /\ MyFile(j).part = "whole"
  BY <1>1, MyFileSays DEF Fits
<1>4. CASE Unfinished(j) /\ UNCHANGED file
  <2>1. PICK r \in JobRecord :
            /\ Becomes(j, r) /\ r.id = job[j].id /\ r.track = job[j].track
            /\ r.pc = "aborted" \/ (r.pc = "apply" /\ r.outcome = "failed")
    BY <1>1, <1>4, UnfinishedSays
  <2>2. Fits(r, MyFile(j))
    BY <2>1 DEF Fits
  <2> QED BY <1>1, <1>2, <1>3, <1>4, <2>1, <2>2, JobMoved
<1>5. CASE Sets(j, Created(MyFile(j))) /\ Moves(j, "copy")
  <2> DEFINE f == Created(MyFile(j))
  <2>1. PICK r \in JobRecord :
            /\ Becomes(j, r) /\ r.id = job[j].id /\ r.track = job[j].track /\ r.pc = "copy"
    BY <1>1, <1>5, MovesSays
  <2>2. f \in File /\ f.final = "empty" /\ f.part = MyFile(j).part
    BY <1>3, FileSays
  <2>3. Sets(j, f)
    BY <1>5
  <2> HIDE DEF f
  <2>4. ~raced => Fits(r, f) /\ Sound(f)
    BY <1>3, <2>1, <2>2 DEF Fits, Sound
  <2> QED BY <1>1, <1>2, <2>1, <2>2, <2>3, <2>4, JobMoved
<1>6. CASE /\ Sets(j, Promoted(MyFile(j)))
           /\ job' = [job EXCEPT ![j] = [@ EXCEPT !.pc = "verify",
                                                  !.read = StateOf(queue, job[j].id)]]
  <2> DEFINE read == StateOf(queue, job[j].id)
             r == [job[j] EXCEPT !.pc = "verify", !.read = read]
             f == Promoted(MyFile(j))
  <2>1. read \in State \cup {None}
    BY <1>1, StateOfSays DEF JobRecord
  <2>2. Becomes(j, r) /\ Sets(j, f)
    BY <1>6 DEF Becomes
  <2> HIDE DEF read
  <2>3. r \in JobRecord /\ r.id = job[j].id /\ r.track = job[j].track /\ r.pc = "verify"
    BY <1>1, <2>1 DEF JobRecord
  <2>4. f \in File /\ f.final = MyFile(j).part /\ f.part = "none"
    BY <1>3, FileSays
  <2> HIDE DEF r, f
  <2>5. ~raced => Fits(r, f) /\ Sound(f)
    BY <1>3, <2>3, <2>4 DEF Fits, Sound
  <2> QED BY <1>1, <1>2, <2>2, <2>3, <2>4, <2>5, JobMoved
<1> QED BY <1>4, <1>5, <1>6 DEF JobPromotes

LEMMA JobCopiesKeeps ==
    ASSUME IInv, NEW j \in Job, JobCopies(j)
    PROVE  IInv'
<1>1. /\ TypeOK /\ job[j] # None /\ job[j].pc = "copy"
      /\ Event \/ events' = events
      /\ UNCHANGED <<queue, nextId, cat, activeIds, controllers, userPaused, net, cap, scheduled,
                     pump, sweep, raced, refused>>
  BY DEF IInv, JobCopies, At, runtime
<1>2. /\ net' \in {"online", "down"} /\ events' \in 0..MaxEvents
      /\ sweep' \in [Sweep -> SweepRecord \cup {None}] /\ SweepsFollow
  BY <1>1, EventSays, SweepsStay DEF TypeOK
<1>3. /\ MyFile(j) \in File /\ (file' = file => Sets(j, MyFile(j)))
      /\ ~raced => Sound(MyFile(j)) /\ MyFile(j).part = "whole"
  BY <1>1, MyFileSays DEF Fits
<1>4. CASE Unfinished(j) /\ UNCHANGED file
  <2>1. PICK r \in JobRecord :
            /\ Becomes(j, r) /\ r.id = job[j].id /\ r.track = job[j].track
            /\ r.pc = "aborted" \/ (r.pc = "apply" /\ r.outcome = "failed")
    BY <1>1, <1>4, UnfinishedSays
  <2>2. Fits(r, MyFile(j))
    BY <2>1 DEF Fits
  <2> QED BY <1>1, <1>2, <1>3, <1>4, <2>1, <2>2, JobMoved
<1>5. CASE Sets(j, Copied(MyFile(j))) /\ Moves(j, "drop")
  <2> DEFINE f == Copied(MyFile(j))
  <2>1. PICK r \in JobRecord :
            /\ Becomes(j, r) /\ r.id = job[j].id /\ r.track = job[j].track /\ r.pc = "drop"
    BY <1>1, <1>5, MovesSays
  <2>2. f \in File /\ f.final = MyFile(j).part /\ f.part = MyFile(j).part
    BY <1>3, FileSays
  <2>3. Sets(j, f)
    BY <1>5
  <2> HIDE DEF f
  <2>4. ~raced => Fits(r, f) /\ Sound(f)
    BY <1>3, <2>1, <2>2 DEF Fits, Sound
  <2> QED BY <1>1, <1>2, <2>1, <2>2, <2>3, <2>4, JobMoved
<1> QED BY <1>4, <1>5 DEF JobCopies

LEMMA JobDropsKeeps ==
    ASSUME IInv, NEW j \in Job, JobDrops(j)
    PROVE  IInv'
<1> DEFINE read == StateOf(queue, job[j].id)
           r == [job[j] EXCEPT !.pc = "verify", !.read = read]
           f == Discarded(MyFile(j))
<1>1. /\ TypeOK /\ job[j] # None /\ job[j].pc = "drop" /\ job[j] \in JobRecord /\ queue \in Rows
      /\ Becomes(j, r) /\ Sets(j, f)
      /\ UNCHANGED <<queue, nextId, cat, activeIds, controllers, userPaused, net, cap, scheduled,
                     pump, sweep, events, raced, refused>>
  BY MyFileSays DEF IInv, TypeOK, JobDrops, At, runtime, Becomes
<1>2. /\ net' \in {"online", "down"} /\ events' \in 0..MaxEvents
      /\ sweep' \in [Sweep -> SweepRecord \cup {None}] /\ SweepsFollow
  BY <1>1, SweepsStay DEF TypeOK
<1>3. /\ MyFile(j) \in File
      /\ ~raced => Sound(MyFile(j)) /\ MyFile(j).final = "whole"
  BY <1>1, MyFileSays DEF Fits
<1>4. read \in State \cup {None}
  BY <1>1, StateOfSays DEF JobRecord
<1> HIDE DEF read
<1>5. r \in JobRecord /\ r.id = job[j].id /\ r.track = job[j].track /\ r.pc = "verify"
  BY <1>1, <1>4 DEF JobRecord
<1>6. f \in File /\ f.final = MyFile(j).final /\ f.part = "none"
  BY <1>3, FileSays
<1> HIDE DEF r, f
<1>7. ~raced => Fits(r, f) /\ Sound(f)
  BY <1>3, <1>5, <1>6 DEF Fits, Sound
<1> QED BY <1>1, <1>2, <1>5, <1>6, <1>7, JobMoved

LEMMA JobVerifiesKeeps ==
    ASSUME IInv, NEW j \in Job, JobVerifies(j)
    PROVE  IInv'
<1>1. /\ TypeOK /\ job[j] # None /\ job[j].pc = "verify"
      /\ UNCHANGED <<store, runtime, pump, sweep, events, raced, refused>>
  BY DEF IInv, JobVerifies, At
<1>2. ~raced => MyFile(j).final = "whole"
  BY <1>1, MyFileSays DEF Fits
<1>3. PICK files \in BOOLEAN, o \in {"canceled", "done"} : Outcome(j, o, files)
  BY DEF JobVerifies
<1>4. PICK r \in JobRecord :
          /\ Becomes(j, r) /\ r.id = job[j].id /\ r.track = job[j].track /\ r.pc = "apply"
  BY <1>1, <1>3, OutcomeSays
<1>5. ~raced => Fits(r, MyFile(j))
  BY <1>2, <1>4 DEF Fits
<1> QED BY <1>1, <1>4, <1>5, JobTurned

LEMMA JobStoppedKeeps ==
    ASSUME IInv, NEW j \in Job, JobStopped(j)
    PROVE  IInv'
<1> DEFINE o == IF job[j].read = "canceled" THEN "canceled"
                ELSE IF job[j].why = "demote" THEN "queued" ELSE "paused"
<1>1. /\ TypeOK /\ job[j] # None /\ job[j].pc = "aborted"
      /\ \E files \in BOOLEAN : Outcome(j, o, files)
      /\ UNCHANGED <<store, runtime, pump, sweep, events, raced, refused>>
  BY DEF IInv, JobStopped, At
<1>2. o \in {"canceled", "queued", "paused"}
  OBVIOUS
<1> HIDE DEF o
<1>3. PICK r \in JobRecord :
          /\ Becomes(j, r) /\ r.id = job[j].id /\ r.track = job[j].track
          /\ r.pc = "apply" /\ r.outcome = o
  BY <1>1, <1>2, OutcomeSays
<1>4. Fits(r, MyFile(j))
  BY <1>2, <1>3 DEF Fits
<1> QED BY <1>1, <1>3, <1>4, JobTurned

LEMMA JobUnwindsKeeps ==
    ASSUME IInv, NEW j \in Job, JobUnwinds(j)
    PROVE  IInv'
<1>1. /\ TypeOK /\ job[j] # None /\ job[j] \in JobRecord
      /\ controllers' = [controllers EXCEPT ![job[j].id] = None]
      /\ activeIds' = activeIds \ {job[j].id}
      /\ scheduled' = TRUE
      /\ job' = [job EXCEPT ![j] = None]
      /\ UNCHANGED <<queue, nextId, cat, file, userPaused, net, cap, pump, sweep, events,
                     raced, refused>>
  BY MyFileSays DEF IInv, JobUnwinds, At, store
<1>2. job' \in [Job -> JobRecord \cup {None}]
      /\ \A k \in Job : job'[k] # None => k # j /\ job'[k] = job[k]
  BY <1>1 DEF TypeOK
<1>3. controllers' \in [Id -> Job \cup {None}] /\ activeIds' \subseteq Id
  BY <1>1 DEF TypeOK
<1>4. TypeOK'
  BY <1>1, <1>2, <1>3 DEF TypeOK
<1>5. JobsFollow
  BY <1>2 DEF JobsFollow
<1>6. Follows
  BY <1>1, <1>5, QueueStays, PumpsStay, SweepsStay DEF Follows
<1>7. ~raced' => FileControl' /\ FilesHold'
  BY <1>1, <1>2, FilesStay
<1> QED BY <1>4, <1>6, <1>7, Kept

LEMMA JobAppliesKeeps ==
    ASSUME IInv, NEW j \in Job, JobApplies(j)
    PROVE  IInv'
<1> DEFINE i == job[j].id
           t == job[j].track
           read == job[j].read
           k == Kind(j)
           f == EndFile(j)
<1>1. /\ TypeOK /\ job[j] # None /\ job[j].pc = "apply" /\ job[j] \in JobRecord
      /\ queue \in Rows /\ i \in Id /\ t \in Track /\ i < nextId /\ i \in Nat
      /\ job \in [Job -> JobRecord \cup {None}] /\ file \in [Track -> File]
  <2>1. job[j] # None /\ job[j].pc = "apply"
    BY DEF JobApplies, At
  <2> QED BY <2>1, MyFileSays, DownloadQueueAssumption DEF IInv, TypeOK, JobRecord, KeyControl, Id
<1>2. /\ raced' = (raced \/ StateOf(queue, i) # read)
      /\ scheduled' = TRUE /\ Applied(j, "unwind", None) /\ Sets(j, f)
      /\ UNCHANGED <<nextId, activeIds, controllers, userPaused, net, cap, pump, events, refused>>
  BY DEF JobApplies, Emit
<1>3. raced' \in BOOLEAN /\ (raced => raced')
  BY <1>2
<1>4. PICK r \in JobRecord : Becomes(j, r) /\ r.id = i /\ r.track = t /\ r.pc = "unwind"
  BY <1>1, <1>2, AppliedSays
<1>5. /\ f \in File /\ (~raced => Sound(f))
      /\ ~raced => Sound(MyFile(j)) /\ Fits(job[j], MyFile(j)) /\ t \notin cat
  BY <1>1, MyFileSays, EndFileSays
<1>6. /\ \/ /\ k = "done" /\ Deletes(j)
            /\ cat' = IF read = "canceled" THEN cat ELSE cat \cup {t}
         \/ (Deletes(j) \/ UNCHANGED queue) /\ UNCHANGED cat
         \/ read # None /\ Puts(j, EndState(k, read)) /\ UNCHANGED cat
      /\ \/ sweep' = sweep
         \/ \E s \in Sweep : Spawn(s, [Freeze EXCEPT !.by = j])
  BY DEF JobApplies
<1>7. sweep' \in [Sweep -> SweepRecord \cup {None}] /\ SweepsFollow
      /\ (sweep' = sweep \/ \A s \in Sweep : sweep'[s] # sweep[s] => sweep'[s].track = None)
  <2>1. CASE sweep' = sweep
    BY <1>1, <2>1, SweepsStay DEF TypeOK
  <2>2. CASE \E s \in Sweep : Spawn(s, [Freeze EXCEPT !.by = j])
    <3> DEFINE new == [Freeze EXCEPT !.by = j]
    <3>1. PICK s \in Sweep : sweep' = [sweep EXCEPT ![s] = new]
      BY <2>2 DEF Spawn
    <3>2. /\ Freeze \in SweepRecord /\ Freeze.track = None
          /\ \A n \in Id : Freeze.rows[n] # None => Freeze.rows[n] = queue[n]
      BY <1>1, ListsSays DEF Freeze
    <3>3. new \in SweepRecord /\ new.track = None /\ new.rows = Freeze.rows
      BY <3>2 DEF SweepRecord
    <3> HIDE DEF new
    <3>4. Succeeds(s, new)
      BY <3>2, <3>3 DEF Succeeds
    <3>5. \A q \in Sweep : sweep'[q] # sweep[q] => sweep'[q] = new
      BY <1>1, <3>1 DEF TypeOK
    <3> QED BY <3>1, <3>3, <3>4, <3>5, SweepBecomes
  <2> QED BY <1>6, <2>1, <2>2
<1> HIDE DEF k, f
<1>8. queue' \in Rows /\ QueueFollows
  <2>1. CASE Deletes(j)
    BY <1>1, <2>1, QueueDeletes DEF Deletes
  <2>2. CASE UNCHANGED queue
    BY <1>1, <2>2, QueueStays
  <2>3. CASE read # None /\ Puts(j, EndState(k, read))
    <3>1. EndState(k, read) \in State
      BY DEF EndState, State
    <3> QED BY <1>1, <1>2, <2>3, <3>1, PutsSays
  <2> QED BY <1>6, <2>1, <2>2, <2>3
<1>9. job' \in [Job -> JobRecord \cup {None}] /\ JobsFollow
  BY <1>1, <1>4, JobBecomes
<1>10. TypeOK'
  <2>1. file' \in [Track -> File]
    BY <1>1, <1>2, <1>5 DEF Sets
  <2>2. cat' \subseteq Track
    BY <1>1, <1>6 DEF TypeOK
  <2> QED BY <1>1, <1>2, <1>3, <1>7, <1>8, <1>9, <2>1, <2>2 DEF TypeOK
<1>11. ASSUME ~raced' PROVE \A u \in cat' : u \in cat \/ Arrives(u)
  <2>1. CASE cat' = cat
    BY <2>1
  <2>2. CASE k = "done" /\ read # "canceled" /\ cat' = cat \cup {t} /\ Deletes(j)
    <3> PICK u : u = t
      OBVIOUS
    <3>1. ~raced /\ HolderControl /\ CatalogControl
      BY <1>3, <1>11 DEF IInv
    <3>2. \A p \in Pump : Put(p) => pump[p].track # u
      BY <1>1, <3>1 DEF HolderControl
    <3>3. \A l \in Job : job'[l] # None /\ job'[l].track = u => job'[l].pc = "unwind"
      <4>1. job'[j] = r /\ \A l \in Job : l # j => job'[l] = job[l]
        BY <1>1, <1>4 DEF Becomes
      <4> QED BY <1>1, <1>4, <3>1, <4>1 DEF HolderControl
    <3>4. Settled(u)'
      <4>1. pump' = pump
        BY <1>2
      <4> QED BY <3>2, <3>3, <4>1 DEF Settled, Put
    <3>5. \A n \in Id : queue'[n] # None => queue'[n].track # u
      <4>1. Only(i, u)
        BY <1>1, <3>1 DEF HolderControl
      <4>2. queue' = [queue EXCEPT ![i] = None]
        BY <2>2 DEF Deletes
      <4> QED BY <1>1, <4>1, <4>2 DEF Only, Rows
    <3>6. \A s \in Sweep : sweep'[s] # None => sweep'[s].track # u
      <4>1. \A s \in Sweep : sweep[s] # None => sweep[s].track # u
        BY <1>1, <3>1, NoneSays DEF CatalogControl, Settled
      <4> QED BY <1>1, <1>7, <4>1, NoneSays
    <3>7. Arrives(u)
      BY <3>4, <3>5, <3>6 DEF Arrives
    <3> QED BY <2>2, <3>7
  <2> QED BY <1>6, <2>1, <2>2
<1>12. Follows
  BY <1>2, <1>3, <1>7, <1>8, <1>9, <1>11, PumpsStay DEF Follows
<1>13. ASSUME ~raced' PROVE FileControl' /\ FilesHold'
  <2>1. ~raced
    BY <1>3, <1>13
  <2>2. Fits(r, f)
    BY <1>4 DEF Fits
  <2>3. CASE cat' = cat
    BY <1>1, <1>2, <1>4, <1>5, <2>1, <2>2, <2>3, JobFile
  <2>4. CASE k = "done" /\ read # "canceled" /\ cat' = cat \cup {t}
    <3>1. job[j].outcome = "done"
      BY <2>4 DEF k, Kind
    <3>2. f = MyFile(j)
      BY <2>4 DEF f, k, EndFile
    <3>3. f.final = "whole"
      BY <1>1, <1>5, <2>1, <3>1, <3>2 DEF Fits
    <3>4. \A u \in cat' : u \in cat \/ u = t
      BY <2>4
    <3> QED BY <1>1, <1>2, <1>4, <1>5, <2>1, <2>2, <3>3, <3>4, JobFile
  <2> QED BY <1>6, <2>3, <2>4
<1> QED BY <1>10, <1>12, <1>13, Kept

LEMMA JobApplyThrowsKeeps ==
    ASSUME IInv, NEW j \in Job, JobApplyThrows(j)
    PROVE  IInv'
<1> DEFINE read == StateOf(queue, job[j].id)
           f == EndFile(j)
<1>1. /\ TypeOK /\ job[j] # None /\ job[j].pc = "apply" /\ job[j] \in JobRecord
      /\ Event /\ Sets(j, f) /\ Applied(j, "caught", read)
      /\ raced' = (raced \/ read # job[j].read)
      /\ UNCHANGED <<queue, nextId, cat, activeIds, controllers, userPaused, net, cap, scheduled,
                     pump, sweep, refused>>
  BY MyFileSays DEF IInv, JobApplyThrows, At, runtime
<1>2. /\ queue' \in Rows /\ QueueFollows /\ scheduled' \in BOOLEAN /\ events' \in 0..MaxEvents
      /\ raced' \in BOOLEAN /\ (raced => raced')
  BY <1>1, EventSays, QueueStays DEF TypeOK
<1>3. read \in State \cup {None}
  BY <1>1, StateOfSays DEF TypeOK, JobRecord
<1>4. f \in File /\ (~raced => Sound(f))
  BY <1>1, EndFileSays
<1> HIDE DEF read, f
<1>5. PICK r \in JobRecord :
          /\ Becomes(j, r) /\ r.id = job[j].id /\ r.track = job[j].track /\ r.pc = "caught"
  BY <1>1, <1>3, AppliedSays
<1>6. Fits(r, f)
  BY <1>5 DEF Fits
<1> QED BY <1>1, <1>2, <1>4, <1>5, <1>6, JobWrote

LEMMA JobCaughtKeeps ==
    ASSUME IInv, NEW j \in Job, JobCaught(j)
    PROVE  IInv'
<1>1. /\ TypeOK /\ job[j] # None /\ job[j].pc = "caught" /\ Applied(j, "unwind", None)
      /\ UNCHANGED <<nextId, cat, file, activeIds, controllers, userPaused, net, cap, pump, sweep,
                     refused>>
  BY DEF IInv, JobCaught, At
<1>2. /\ queue' \in Rows /\ QueueFollows /\ scheduled' \in BOOLEAN /\ events' \in 0..MaxEvents
      /\ raced' \in BOOLEAN /\ (raced => raced')
  <2>1. queue' = queue => queue' \in Rows /\ QueueFollows
    BY <1>1, QueueStays DEF TypeOK
  <2>2. CASE /\ IF job[j].read = "active" THEN Puts(j, "failed") ELSE UNCHANGED queue
             /\ raced' = (raced \/ StateOf(queue, job[j].id) # job[j].read)
             /\ Emit /\ UNCHANGED events
    <3>1. ASSUME job[j].read = "active" PROVE queue' \in Rows /\ QueueFollows
      <4>1. "failed" \in State /\ "active" \in State
        BY DEF State
      <4>2. job[j].read # None
        BY <3>1, <4>1, NoneSays
      <4> QED BY <1>1, <2>2, <3>1, <4>1, <4>2, PutsSays
    <3>2. scheduled' \in BOOLEAN /\ events' \in 0..MaxEvents
      BY <2>2, EventSays DEF Emit
    <3> QED BY <2>1, <2>2, <3>1, <3>2
  <2>3. CASE /\ Event
             /\ Emit \/ UNCHANGED scheduled
             /\ UNCHANGED <<queue, raced>>
    <3>1. scheduled' \in BOOLEAN
      BY <1>1, <2>3 DEF TypeOK, Emit
    <3>2. events' \in 0..MaxEvents
      BY <2>3, EventSays
    <3> QED BY <1>1, <2>1, <2>3, <3>1, <3>2 DEF TypeOK
  <2> QED BY <2>2, <2>3 DEF JobCaught
<1>3. PICK r \in JobRecord :
          /\ Becomes(j, r) /\ r.id = job[j].id /\ r.track = job[j].track /\ r.pc = "unwind"
  BY <1>1, AppliedSays
<1>4. /\ MyFile(j) \in File /\ Sets(j, MyFile(j)) /\ (~raced => Sound(MyFile(j)))
  BY <1>1, MyFileSays
<1>5. Fits(r, MyFile(j))
  BY <1>3 DEF Fits
<1> QED BY <1>1, <1>2, <1>3, <1>4, <1>5, JobWrote

-----------------------------------------------------------------------------
(* The user and the network.                                               *)

\* What only begins a command, or touches the runtime.
LEMMA RuntimeMoved ==
    ASSUME IInv, TypeOK', UNCHANGED <<store, pump, raced>>, SweepsFollow,
           \/ job' = job
           \/ \E I : \E why \in Reason : job' = Aborted(I, why)
    PROVE  IInv'
<1>1. TypeOK /\ UNCHANGED <<queue, nextId, cat, file>>
  BY DEF IInv, store
<1>2. JobsFollow
  BY JobsStay, AbortedFollows
<1>3. Follows
  BY <1>1, <1>2, QueueStays, PumpsStay DEF Follows
<1>4. ~raced' => FileControl' /\ FilesHold'
  <2>1. CASE job' = job
    BY <1>1, <2>1, FilesStay
  <2>2. CASE \E I : \E why \in Reason : job' = Aborted(I, why)
    <3>1. PICK I : \E why \in Reason : job' = Aborted(I, why)
      BY <2>2
    <3>2. PICK why \in Reason : job' = Aborted(I, why)
      BY <3>1
    <3> QED BY <1>1, <3>2, AbortedSays, FilesStay
  <2> QED BY <2>1, <2>2
<1> QED BY <1>3, <1>4, Kept

LEMMA RecoverKeeps ==
    ASSUME IInv, NEW s \in Sweep, Recover(s)
    PROVE  IInv'
<1>1. sweep' \in [Sweep -> SweepRecord \cup {None}] /\ SweepsFollow
  <2>1. CASE UNCHANGED sweep
    BY <2>1, SweepsStay DEF IInv, TypeOK
  <2>2. CASE Spawn(s, Unpause)
    BY <2>2, SpawnLists DEF Unpause
  <2> QED BY <2>1, <2>2 DEF Recover
<1>2. TypeOK'
  BY <1>1 DEF IInv, TypeOK, Recover, Emit, store
<1> QED BY <1>1, <1>2, RuntimeMoved DEF Recover

LEMMA DropKeeps ==
    ASSUME IInv, NEW s \in Sweep, Drop(s)
    PROVE  IInv'
<1>1. /\ sweep' \in [Sweep -> SweepRecord \cup {None}] /\ SweepsFollow
      /\ net' \in {"online", "down"} /\ events' \in 0..MaxEvents
  BY FailureSays, EventSays DEF Drop
<1>2. TypeOK'
  BY <1>1 DEF IInv, TypeOK, Drop, store
<1> QED BY <1>1, <1>2, RuntimeMoved DEF Drop

LEMMA PauseAllKeeps ==
    ASSUME IInv, NEW s \in Sweep, PauseAll(s)
    PROVE  IInv'
<1>1. /\ sweep' \in [Sweep -> SweepRecord \cup {None}] /\ SweepsFollow
      /\ events' \in 0..MaxEvents
  BY SpawnLists, EventSays DEF PauseAll, Freeze
<1>2. TypeOK'
  BY <1>1 DEF IInv, TypeOK, PauseAll, store
<1> QED BY <1>1, <1>2, RuntimeMoved DEF PauseAll

LEMMA ResumeAllKeeps ==
    ASSUME IInv, NEW s \in Sweep, ResumeAll(s)
    PROVE  IInv'
<1>1. /\ sweep' \in [Sweep -> SweepRecord \cup {None}] /\ SweepsFollow
      /\ events' \in 0..MaxEvents
  BY SpawnLists, EventSays DEF ResumeAll, Reapply
<1>2. TypeOK'
  BY <1>1 DEF IInv, TypeOK, ResumeAll, store
<1> QED BY <1>1, <1>2, RuntimeMoved DEF ResumeAll

LEMMA ClearFinishedKeeps ==
    ASSUME IInv, NEW s \in Sweep, ClearFinished(s)
    PROVE  IInv'
<1>1. /\ sweep' \in [Sweep -> SweepRecord \cup {None}] /\ SweepsFollow
      /\ events' \in 0..MaxEvents
  BY SpawnLists, EventSays DEF ClearFinished
<1>2. TypeOK'
  BY <1>1 DEF IInv, TypeOK, ClearFinished, store, runtime
<1> QED BY <1>1, <1>2, RuntimeMoved DEF ClearFinished

LEMMA ClearAllKeeps ==
    ASSUME IInv, NEW s \in Sweep, ClearAll(s)
    PROVE  IInv'
<1>1. /\ sweep' \in [Sweep -> SweepRecord \cup {None}] /\ SweepsFollow
      /\ events' \in 0..MaxEvents
  BY SpawnLists, EventSays DEF ClearAll
<1>2. "clear" \in Reason /\ job' = Aborted(Id, "clear")
  BY DEF ClearAll, Reason
<1>3. job' \in [Job -> JobRecord \cup {None}]
  BY <1>2, AbortedFollows
<1>4. TypeOK'
  BY <1>1, <1>3 DEF IInv, TypeOK, ClearAll, store
<1> QED BY <1>1, <1>2, <1>4, RuntimeMoved DEF ClearAll

LEMMA SetCapKeeps ==
    ASSUME IInv, NEW s \in Sweep, NEW v \in Cap, SetCap(s, v)
    PROVE  IInv'
<1>1. sweep' \in [Sweep -> SweepRecord \cup {None}] /\ SweepsFollow /\ scheduled' \in BOOLEAN
  <2>1. CASE scheduled' = TRUE /\ UNCHANGED sweep
    BY <2>1, SweepsStay DEF IInv, TypeOK
  <2>2. CASE /\ Spawn(s, [Lists("demote", {"active"}) EXCEPT !.why = "demote"])
             /\ UNCHANGED scheduled
    <3> DEFINE listed == Lists("demote", {"active"})
               new == [listed EXCEPT !.why = "demote"]
    <3>1. /\ listed \in SweepRecord /\ listed.track = None
          /\ \A i \in Id : listed.rows[i] # None => listed.rows[i] = queue[i]
      BY ListsSays DEF IInv
    <3>2. sweep' = [sweep EXCEPT ![s] = new] /\ scheduled' = scheduled
      BY <2>2 DEF Spawn
    <3> HIDE DEF listed
    <3>3. new \in SweepRecord /\ new.track = None /\ new.rows = listed.rows
      BY <3>1 DEF SweepRecord, Reason
    <3> HIDE DEF new
    <3>4. Succeeds(s, new)
      BY <3>1, <3>3 DEF Succeeds
    <3> QED BY <3>2, <3>3, <3>4, SweepBecomes DEF IInv, TypeOK
  <2> QED BY <2>1, <2>2 DEF SetCap
<1>2. TypeOK'
  BY <1>1, EventSays DEF IInv, TypeOK, SetCap, store
<1> QED BY <1>1, <1>2, RuntimeMoved DEF SetCap

LEMMA OneRow ==
    ASSUME IInv, NEW s \in Sweep, NEW i \in Id, queue[i] # None,
           NEW k \in {"cancel", "retry", "flush"}, NEW why \in Reason,
           Spawn(s, [Lists(k, {}) EXCEPT !.rows[i] = queue[i], !.why = why])
    PROVE  sweep' \in [Sweep -> SweepRecord \cup {None}] /\ SweepsFollow
<1> DEFINE listed == Lists(k, {})
           rows == [listed.rows EXCEPT ![i] = queue[i]]
           new == [listed EXCEPT !.rows = rows, !.why = why]
<1>1. /\ listed \in SweepRecord /\ listed.track = None
      /\ \A n \in Id : listed.rows[n] # None => listed.rows[n] = queue[n]
  BY ListsSays DEF IInv
<1>2. sweep' = [sweep EXCEPT ![s] = new]
  BY DEF Spawn
<1> HIDE DEF listed
<1>3. rows \in Rows /\ \A n \in Id : rows[n] # None => rows[n] = queue[n]
  BY <1>1 DEF SweepRecord, Rows, IInv, TypeOK
<1> HIDE DEF rows
<1>4. new \in SweepRecord /\ new.track = None /\ new.rows = rows
  BY <1>1, <1>3 DEF SweepRecord
<1> HIDE DEF new
<1>5. Succeeds(s, new)
  BY <1>3, <1>4 DEF Succeeds
<1> QED BY <1>2, <1>4, <1>5, SweepBecomes

LEMMA CancelOrRetryKeeps ==
    ASSUME IInv, NEW s \in Sweep, NEW i \in Id, CancelOrRetry(s, i)
    PROVE  IInv'
<1>1. sweep' \in [Sweep -> SweepRecord \cup {None}] /\ SweepsFollow
  BY OneRow DEF CancelOrRetry, Reason
<1>2. TypeOK'
  BY <1>1, EventSays DEF IInv, TypeOK, CancelOrRetry, store, runtime
<1> QED BY <1>1, <1>2, RuntimeMoved DEF CancelOrRetry

LEMMA ProgressDueKeeps ==
    ASSUME IInv, NEW s \in Sweep, NEW j \in Job, ProgressDue(s, j)
    PROVE  IInv'
<1>1. PICK i \in Id : i = job[j].id
  BY MyFileSays DEF ProgressDue, JobRecord
<1>2. queue[i] # None
  BY <1>1 DEF ProgressDue, StateOf
<1>3. sweep' \in [Sweep -> SweepRecord \cup {None}] /\ SweepsFollow
  <2>1. Spawn(s, [Lists("flush", {}) EXCEPT !.rows[i] = queue[i], !.why = "pause"])
    <3>1. Lists("flush", {}) \in SweepRecord /\ Lists("flush", {}).why = "pause"
      BY ListsSays DEF IInv, Lists
    <3> QED BY <1>1, <3>1 DEF ProgressDue, SweepRecord
  <2> QED BY <1>2, <2>1, OneRow DEF Reason
<1>4. TypeOK'
  BY <1>3, EventSays DEF IInv, TypeOK, ProgressDue, store, runtime
<1> QED BY <1>3, <1>4, RuntimeMoved DEF ProgressDue

LEMMA RemoveKeeps ==
    ASSUME IInv, NEW s \in Sweep, NEW t \in Track, Remove(s, t)
    PROVE  IInv'
<1> DEFINE listed == Lists("remove", {})
           new == [listed EXCEPT !.track = t]
<1>1. /\ TypeOK /\ t \in cat /\ cat' = cat \ {t} /\ sweep' = [sweep EXCEPT ![s] = new] /\ Event
      /\ UNCHANGED <<queue, nextId, file, activeIds, controllers, userPaused, net, cap, scheduled,
                     pump, job, raced, refused>>
  BY DEF IInv, Remove, Spawn, runtime
<1>2. /\ listed \in SweepRecord
      /\ \A i \in Id : listed.rows[i] # None => listed.rows[i] = queue[i]
  BY <1>1, ListsSays
<1> HIDE DEF listed
<1>3. new \in SweepRecord /\ new.track = t /\ new.rows = listed.rows
  BY <1>2 DEF SweepRecord
<1> HIDE DEF new
<1>4. Succeeds(s, new)
  BY <1>1, <1>2, <1>3 DEF Succeeds
<1>5. sweep' \in [Sweep -> SweepRecord \cup {None}] /\ SweepsFollow
  BY <1>1, <1>3, <1>4, SweepBecomes
<1>6. TypeOK'
  BY <1>1, <1>5, EventSays DEF TypeOK
<1>7. Follows
  BY <1>1, <1>5, QueueStays, JobsStay, PumpsStay DEF Follows
<1>8. ~raced' => FileControl' /\ FilesHold'
  BY <1>1, FilesStay
<1> QED BY <1>6, <1>7, <1>8, Kept

\* The page is loaded again: nothing runs but the one command it begins with.
LEMMA ReloadKeeps ==
    ASSUME IInv, NEW s \in Sweep, Reload(s)
    PROVE  IInv'
<1>1. /\ TypeOK /\ queue \in Rows /\ Event
      /\ queue' = Marked(queue, InState(queue, {"active"}), "paused")
      /\ activeIds' = {} /\ controllers' = [i \in Id |-> None]
      /\ net' = "online" /\ scheduled' = FALSE
      /\ pump' = [p \in Pump |-> None] /\ job' = [j \in Job |-> None]
      /\ sweep' = [q \in Sweep |-> IF q = s THEN Reapply ELSE None]
      /\ UNCHANGED <<nextId, cat, file, userPaused, cap, raced, refused>>
  BY DEF IInv, TypeOK, Reload
<1>2. queue' \in Rows /\ QueueFollows
  <2> DEFINE I == InState(queue, {"active"})
  <2>1. \A i \in I : i \in Id /\ queue[i] # None
    BY <1>1, InStateSays
  <2>2. \A i \in I : queue'[i] \in Row /\ queue'[i].track = queue[i].track
    BY <1>1, <2>1, MarkedSays DEF State
  <2> HIDE DEF I
  <2>3. \A i \in Id : i \notin I => queue'[i] = queue[i]
    BY <1>1 DEF Marked, I
  <2>4. queue' = [i \in Id |-> queue'[i]]
    BY <1>1 DEF Marked
  <2>5. \A i \in Id : queue'[i] \in Row \cup {None}
    BY <1>1, <2>2, <2>3 DEF Rows
  <2>6. queue' \in Rows
    BY <2>4, <2>5 DEF Rows
  <2>7. \A i \in Id : queue'[i] # None => queue[i] # None /\ queue'[i].track = queue[i].track
    BY <2>1, <2>2, <2>3
  <2>8. Unique(queue) /\ \A i \in Id : queue[i] # None => i < nextId
    BY DEF IInv, KeyControl
  <2> QED BY <2>6, <2>7, <2>8 DEF QueueFollows, Unique
<1>3. Reapply \in SweepRecord /\ Succeeds(s, Reapply)
  BY <1>1, ListsSays DEF Reapply, Succeeds
<1>4. sweep' \in [Sweep -> SweepRecord \cup {None}] /\ SweepsFollow
  <2>1. \A q \in Sweep : sweep'[q] = None \/ (q = s /\ sweep'[q] = Reapply)
    BY <1>1
  <2>2. sweep' \in [Sweep -> SweepRecord \cup {None}]
    BY <1>1, <1>3
  <2> QED BY <1>3, <2>1, <2>2 DEF SweepsFollow, Succeeds
<1>5. TypeOK'
  BY <1>1, <1>2, <1>4, EventSays DEF TypeOK
<1>6. Follows
  BY <1>1, <1>2, <1>4 DEF Follows, PumpsFollow, JobsFollow
<1>7. ~raced' => FileControl' /\ FilesHold'
  BY <1>1, FilesStay
<1> QED BY <1>5, <1>6, <1>7, Kept

\* A row of the track is added under a key that nobody has read.
LEMMA AddsRow ==
    ASSUME IInv, NEW t \in Track, NEW row \in Row, row.track = t, t \notin cat,
           NEW left \in Rows, \A i \in Id : left[i] = queue[i] \/ left[i] = None,
           \A i \in Id : left[i] # None => left[i].track # t,
           nextId <= MaxId, queue' = [left EXCEPT ![nextId] = row], nextId' = nextId + 1,
           raced => raced', ~raced' => ~HasJob(t),
           TypeOK', UNCHANGED <<cat, file, pump, job, sweep>>
    PROVE  IInv'
<1>1. /\ TypeOK /\ KeyControl /\ nextId \in Id /\ nextId \in Nat /\ queue \in Rows
      /\ \A i \in Id : i \in Nat
  BY DownloadQueueAssumption DEF IInv, TypeOK, Id
<1>2. queue'[nextId] = row /\ row # None
  BY <1>1, NoneSays DEF Rows
<1>3. \A i \in Id : i # nextId /\ queue'[i] # None =>
          /\ queue[i] # None /\ queue'[i] = queue[i] /\ queue'[i].track # t
  BY <1>1 DEF Rows
<1>4. /\ \A p \in Pump : pump[p] # None => pump[p].id \in Id \ {nextId} /\ pump[p].id < nextId'
      /\ \A j \in Job : job[j] # None => job[j].id \in Id \ {nextId} /\ job[j].id < nextId'
      /\ \A s \in Sweep : sweep[s] # None =>
             \A i \in Id : sweep[s].rows[i] # None => i # nextId /\ i < nextId'
  <2>1. \A i \in Id : i < nextId => i # nextId /\ i < nextId'
    BY <1>1
  <2>2. \A p \in Pump : pump[p] # None => pump[p].id \in Id /\ pump[p].id < nextId
    BY <1>1 DEF KeyControl, TypeOK, PumpRecord
  <2>3. \A j \in Job : job[j] # None => job[j].id \in Id /\ job[j].id < nextId
    BY <1>1 DEF KeyControl, TypeOK, JobRecord
  <2>4. \A s \in Sweep : sweep[s] # None =>
             \A i \in Id : sweep[s].rows[i] # None => i < nextId
    BY <1>1 DEF KeyControl
  <2> QED BY <2>1, <2>2, <2>3, <2>4
<1>5. KeyControl'
  <2>1. \A i, k \in Id : i # k /\ queue'[i] # None /\ queue'[k] # None => queue'[i].track # queue'[k].track
    BY <1>1, <1>2, <1>3 DEF KeyControl, Unique
  <2>2. \A i \in Id : queue'[i] # None => i < nextId'
    BY <1>1, <1>3 DEF KeyControl
  <2>3. \A p \in Pump : pump[p] # None => pump[p].id < nextId'
    BY <1>1, <1>4
  <2>4. \A j \in Job : job[j] # None => job[j].id < nextId'
    BY <1>1, <1>4
  <2>5. \A s \in Sweep : sweep[s] # None =>
            \A i \in Id : sweep[s].rows[i] # None => i < nextId'
    BY <1>1, <1>4
  <2> QED BY <2>1, <2>2, <2>3, <2>4, <2>5 DEF KeyControl, Unique
<1>6. ASSUME ~raced'
      PROVE  CopyControl' /\ HolderControl' /\ CatalogControl' /\ FileControl' /\ FilesHold
  <2>1. /\ CopyControl /\ HolderControl /\ CatalogControl /\ FileControl /\ FilesHold /\ ~HasJob(t)
    BY <1>6 DEF IInv
  <2>2. CopyControl'
    <3>1. \A i \in Id \ {nextId} : \A u : Agrees(i, u) => (queue'[i] # None => queue'[i].track = u)
      BY <1>3 DEF Agrees
    <3>2. \A p \in Pump : pump[p] # None =>
              (queue'[pump[p].id] # None => queue'[pump[p].id].track = pump[p].track)
      BY <1>4, <2>1, <3>1 DEF CopyControl
    <3>3. \A j \in Job : job[j] # None =>
              (queue'[job[j].id] # None => queue'[job[j].id].track = job[j].track)
      BY <1>4, <2>1, <3>1 DEF CopyControl
    <3>4. \A s \in Sweep : sweep[s] # None => \A i \in Id : sweep[s].rows[i] # None =>
              (queue'[i] # None => queue'[i].track = sweep[s].rows[i].track)
      BY <1>4, <2>1, <3>1 DEF CopyControl
    <3> QED BY <3>2, <3>3, <3>4 DEF CopyControl, Agrees
  <2>3. HolderControl'
    <3>1. \A p \in Pump : Put(p) => Only(pump[p].id, pump[p].track)'
      BY <1>2, <1>3, <2>1 DEF HolderControl, Only, HasJob, Put
    <3>2. \A j \in Job : job[j] # None => Only(job[j].id, job[j].track)'
      BY <1>2, <1>3, <2>1 DEF HolderControl, Only, HasJob
    <3>3. \A p \in Pump : Put(p)' <=> Put(p)
      BY DEF Put
    <3> QED BY <2>1, <3>1, <3>2, <3>3 DEF HolderControl
  <2>4. CatalogControl'
    <3>1. \A u : Settled(u)' <=> Settled(u)
      BY DEF Settled, Put
    <3>2. \A u \in cat : \A i \in Id : queue'[i] # None => queue'[i].track # u
      BY <1>2, <1>3, <2>1 DEF CatalogControl
    <3>3. \A s \in Sweep : sweep[s] # None /\ sweep[s].track # None =>
              sweep[s].track \notin cat /\ Settled(sweep[s].track)'
      BY <2>1 DEF CatalogControl, Settled, Put
    <3> QED BY <2>1, <3>1, <3>2, <3>3 DEF CatalogControl
  <2>5. FileControl'
    BY <2>1 DEF FileControl
  <2> QED BY <2>1, <2>2, <2>3, <2>4, <2>5
<1>7. FilesHold'
  BY <1>6 DEF FilesHold
<1> QED BY <1>5, <1>6, <1>7 DEF IInv

LEMMA EnqueueKeeps ==
    ASSUME IInv, NEW t \in Track, Enqueue(t)
    PROVE  IInv'
<1> DEFINE rows == {i \in Id : queue[i] # None /\ queue[i].track = t}
           old == InState(queue, {"failed", "canceled"}) \cap rows
           left == [i \in Id |-> IF i \in old THEN None ELSE queue[i]]
           st == IF CanPump THEN "pending" ELSE "paused"
           row == [track |-> t, state |-> st]
<1>1. /\ TypeOK /\ queue \in Rows /\ Event
      /\ \/ UNCHANGED <<queue, nextId>>
         \/ queue' = left /\ UNCHANGED nextId
         \/ /\ rows = old /\ t \notin cat /\ nextId <= MaxId
            /\ queue' = [left EXCEPT ![nextId] = row]
            /\ nextId' = nextId + 1
      /\ raced' = (raced \/ (queue' # queue /\ HasJob(t)))
      /\ scheduled' = TRUE
      /\ UNCHANGED <<cat, file, activeIds, controllers, userPaused, net, cap, pump, job, sweep,
                     refused>>
  BY DEF IInv, TypeOK, Enqueue, Emit
<1>2. left \in Rows /\ \A i \in Id : left[i] = queue[i] \/ left[i] = None
  BY <1>1 DEF Rows
<1>3. rows = old => \A i \in Id : left[i] # None => left[i].track # t
  OBVIOUS
<1>4. row \in Row /\ row.track = t
  BY DEF Row, State
<1>5. events' \in 0..MaxEvents /\ raced' \in BOOLEAN /\ (raced => raced')
  BY <1>1, EventSays
<1> HIDE DEF rows, old, left, st, row
<1>6. ASSUME queue' \in Rows, QueueFollows, nextId' = nextId PROVE IInv'
  <2>1. TypeOK'
    BY <1>1, <1>5, <1>6 DEF TypeOK
  <2>2. Follows
    BY <1>1, <1>5, <1>6, JobsStay, PumpsStay, SweepsStay DEF Follows
  <2>3. ~raced' => FileControl' /\ FilesHold'
    BY <1>1, <1>5, FilesStay
  <2> QED BY <2>1, <2>2, <2>3, Kept
<1>7. CASE UNCHANGED <<queue, nextId>>
  BY <1>1, <1>6, <1>7, QueueStays
<1>8. CASE queue' = left /\ UNCHANGED nextId
  BY <1>2, <1>6, <1>8, QueueDrops
<1>9. CASE /\ rows = old /\ t \notin cat /\ nextId <= MaxId
           /\ queue' = [left EXCEPT ![nextId] = row]
           /\ nextId' = nextId + 1
  <2>1. nextId \in Id /\ nextId \in 1..MaxId /\ nextId' \in 1..(MaxId + 1)
    BY <1>1, <1>9, DownloadQueueAssumption DEF TypeOK, Id
  <2>2. queue' \in Rows
    BY <1>2, <1>4, <1>9 DEF Rows
  <2>3. TypeOK'
    BY <1>1, <1>5, <2>1, <2>2 DEF TypeOK
  <2>4. ~raced' => ~HasJob(t)
    <3>1. queue' # queue
      <4>1. queue[nextId] = None
        BY <2>1 DEF IInv, KeyControl, Id
      <4>2. queue'[nextId] = row /\ row # None
        BY <1>2, <1>4, <1>9, <2>1, NoneSays DEF Rows
      <4> QED BY <4>1, <4>2
    <3> QED BY <1>1, <3>1
  <2>5. \A i \in Id : left[i] # None => left[i].track # t
    BY <1>3, <1>9
  <2> QED BY <1>1, <1>2, <1>4, <1>5, <1>9, <2>3, <2>4, <2>5, AddsRow
<1> QED BY <1>1, <1>7, <1>8, <1>9

-----------------------------------------------------------------------------
(* The invariant.                                                          *)

\* Every track has been added once.
LEMMA OrderSays ==
    /\ Order \in [1..Cardinality(Track) -> Track]
    /\ \A i, k \in 1..Cardinality(Track) : i # k => Order[i] # Order[k]
<1> DEFINE n == Cardinality(Track)
           full(order) == \A t \in Track : \E i \in DOMAIN order : order[i] = t
<1>1. IsFiniteSet(Track) /\ n \in Nat /\ ExistsBijection(1..n, Track)
  BY DownloadQueueAssumption, FS_CardinalityType
<1>2. PICK f : f \in Bijection(1..n, Track)
  BY <1>1 DEF ExistsBijection
<1>3. f \in [1..n -> Track] /\ full(f)
  BY <1>2 DEF Bijection, Surjection
<1>4. Order = CHOOSE order \in [1..n -> Track] : full(order)
  BY DEF Order
<1> HIDE DEF full
<1>5. Order \in [1..n -> Track] /\ full(Order)
  BY <1>3, <1>4
<1>6. Order \in Surjection(1..n, Track)
  BY <1>5 DEF Surjection, full
<1>7. IsFiniteSet(1..n) /\ Cardinality(1..n) = n
  BY <1>1, FS_Interval
<1>8. Order \in Injection(1..n, Track)
  BY <1>6, <1>7, FS_SurjSameCardinalityImpliesInj
<1> QED BY <1>5, <1>8 DEF Injection, IsInjective

LEMMA InitHolds ==
    ASSUME Init
    PROVE  IInv
<1> DEFINE n == Cardinality(Track)
<1>1. /\ n \in Nat /\ MaxId \in Nat /\ n \in 1..MaxId
      /\ Cap # {} /\ MaxEvents \in Nat
  BY DownloadQueueAssumption
<1>2. Order \in [1..n -> Track] /\ \A i, k \in 1..n : i # k => Order[i] # Order[k]
  BY OrderSays
<1>3. \A i \in Id : /\ i \in Nat
                    /\ i <= n => /\ queue[i] = [track |-> Order[i], state |-> "pending"]
                                 /\ i \in 1..n /\ queue[i] \in Row /\ queue[i].track = Order[i]
                    /\ ~(i <= n) => queue[i] = None
  BY <1>1, <1>2 DEF Init, Id, Row, State
<1>4. queue \in Rows
  <2>1. queue = [i \in Id |-> queue[i]]
    BY DEF Init
  <2>2. \A i \in Id : queue[i] \in Row \cup {None}
    BY <1>3
  <2> QED BY <2>1, <2>2 DEF Rows
<1>5. \A t \in Track : file[t] = Absent /\ Absent \in File
  BY DEF Init, Absent, File, Bytes
<1>6. TypeOK
  <2>1. nextId \in 1..(MaxId + 1)
    BY <1>1 DEF Init
  <2>2. file \in [Track -> File]
    BY <1>5 DEF Init
  <2>3. /\ controllers \in [Id -> Job \cup {None}]
        /\ pump \in [Pump -> PumpRecord \cup {None}]
        /\ job \in [Job -> JobRecord \cup {None}]
        /\ sweep \in [Sweep -> SweepRecord \cup {None}]
    BY DEF Init
  <2>4. /\ cat \subseteq Track /\ activeIds \subseteq Id
        /\ userPaused \in BOOLEAN /\ net \in {"online", "down"} /\ cap \in Cap
        /\ scheduled \in BOOLEAN /\ raced \in BOOLEAN /\ refused \in BOOLEAN
    BY DEF Init
  <2>5. events \in 0..MaxEvents
    BY <1>1 DEF Init
  <2> QED BY <1>4, <2>1, <2>2, <2>3, <2>4, <2>5 DEF TypeOK
<1>7. KeyControl
  <2>1. Unique(queue)
    BY <1>2, <1>3 DEF Unique
  <2>2. \A i \in Id : queue[i] # None => i < nextId
    BY <1>1, <1>3 DEF Init
  <2> QED BY <2>1, <2>2 DEF Init, KeyControl
<1>8. CopyControl /\ HolderControl /\ CatalogControl
  BY DEF Init, CopyControl, HolderControl, CatalogControl, Put
<1>9. FileControl /\ FilesHold
  BY <1>5 DEF Init, FileControl, FilesHold, Absent
<1> QED BY <1>6, <1>7, <1>8, <1>9 DEF IInv

LEMMA StepHolds ==
    ASSUME IInv, [Next]_vars
    PROVE  IInv'
<1>1. CASE \E p \in Pump : PumpStep(p)
  BY <1>1, PumpBeginKeeps, PumpTakeKeeps, PumpStartKeeps DEF PumpStep
<1>2. CASE \E j \in Job : JobStep(j)
  BY <1>2, JobCheckKeeps, JobRefreshedKeeps, JobOfflineKeeps, JobResponseKeeps, JobThrowsKeeps,
     JobRejectedKeeps, JobBodyKeeps, JobClosedKeeps, JobPromotesKeeps, JobCopiesKeeps,
     JobDropsKeeps, JobVerifiesKeeps, JobStoppedKeeps, JobAppliesKeeps, JobApplyThrowsKeeps,
     JobCaughtKeeps, JobUnwindsKeeps DEF JobStep
<1>3. CASE \E s \in Sweep : SweepStep(s)
  BY <1>3, SweepReapplyKeeps, SweepFreezeKeeps, SweepUnpauseKeeps, SweepAbortKeeps, SweepItemKeeps,
     SweepClearKeeps, SweepDemoteKeeps, SweepFlushKeeps, SweepRemoveKeeps DEF SweepStep
<1>4. CASE \E s \in Sweep : User(s)
  BY <1>4, PauseAllKeeps, ResumeAllKeeps, ClearFinishedKeeps, ClearAllKeeps, ReloadKeeps,
     CancelOrRetryKeeps, SetCapKeeps, RemoveKeeps DEF User
<1>5. CASE \E s \in Sweep : Recover(s) \/ Drop(s)
  BY <1>5, RecoverKeeps, DropKeeps
<1>6. CASE \E s \in Sweep, j \in Job : ProgressDue(s, j)
  BY <1>6, ProgressDueKeeps
<1>7. CASE \E t \in Track : Enqueue(t)
  BY <1>7, EnqueueKeeps
<1>8. CASE UNCHANGED vars
  <2>1. TypeOK'
    BY <1>8 DEF vars, store, runtime, IInv, TypeOK
  <2>2. /\ UNCHANGED <<queue, nextId, cat, file, pump, job, sweep, raced>>
    BY <1>8 DEF vars, store
  <2>3. Follows
    BY <2>2, QueueStays, PumpsStay, JobsStay, SweepsStay DEF Follows
  <2>4. ~raced' => FileControl' /\ FilesHold'
    BY <2>2, FilesStay
  <2> QED BY <2>1, <2>3, <2>4, Kept
<1> QED BY <1>1, <1>2, <1>3, <1>4, <1>5, <1>6, <1>7, <1>8 DEF Next

\* The queue's keys and rows, the holders of a file, the catalog and the files stay as
\* the invariant describes them, through every pump, job and command.
THEOREM Inductive == Spec => []IInv
<1>1. Init => IInv
  BY InitHolds
<1>2. IInv /\ [Next]_vars => IInv'
  BY StepHolds
<1> QED BY <1>1, <1>2, PTL DEF Spec

\* The store, the files, the runtime and every function that runs keep their types.
THEOREM TypeCorrect == Spec => []TypeOK
<1>1. IInv => TypeOK
  BY DEF IInv
<1> QED BY <1>1, Inductive, PTL

\* No part of a track stands under a final name, and every track of the catalog has its
\* whole file, whatever is aborted, cut off, resumed, copied, canceled, removed or loaded
\* again.
THEOREM FilesAreWhole == Spec => []FilesHold
<1>1. IInv => FilesHold
  BY DEF IInv
<1> QED BY <1>1, Inductive, PTL
=============================================================================
