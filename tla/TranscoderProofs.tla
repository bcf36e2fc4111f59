--------------------------- MODULE TranscoderProofs ---------------------------
(***************************************************************************)
(* Proofs about Transcoder for every set of paths, profiles and callers    *)
(* and every cap: IInv is inductive, and with it the safety properties.    *)
(***************************************************************************)
EXTENDS Transcoder, FiniteSetTheorems, FunctionTheorems, TLAPS

-----------------------------------------------------------------------------
(* Deques.                                                                 *)

\* The interval 1..n has n elements.
LEMMA IntervalCard ==
    ASSUME NEW n \in Nat
    PROVE  IsFiniteSet(1..n) /\ Cardinality(1..n) = n
<1>1. 1 \in Int /\ n \in Int
    OBVIOUS
<1>2. /\ IsFiniteSet(1..n)
      /\ Cardinality(1..n) = IF 1 > n THEN 0 ELSE n - 1 + 1
    BY <1>1, FS_Interval, Zenon
<1> QED BY <1>2

\* Filtering a sequence: the n-th element kept exists for every n up to the
\* number of elements kept, since counting them is one to one.
LEMMA KeptCounted ==
    ASSUME NEW S, NEW s \in Seq(S), NEW gone
    PROVE  /\ Cardinality(Kept(s, gone)) \in Nat
           /\ \A n \in 1..Cardinality(Kept(s, gone)) :
                 \E i \in Kept(s, gone) : Cardinality(Kept(s, gone) \cap 1..i) = n
           /\ \A i, j \in Kept(s, gone) :
                 Cardinality(Kept(s, gone) \cap 1..i) = Cardinality(Kept(s, gone) \cap 1..j) => i = j
           /\ \A i \in Kept(s, gone) :
                 Cardinality(Kept(s, gone) \cap 1..i) \in 1..Cardinality(Kept(s, gone))
<1> DEFINE K == Kept(s, gone)
           upto(i) == K \cap 1..i
           rank == [i \in K |-> Cardinality(upto(i))]
<1>1. K \subseteq 1..Len(s)
    BY DEF Kept
<1>2. IsFiniteSet(K) /\ Cardinality(K) \in Nat
    <2>1. IsFiniteSet(1..Len(s))
        BY IntervalCard
    <2> HIDE DEF K
    <2>2. IsFiniteSet(K)
        BY <1>1, <2>1, FS_Subset
    <2> QED BY <2>2, FS_CardinalityType
<1>3. \A i \in K : /\ IsFiniteSet(upto(i))
                   /\ Cardinality(upto(i)) \in Nat
                   /\ Cardinality(upto(i)) <= Cardinality(K)
                   /\ Cardinality(upto(i)) # 0
    <2> SUFFICES ASSUME NEW i \in K
                 PROVE  /\ IsFiniteSet(upto(i))
                        /\ Cardinality(upto(i)) \in Nat
                        /\ Cardinality(upto(i)) <= Cardinality(K)
                        /\ Cardinality(upto(i)) # 0
        OBVIOUS
    <2>1. upto(i) \in SUBSET K
        OBVIOUS
    <2>2. i \in upto(i)
        BY <1>1
    <2> HIDE DEF upto
    <2>3. IsFiniteSet(upto(i)) /\ Cardinality(upto(i)) <= Cardinality(K)
        BY <2>1, <1>2, FS_Subset
    <2>4. Cardinality(upto(i)) # 0
        BY <2>2, <2>3, FS_EmptySet
    <2> QED BY <2>3, <2>4, FS_CardinalityType
<1>4. \A i, j \in K : i < j => Cardinality(upto(i)) < Cardinality(upto(j))
    <2> SUFFICES ASSUME NEW i \in K, NEW j \in K, i < j
                 PROVE  Cardinality(upto(i)) < Cardinality(upto(j))
        OBVIOUS
    <2>1. upto(i) \in SUBSET upto(j)
        BY <1>1
    <2>2. j \in upto(j) /\ j \notin upto(i)
        BY <1>1
    <2> HIDE DEF upto
    <2>3. Cardinality(upto(i)) <= Cardinality(upto(j))
        BY <2>1, <1>3, FS_Subset
    <2>4. Cardinality(upto(i)) # Cardinality(upto(j))
        BY <2>1, <2>2, <1>3, FS_Subset
    <2> QED BY <2>3, <2>4, <1>3
<1>5. \A i, j \in K : Cardinality(upto(i)) = Cardinality(upto(j)) => i = j
    <2> HIDE DEF upto
    <2> QED BY <1>1, <1>3, <1>4
<1>6. rank \in Injection(K, 1..Cardinality(K))
    <2> HIDE DEF upto
    <2>1. rank \in [K -> 1..Cardinality(K)]
        BY <1>2, <1>3
    <2> QED BY <2>1, <1>5 DEF Injection, IsInjective
<1>7. IsFiniteSet(1..Cardinality(K)) /\ Cardinality(1..Cardinality(K)) = Cardinality(K)
    BY <1>2, IntervalCard
<1>8. rank \in Surjection(K, 1..Cardinality(K))
    BY <1>6, <1>7, FS_Injection
<1>9. \A n \in 1..Cardinality(K) : \E i \in K : rank[i] = n
    BY <1>8, Zenon DEF Surjection
<1>10. \A i \in K : Cardinality(upto(i)) \in 1..Cardinality(K)
    <2> HIDE DEF upto
    <2> QED BY <1>2, <1>3
<1> QED
    BY <1>2, <1>5, <1>9, <1>10

\* Without keeps the order: what it returns, element by element.
LEMMA WithoutElements ==
    ASSUME NEW S, NEW s \in Seq(S), NEW gone
    PROVE  /\ Without(s, gone) \in Seq(S)
           /\ Elems(Without(s, gone)) = Elems(s) \ gone
           /\ Once(s) => Once(Without(s, gone))
<1> DEFINE K == Kept(s, gone)
           upto(i) == K \cap 1..i
           at(n) == CHOOSE i \in K : Cardinality(upto(i)) = n
           w == [n \in 1..Cardinality(K) |-> s[at(n)]]
<1>1. w = Without(s, gone)
    BY DEF Without
<1>2. /\ Cardinality(K) \in Nat
      /\ \A n \in 1..Cardinality(K) : \E i \in K : Cardinality(upto(i)) = n
      /\ \A i, j \in K : Cardinality(upto(i)) = Cardinality(upto(j)) => i = j
      /\ \A i \in K : Cardinality(upto(i)) \in 1..Cardinality(K)
    BY KeptCounted
<1>3. K = {i \in 1..Len(s) : s[i] \notin gone}
    BY DEF Kept
<1> HIDE DEF K, upto
<1>4. \A n \in 1..Cardinality(K) : at(n) \in K /\ Cardinality(upto(at(n))) = n
    BY <1>2
<1>5. \A i \in K : at(Cardinality(upto(i))) = i
    BY <1>2, <1>4
<1> HIDE DEF at
<1>6. w \in Seq(S)
    BY <1>2, <1>3, <1>4
<1>7. Elems(w) = Elems(s) \ gone
    <2>1. DOMAIN w = 1..Cardinality(K) /\ DOMAIN s = 1..Len(s)
        OBVIOUS
    <2>2. Elems(w) \subseteq Elems(s) \ gone
        BY <2>1, <1>3, <1>4 DEF Elems
    <2>3. ASSUME NEW x \in Elems(s) \ gone
          PROVE  x \in Elems(w)
        <3>1. PICK i \in 1..Len(s) : x = s[i]
            BY <2>1 DEF Elems
        <3>2. i \in K
            BY <3>1, <1>3
        <3>3. w[Cardinality(upto(i))] = x /\ Cardinality(upto(i)) \in DOMAIN w
            BY <3>1, <3>2, <1>2, <1>5, <2>1
        <3> QED BY <3>3 DEF Elems
    <2> QED BY <2>2, <2>3
<1>8. ASSUME Once(s) PROVE Once(w)
    <2> SUFFICES ASSUME NEW m \in DOMAIN w, NEW n \in DOMAIN w, w[m] = w[n]
                 PROVE  m = n
        BY DEF Once
    <2>1. m \in 1..Cardinality(K) /\ n \in 1..Cardinality(K)
        OBVIOUS
    <2>2. s[at(m)] = s[at(n)] /\ at(m) \in DOMAIN s /\ at(n) \in DOMAIN s
        BY <2>1, <1>3, <1>4
    <2>3. at(m) = at(n)
        BY <2>2, <1>8 DEF Once
    <2> QED BY <2>1, <2>3, <1>4
<1> QED BY <1>1, <1>6, <1>7, <1>8

\* deque.appendleft adds its element, and keeps the others apart.
LEMMA PrependElements ==
    ASSUME NEW S, NEW s \in Seq(S), NEW x \in S
    PROVE  /\ <<x>> \o s \in Seq(S)
           /\ Elems(<<x>> \o s) = Elems(s) \cup {x}
           /\ Once(s) /\ x \notin Elems(s) => Once(<<x>> \o s)
<1> DEFINE p == <<x>> \o s
<1>1. /\ p \in Seq(S)
      /\ Len(p) = Len(s) + 1
      /\ p[1] = x
      /\ \A i \in 1..Len(s) : p[i + 1] = s[i]
    OBVIOUS
<1>2. DOMAIN p = 1..(Len(s) + 1) /\ DOMAIN s = 1..Len(s) /\ Len(s) \in Nat
    BY <1>1
<1> HIDE DEF p
<1>3. \A i \in DOMAIN p : i = 1 \/ (i - 1 \in DOMAIN s /\ p[i] = s[i - 1])
    <2> SUFFICES ASSUME NEW i \in DOMAIN p, i # 1
                 PROVE  i - 1 \in DOMAIN s /\ p[i] = s[i - 1]
        OBVIOUS
    <2>1. i - 1 \in 1..Len(s) /\ (i - 1) + 1 = i
        BY <1>2
    <2> QED BY <2>1, <1>1, <1>2
<1>4. Elems(p) = Elems(s) \cup {x}
    <2>1. ASSUME NEW i \in DOMAIN p PROVE p[i] \in Elems(s) \cup {x}
        BY <1>1, <1>3 DEF Elems
    <2>2. x \in Elems(p)
        <3>1. 1 \in DOMAIN p
            BY <1>2
        <3> QED BY <3>1, <1>1 DEF Elems
    <2>3. ASSUME NEW i \in DOMAIN s PROVE s[i] \in Elems(p)
        <3>1. i + 1 \in DOMAIN p /\ p[i + 1] = s[i]
            BY <1>1, <1>2
        <3> QED BY <3>1 DEF Elems
    <2> QED BY <2>1, <2>2, <2>3 DEF Elems
<1>5. ASSUME Once(s), x \notin Elems(s) PROVE Once(p)
    <2> SUFFICES ASSUME NEW i \in DOMAIN p, NEW j \in DOMAIN p, p[i] = p[j]
                 PROVE  i = j
        BY DEF Once
    <2>1. CASE i = 1 /\ j = 1
        BY <2>1
    <2>2. CASE i = 1 /\ j # 1
        BY <2>2, <1>1, <1>3, <1>5 DEF Elems
    <2>3. CASE i # 1 /\ j = 1
        BY <2>3, <1>1, <1>3, <1>5 DEF Elems
    <2>4. CASE i # 1 /\ j # 1
        <3>1. i - 1 = j - 1
            BY <2>4, <1>3, <1>5 DEF Once
        <3> QED BY <3>1, <1>2
    <2> QED BY <2>1, <2>2, <2>3, <2>4
<1> QED BY <1>1, <1>4, <1>5 DEF p

\* deque.append adds its element, and keeps the others apart.
LEMMA AppendElements ==
    ASSUME NEW S, NEW s \in Seq(S), NEW x \in S
    PROVE  /\ Append(s, x) \in Seq(S)
           /\ Elems(Append(s, x)) = Elems(s) \cup {x}
           /\ Once(s) /\ x \notin Elems(s) => Once(Append(s, x))
<1> DEFINE a == Append(s, x)
<1>1. /\ a \in Seq(S)
      /\ a[Len(s) + 1] = x
      /\ \A i \in 1..Len(s) : a[i] = s[i]
      /\ DOMAIN a = 1..(Len(s) + 1) /\ DOMAIN s = 1..Len(s) /\ Len(s) \in Nat
    OBVIOUS
<1> HIDE DEF a
<1>2. \A i \in DOMAIN a : i = Len(s) + 1 \/ (i \in DOMAIN s /\ a[i] = s[i])
    BY <1>1
<1>3. Elems(a) = Elems(s) \cup {x}
    <2>1. Len(s) + 1 \in DOMAIN a /\ \A i \in DOMAIN s : i \in DOMAIN a
        BY <1>1
    <2> QED BY <1>1, <1>2, <2>1 DEF Elems
<1>4. ASSUME Once(s), x \notin Elems(s) PROVE Once(a)
    BY <1>1, <1>2, <1>4 DEF Once, Elems
<1> QED BY <1>1, <1>3, <1>4 DEF a

\* deque.popleft takes one element out and leaves the others.
LEMMA TailElements ==
    ASSUME NEW S, NEW s \in Seq(S), s # <<>>
    PROVE  /\ Head(s) \in S
           /\ Tail(s) \in Seq(S)
           /\ Elems(s) = Elems(Tail(s)) \cup {Head(s)}
           /\ Once(s) => Once(Tail(s)) /\ Head(s) \notin Elems(Tail(s))
<1> DEFINE r == Tail(s)
<1>1. /\ r \in Seq(S)
      /\ DOMAIN r = 1..(Len(s) - 1) /\ DOMAIN s = 1..Len(s) /\ Len(s) \in Nat \ {0}
      /\ \A i \in DOMAIN r : r[i] = s[i + 1]
      /\ Head(s) = s[1] /\ Head(s) \in S
    OBVIOUS
<1> HIDE DEF r
<1>2. \A i \in DOMAIN r : i + 1 \in DOMAIN s /\ i + 1 # 1
    BY <1>1
<1>3. \A i \in DOMAIN s : i = 1 \/ (i - 1 \in DOMAIN r /\ s[i] = r[i - 1])
    <2> SUFFICES ASSUME NEW i \in DOMAIN s, i # 1
                 PROVE  i - 1 \in DOMAIN r /\ s[i] = r[i - 1]
        OBVIOUS
    <2>1. i - 1 \in DOMAIN r /\ (i - 1) + 1 = i
        BY <1>1
    <2> QED BY <2>1, <1>1
<1>4. 1 \in DOMAIN s
    BY <1>1
<1>5. Elems(s) = Elems(r) \cup {Head(s)}
    BY <1>1, <1>2, <1>3, <1>4 DEF Elems
<1>6. ASSUME Once(s) PROVE Once(r) /\ Head(s) \notin Elems(r)
    <2>1. ASSUME NEW i \in DOMAIN r, NEW j \in DOMAIN r, r[i] = r[j] PROVE i = j
        <3>1. i + 1 = j + 1
            BY <2>1, <1>1, <1>2, <1>6 DEF Once
        <3> QED BY <3>1, <1>1
    <2>2. ASSUME NEW i \in DOMAIN r, Head(s) = r[i] PROVE FALSE
        BY <2>2, <1>1, <1>2, <1>4, <1>6 DEF Once
    <2> QED BY <2>1, <2>2 DEF Once, Elems
<1> QED BY <1>1, <1>5, <1>6 DEF r

-----------------------------------------------------------------------------
(* The helpers of the actions.                                             *)

\* "No current job" is not a key.
LEMMA NoneIsNoKey == None \notin Key
BY TranscoderAssumption DEF Key

\* The fields of a key without a job are fields of a job.
LEMMA BlankIsJob == Blank \in Job
BY DEF Blank, Job, PrewarmClass

\* A thread at rest is in a state of a call.
LEMMA NoCallIsCall ==
    NoCall \in [pc : {"idle", "enqueue", "wait", "serve"}, key : Key \cup {None}, req : Request]
BY DEF NoCall, Request, PrewarmClass

\* Preemption only raises the cancel flag of the current job, and raises it
\* when the job k outranks it.
LEMMA PreemptFacts ==
    ASSUME TypeOK, NEW jobs \in [Key -> Job], NEW k \in Key, PreemptIfOutranked(jobs, k)
    PROVE  /\ job' \in [Key -> Job]
           /\ proc' = proc \/ proc' = Terminated
           /\ \A x \in Key : /\ job'[x].urgent = jobs[x].urgent
                             /\ job'[x].class = jobs[x].class
                             /\ job'[x].purged = jobs[x].purged
                             /\ jobs[x].cancel => job'[x].cancel
                             /\ x # current => job'[x] = jobs[x]
           /\ current # None /\ current # k /\ Outranks(jobs, k, current) => job'[current].cancel
<1>1. CASE current # None /\ current # k /\ Outranks(jobs, k, current)
    <2>1. job' = [jobs EXCEPT ![current].cancel = TRUE] /\ proc' = Terminated /\ current \in Key
        BY <1>1 DEF PreemptIfOutranked, RequestCancel, TypeOK
    <2> QED BY <1>1, <2>1 DEF Job
<1>2. CASE ~(current # None /\ current # k /\ Outranks(jobs, k, current))
    BY <1>2 DEF PreemptIfOutranked
<1> QED BY <1>1, <1>2

\* Draining keeps the deques well formed and takes out exactly the keys.
LEMMA DrainFacts ==
    ASSUME TypeOK, NEW keys \in SUBSET Key, Drain(keys)
    PROVE  /\ queue' \in [Tier -> Seq(Key)]
           /\ \A t \in Tier : Elems(queue'[t]) = Elems(queue[t]) \ keys
           /\ \A t \in Tier : Once(queue[t]) => Once(queue'[t])
           /\ table' = table \ keys
           /\ caller' = Release(keys, "error")
           /\ Drained(keys) \in [Key -> Job]
<1>1. queue' = [t \in Tier |-> Without(queue[t], keys)]
    BY DEF Drain
<1>2. \A t \in Tier : queue[t] \in Seq(Key)
    BY DEF TypeOK
<1>3. Drained(keys) \in [Key -> Job]
    BY BlankIsJob DEF Drained, TypeOK
<1> QED BY <1>1, <1>2, <1>3, WithoutElements DEF Drain

\* _remove_from_prewarm takes k out of the prewarm deques only.
LEMMA RemovedFacts ==
    ASSUME TypeOK, NEW k \in Key
    PROVE  /\ RemovedFromPrewarm(k) \in [Tier -> Seq(Key)]
           /\ RemovedFromPrewarm(k)["urgent"] = queue["urgent"]
           /\ \A t \in PrewarmClass : Elems(RemovedFromPrewarm(k)[t]) = Elems(queue[t]) \ {k}
           /\ \A t \in Tier : Once(queue[t]) => Once(RemovedFromPrewarm(k)[t])
<1>1. \A t \in Tier : queue[t] \in Seq(Key)
    BY DEF TypeOK
<1>2. "urgent" \in Tier /\ \A t \in PrewarmClass : t \in Tier /\ t # "urgent"
    BY DEF Tier, PrewarmClass
<1> QED BY <1>1, <1>2, WithoutElements DEF RemovedFromPrewarm

\* Releasing ends the waits for the keys and starts none.
LEMMA ReleaseFacts ==
    ASSUME TypeOK, CallControl, NEW keys, NEW reply
    PROVE  LET rel == Release(keys, reply) IN
           /\ rel \in [Caller -> [pc  : {"idle", "enqueue", "wait", "serve"},
                                  key : Key \cup {None}, req : Request]]
           /\ \A c \in Caller : rel[c].pc # "idle" => rel[c].key \in Key
           /\ \A c \in Caller : rel[c].pc = "wait" =>
                  /\ caller[c].pc = "wait"
                  /\ rel[c].key = caller[c].key
                  /\ rel[c].key \notin keys
<1>1. \A c \in Caller : caller[c] \in [pc  : {"idle", "enqueue", "wait", "serve"},
                                      key : Key \cup {None}, req : Request]
    BY DEF TypeOK
<1>2. NoCall.pc = "idle"
    BY DEF NoCall
<1> QED BY <1>1, <1>2, NoCallIsCall DEF Release, CallControl

\* Only keys are queued.
LEMMA QueuedIsKeys == TypeOK => Queued \subseteq Key
BY DEF TypeOK, Queued, Elems

\* terminate() neither publishes a handle nor turns a failure into a success.
LEMMA TerminatedFacts ==
    proc \in ProcState =>
        /\ Terminated \in ProcState
        /\ Terminated = "spawned" <=> proc = "spawned"
        /\ Terminated = "ok" <=> proc = "ok"
BY DEF Terminated, ProcState

\* After its enqueue a call waits for its own key or is over.
LEMMA ReturnedFacts ==
    ASSUME TypeOK, CallControl, NEW c \in Caller, caller[c].pc = "enqueue", caller' = Returned(c)
    PROVE  /\ caller' \in [Caller -> [pc  : {"idle", "enqueue", "wait", "serve"},
                                     key : Key \cup {None}, req : Request]]
           /\ \A d \in Caller : caller'[d].pc # "idle" => caller'[d].key \in Key
           /\ \A d \in Caller : caller'[d].pc = "wait" =>
                  caller'[d].key = caller[d].key /\ (d = c \/ caller[d].pc = "wait")
<1>1. \A d \in Caller : caller[d] \in [pc  : {"idle", "enqueue", "wait", "serve"},
                                      key : Key \cup {None}, req : Request]
    BY DEF TypeOK
<1>2. NoCall.pc = "idle"
    BY DEF NoCall
<1>3. caller \in [Caller -> [pc  : {"idle", "enqueue", "wait", "serve"},
                             key : Key \cup {None}, req : Request]]
    BY DEF TypeOK
<1>4. caller' = [caller EXCEPT ![c] = IF caller[c].req.waits THEN [caller[c] EXCEPT !.pc = "wait"]
                                      ELSE NoCall]
    BY DEF Returned
<1>5. CASE caller[c].req.waits
    <2>1. caller' = [caller EXCEPT ![c] = [caller[c] EXCEPT !.pc = "wait"]]
        BY <1>4, <1>5
    <2> QED BY <1>1, <1>3, <2>1 DEF CallControl
<1>6. CASE ~caller[c].req.waits
    <2>1. caller' = [caller EXCEPT ![c] = NoCall]
        BY <1>4, <1>6
    <2> QED BY <1>1, <1>2, <1>3, <2>1, NoCallIsCall DEF CallControl
<1> QED BY <1>5, <1>6

-----------------------------------------------------------------------------
(* Type correctness and the control facts.                                 *)

Control == TypeOK /\ WorkerControl /\ CallControl

\* The control facts hold at the start of the process.
LEMMA ControlInit == Init => Control
<1> SUFFICES ASSUME Init PROVE Control
    OBVIOUS
<1>1. \A c \in Caller : caller[c] = NoCall
    BY DEF Init
<1>2. TypeOK
    <2>1. job \in [Key -> Job]
        BY BlankIsJob DEF Init
    <2>2. queue \in [Tier -> Seq(Key)]
        BY DEF Init
    <2>3. caller \in [Caller -> [pc  : {"idle", "enqueue", "wait", "serve"},
                                key : Key \cup {None}, req : Request]]
        BY NoCallIsCall DEF Init
    <2>4. store \in [Key -> {"absent", "whole", "torn"}]
        BY DEF Init
    <2>5. asked \in 0..MaxAsk
        BY TranscoderAssumption DEF Init
    <2>6. evict \in [pc : {"idle", "wait", "unlink"}, keys : SUBSET Key]
        BY DEF Init
    <2> QED BY <2>1, <2>2, <2>3, <2>4, <2>5, <2>6 DEF Init, TypeOK, ProcState
<1>3. WorkerControl
    BY DEF Init, WorkerControl
<1>4. CallControl
    BY <1>1 DEF CallControl, NoCall
<1> QED BY <1>2, <1>3, <1>4 DEF Control

\* Every step keeps the types, the worker's control facts and the calls' keys.
LEMMA ControlStep == Control /\ [Next]_vars => Control'
<1> SUFFICES ASSUME Control, [Next]_vars PROVE Control'
    OBVIOUS
<1> USE NoneIsNoKey
<1>t. TypeOK /\ WorkerControl /\ CallControl
    BY DEF Control
<1>q. \A t \in Tier : queue[t] \in Seq(Key)
    BY <1>t DEF TypeOK
<1>c. \A c \in Caller : caller[c] \in [pc  : {"idle", "enqueue", "wait", "serve"},
                                      key : Key \cup {None}, req : Request]
    BY <1>t DEF TypeOK
<1>1. ASSUME NEW c \in Caller, NEW k \in Key, NEW r \in Request, Look(c, k, r)
      PROVE  Control'
    <2> DEFINE Call == [pc : {"idle", "enqueue", "wait", "serve"}, key : Key \cup {None}, req : Request]
    <2>1. PICK call : /\ caller' = [caller EXCEPT ![c] = call]
                      /\ \/ call = [pc |-> "enqueue", key |-> k, req |-> r]
                         \/ call = [pc |-> "serve", key |-> k, req |-> r]
                         \/ call = NoCall
        BY <1>1 DEF Look
    <2>2. call \in Call /\ (call.pc # "idle" => call.key \in Key)
        <3>1. CASE call = NoCall
            BY <3>1, NoCallIsCall DEF NoCall
        <3>2. CASE call = [pc |-> "enqueue", key |-> k, req |-> r]
            BY <3>2
        <3>3. CASE call = [pc |-> "serve", key |-> k, req |-> r]
            BY <3>3
        <3> QED BY <2>1, <3>1, <3>2, <3>3
    <2>3. /\ caller' \in [Caller -> [pc  : {"idle", "enqueue", "wait", "serve"},
                                     key : Key \cup {None}, req : Request]]
          /\ CallControl'
        BY <2>1, <2>2, <1>t DEF TypeOK, CallControl
    <2>4. asked' \in 0..MaxAsk
        BY <1>1, <1>t, TranscoderAssumption DEF Look, TypeOK
    <2> QED BY <1>1, <1>t, <2>3, <2>4 DEF Look, Control, TypeOK, WorkerControl
<1>2. ASSUME NEW c \in Caller, EnqueueRefused(c) \/ EnqueueSkipped(c) \/ Serve(c)
      PROVE  Control'
    <2>1. NoCall.pc = "idle"
        BY DEF NoCall
    <2>2. caller' = [caller EXCEPT ![c] = NoCall]
        BY <1>2 DEF EnqueueRefused, EnqueueSkipped, Serve
    <2>3. /\ caller' \in [Caller -> [pc  : {"idle", "enqueue", "wait", "serve"},
                                     key : Key \cup {None}, req : Request]]
          /\ CallControl'
        BY <2>1, <2>2, <1>t, <1>c, NoCallIsCall DEF TypeOK, CallControl
    <2>4. UNCHANGED <<closed, stage, table, job, queue, current, wpc, proc, partial, store,
                      evict, asked>>
        BY <1>2 DEF EnqueueRefused, EnqueueSkipped, Serve
    <2> QED BY <1>t, <2>3, <2>4 DEF Control, TypeOK, WorkerControl
<1>3. ASSUME NEW c \in Caller,
             PromoteToUrgent(c) \/ PromotePrewarmClass(c) \/ EnqueueUrgent(c) \/ EnqueuePrewarm(c)
      PROVE  Control'
    <2> DEFINE k == caller[c].key
               r == caller[c].req
    <2>1. /\ caller[c].pc = "enqueue"
          /\ caller' = Returned(c)
          /\ UNCHANGED <<closed, stage, current, wpc, partial, store, evict, asked>>
        BY <1>3 DEF PromoteToUrgent, PromotePrewarmClass, EnqueueUrgent, EnqueuePrewarm, Admitted
    <2>2. k \in Key /\ r \in Request /\ r.class \in PrewarmClass /\ r.urgent \in BOOLEAN
        BY <1>t, <1>c, <2>1 DEF CallControl, Request
    <2>3. /\ caller' \in [Caller -> [pc  : {"idle", "enqueue", "wait", "serve"},
                                     key : Key \cup {None}, req : Request]]
          /\ CallControl'
        BY <1>t, <2>1, ReturnedFacts DEF CallControl
    <2>4. NewJob(c) \in Job
        BY <2>2 DEF NewJob, Blank, Job
    <2>5. \A t \in PrewarmClass : t \in Tier
        BY DEF Tier
    <2>6. "urgent" \in Tier
        BY DEF Tier
    <2>7. \/ UNCHANGED <<job, proc>>
          \/ PreemptIfOutranked([job EXCEPT ![k].urgent = TRUE], k)
          \/ PreemptIfOutranked([job EXCEPT ![k].class = r.class], k)
          \/ PreemptIfOutranked([job EXCEPT ![k] = NewJob(c)], k)
        BY <1>3 DEF PromoteToUrgent, PromotePrewarmClass, EnqueueUrgent, EnqueuePrewarm
    <2>8. /\ job \in [Key -> Job]
          /\ [job EXCEPT ![k].urgent = TRUE] \in [Key -> Job]
          /\ [job EXCEPT ![k].class = r.class] \in [Key -> Job]
          /\ [job EXCEPT ![k] = NewJob(c)] \in [Key -> Job]
        BY <1>t, <2>2, <2>4 DEF TypeOK, Job
    <2> HIDE DEF k, r
    <2>9. job' \in [Key -> Job] /\ (proc' = proc \/ proc' = Terminated)
        BY <2>2, <2>7, <2>8, <1>t, PreemptFacts
    <2>10. proc' \in ProcState /\ (proc' = "spawned" => proc = "spawned")
                              /\ (proc = "ok" => proc' = "ok")
        BY <2>9, <1>t, TerminatedFacts DEF TypeOK
    <2>11. table' \subseteq Key
        BY <1>3, <1>t, <2>2
        DEF PromoteToUrgent, PromotePrewarmClass, EnqueueUrgent, EnqueuePrewarm, TypeOK, k
    <2>12. RemovedFromPrewarm(k) \in [Tier -> Seq(Key)]
        BY <1>t, <2>2, RemovedFacts
    <2>13. \A s \in Seq(Key) : <<k>> \o s \in Seq(Key) /\ Append(s, k) \in Seq(Key)
        BY <2>2
    <2>14. \/ UNCHANGED queue
           \/ queue' = [RemovedFromPrewarm(k) EXCEPT !["urgent"] = <<k>> \o @]
           \/ queue' = [RemovedFromPrewarm(k) EXCEPT ![r.class] = Append(@, k)]
           \/ queue' = [queue EXCEPT !["urgent"] = <<k>> \o @]
           \/ queue' = [queue EXCEPT ![r.class] = Append(@, k)]
        BY <1>3 DEF PromoteToUrgent, PromotePrewarmClass, EnqueueUrgent, EnqueuePrewarm, k, r
    <2>15. queue' \in [Tier -> Seq(Key)]
        <3>1. \A q \in [Tier -> Seq(Key)], t \in Tier :
                 /\ [q EXCEPT ![t] = <<k>> \o q[t]] \in [Tier -> Seq(Key)]
                 /\ [q EXCEPT ![t] = Append(q[t], k)] \in [Tier -> Seq(Key)]
            BY <2>13, Zenon
        <3>2. queue \in [Tier -> Seq(Key)] /\ r.class \in Tier
            BY <1>t, <2>2, <2>5 DEF TypeOK, r
        <3>3. CASE UNCHANGED queue
            BY <3>2, <3>3
        <3>4. CASE queue' = [RemovedFromPrewarm(k) EXCEPT !["urgent"] = <<k>> \o @]
            BY <2>6, <2>12, <3>1, <3>4
        <3>5. CASE queue' = [RemovedFromPrewarm(k) EXCEPT ![r.class] = Append(@, k)]
            BY <2>12, <3>1, <3>2, <3>5
        <3>6. CASE queue' = [queue EXCEPT !["urgent"] = <<k>> \o @]
            BY <2>6, <3>1, <3>2, <3>6
        <3>7. CASE queue' = [queue EXCEPT ![r.class] = Append(@, k)]
            BY <3>1, <3>2, <3>7
        <3> QED BY <2>14, <3>3, <3>4, <3>5, <3>6, <3>7, Zenon
    <2> QED BY <1>t, <2>1, <2>3, <2>9, <2>10, <2>11, <2>15 DEF Control, TypeOK, WorkerControl
<1>4. ASSUME NEW keys \in SUBSET Key, Drain(keys),
             UNCHANGED <<closed, current, wpc, partial, store, asked>>,
             stage' \in {"up", "closing", "joining", "down"},
             evict' \in [pc : {"idle", "wait", "unlink"}, keys : SUBSET Key],
             job' \in [Key -> Job], proc' = proc \/ proc' = Terminated
      PROVE  Control'
    <2>1. /\ queue' \in [Tier -> Seq(Key)]
          /\ table' = table \ keys
          /\ caller' = Release(keys, "error")
        BY <1>4, <1>t, DrainFacts
    <2>2. /\ caller' \in [Caller -> [pc  : {"idle", "enqueue", "wait", "serve"},
                                     key : Key \cup {None}, req : Request]]
          /\ CallControl'
        BY <1>t, <2>1, ReleaseFacts DEF CallControl
    <2>3. proc' \in ProcState /\ (proc' = "spawned" => proc = "spawned")
                             /\ (proc = "ok" => proc' = "ok")
        BY <1>4, <1>t, TerminatedFacts DEF TypeOK
    <2> QED BY <1>4, <1>t, <2>1, <2>2, <2>3 DEF Control, TypeOK, WorkerControl
<1>d. \A keys \in SUBSET Key : Drained(keys) \in [Key -> Job]
    BY <1>t, BlankIsJob DEF Drained, TypeOK
<1>5. CASE DropPendingPrewarm
    <2>1. Elems(queue["playlist"]) \in SUBSET Key
        BY <1>q DEF Elems, Tier, PrewarmClass
    <2> QED BY <1>4, <1>5, <1>t, <1>d, <2>1 DEF DropPendingPrewarm, TypeOK
<1>6. ASSUME NEW keys \in SUBSET Key, EvictBegin(keys)
      PROVE  Control'
    <2>1. Queued \cap keys \in SUBSET Key /\ Drained(Queued \cap keys) \in [Key -> Job]
        BY <1>d
    <2>2. \A d \in [Key -> Job] : [[d EXCEPT ![current].purged = TRUE] EXCEPT ![current].cancel = TRUE]
                                    \in [Key -> Job]
        BY DEF Job
    <2>3. job' \in [Key -> Job] /\ (proc' = proc \/ proc' = Terminated)
        BY <1>6, <2>1, <2>2 DEF EvictBegin, RequestCancel
    <2>4. evict' \in [pc : {"idle", "wait", "unlink"}, keys : SUBSET Key]
        BY <1>6 DEF EvictBegin
    <2> QED BY <1>4, <1>6, <1>t, <2>1, <2>3, <2>4 DEF EvictBegin, TypeOK
<1>7. CASE ShutdownDrain
    <2>1. Queued \in SUBSET Key /\ Drained(Queued) \in [Key -> Job]
        BY <1>t, <1>d, QueuedIsKeys
    <2>2. \A d \in [Key -> Job] : [d EXCEPT ![current].cancel = TRUE] \in [Key -> Job]
        BY DEF Job
    <2>3. job' \in [Key -> Job] /\ (proc' = proc \/ proc' = Terminated)
        BY <1>7, <2>1, <2>2 DEF ShutdownDrain, RequestCancel
    <2> QED BY <1>4, <1>7, <1>t, <2>1, <2>3 DEF ShutdownDrain, TypeOK
<1>8. CASE EvictWait \/ EvictUnlink \/ ShutdownClose \/ ShutdownEnd
    <2>1. store' \in [Key -> {"absent", "whole", "torn"}] /\ partial' \subseteq Key
        BY <1>8, <1>t DEF EvictWait, EvictUnlink, ShutdownClose, ShutdownEnd, TypeOK
    <2>2. evict' \in [pc : {"idle", "wait", "unlink"}, keys : SUBSET Key]
        BY <1>8, <1>t DEF EvictWait, EvictUnlink, ShutdownClose, ShutdownEnd, TypeOK
    <2>3. /\ closed' \in BOOLEAN
          /\ stage' \in {"up", "closing", "joining", "down"}
          /\ UNCHANGED <<table, job, queue, current, wpc, proc, caller, asked>>
        BY <1>8, <1>t DEF EvictWait, EvictUnlink, ShutdownClose, ShutdownEnd, TypeOK
    <2> QED BY <1>t, <2>1, <2>2, <2>3 DEF Control, TypeOK, WorkerControl, CallControl
<1>9. CASE Pick
    <2>1. PICK t \in Tier : queue[t] # <<>> /\ \A u \in Tier : queue[u] # <<>> => Rank[u] <= Rank[t]
        BY <1>9 DEF Pick, Tier, PrewarmClass, Rank
    <2>2. NextTier \in Tier /\ queue[NextTier] # <<>>
        BY <2>1 DEF NextTier
    <2>3. Head(queue[NextTier]) \in Key /\ Tail(queue[NextTier]) \in Seq(Key)
        BY <1>q, <2>2, TailElements
    <2> QED BY <1>9, <1>t, <2>2, <2>3 DEF Pick, Control, TypeOK, WorkerControl, CallControl
<1>10. CASE WorkerExit \/ SpawnFails \/ Spawn \/ PublishHandle \/ FfmpegExit
    BY <1>10, <1>t DEF WorkerExit, SpawnFails, Spawn, PublishHandle, FfmpegExit,
                       Control, TypeOK, WorkerControl, CallControl, ProcState
<1>11. CASE Reap
    BY <1>11, <1>t DEF Reap, Verdict, Control, TypeOK, WorkerControl, CallControl
<1>12. CASE Rename
    BY <1>12, <1>t DEF Rename, Control, TypeOK, WorkerControl, CallControl
<1>13. CASE Finish \/ Fail \/ RequeueFails
    <2>1. PICK reply \in {"path", "error"} : Settle(reply)
        BY <1>13 DEF Finish, Fail, RequeueFails
    <2>2. /\ caller' \in [Caller -> [pc  : {"idle", "enqueue", "wait", "serve"},
                                     key : Key \cup {None}, req : Request]]
          /\ CallControl'
        BY <1>t, <2>1, ReleaseFacts DEF Settle, CallControl
    <2>3. UNCHANGED <<closed, stage, queue, partial, store, evict, asked>>
        BY <1>13 DEF Finish, Fail, RequeueFails
    <2> QED BY <1>t, <2>1, <2>2, <2>3, BlankIsJob DEF Settle, Control, TypeOK, WorkerControl,
               ProcState
<1>14. CASE Requeue
    <2>1. current \in Key
        BY <1>14, <1>t DEF Requeue, WorkerControl, TypeOK
    <2>2. job' \in [Key -> Job]
        <3>1. \A j \in Job : [j EXCEPT !.cancel = FALSE, !.urgent = FALSE] \in Job
            BY DEF Job
        <3>2. job' = [job EXCEPT ![current] =
                         [job[current] EXCEPT !.cancel = FALSE, !.urgent = FALSE]]
            BY <1>14 DEF Requeue, Rearmed
        <3>3. job[current] \in Job
            BY <1>t, <2>1 DEF TypeOK
        <3> QED BY <1>t, <2>1, <3>1, <3>2, <3>3 DEF TypeOK
    <2>3. job[current].class \in Tier
        BY <1>t, <2>1 DEF TypeOK, Job, Tier
    <2>4. queue' \in [Tier -> Seq(Key)]
        BY <1>14, <1>t, <1>q, <2>1, <2>3, PrependElements DEF Requeue, TypeOK
    <2> QED BY <1>14, <1>t, <2>2, <2>4 DEF Requeue, Control, TypeOK, WorkerControl, CallControl,
               ProcState
<1>15. CASE UNCHANGED vars
    BY <1>15, <1>t DEF vars, Control, TypeOK, WorkerControl, CallControl
<1>16. ASSUME NEW paths \in SUBSET Path PROVE KeysOf(paths) \in SUBSET Key
    BY DEF KeysOf
<1> QED
    BY <1>1, <1>2, <1>3, <1>5, <1>6, <1>7, <1>8, <1>9, <1>10, <1>11, <1>12, <1>13, <1>14, <1>15,
       <1>16
    DEF Next, Enqueue, Worker, ForgetPaths, ClearCache, Rest

\* The types of the model hold for every constant.
THEOREM TypeCorrect == Spec => []TypeOK
<1>1. Control => TypeOK
    BY DEF Control
<1> QED BY <1>1, ControlInit, ControlStep, PTL DEF Spec

-----------------------------------------------------------------------------
(* Jobs are placed once.                                                   *)

\* k is put in deque t, and taken out of the others if it was there.
Inserted(k, t) ==
    \A u \in Tier :
        /\ Elems(queue'[u]) = IF u = t THEN Elems(queue[u]) \cup {k} ELSE Elems(queue[u]) \ {k}
        /\ Once(queue'[u])

\* The four ways the code puts a key at one end of a deque.
LEMMA InsertedFacts ==
    ASSUME TypeOK, JobsPlacedOnce, NEW k \in Key, NEW t \in Tier,
           \/ /\ k \notin Queued
              /\ \/ queue' = [queue EXCEPT ![t] = <<k>> \o @]
                 \/ queue' = [queue EXCEPT ![t] = Append(@, k)]
           \/ /\ k \notin Elems(queue["urgent"]) /\ k \notin Elems(queue[t])
              /\ \/ queue' = [RemovedFromPrewarm(k) EXCEPT ![t] = <<k>> \o @]
                 \/ queue' = [RemovedFromPrewarm(k) EXCEPT ![t] = Append(@, k)]
    PROVE  Inserted(k, t)
<1>1. PICK q \in [Tier -> Seq(Key)] :
         /\ queue' = [q EXCEPT ![t] = <<k>> \o q[t]] \/ queue' = [q EXCEPT ![t] = Append(q[t], k)]
         /\ \A u \in Tier : Elems(q[u]) = Elems(queue[u]) \ {k} /\ Once(q[u])
    <2>1. \A u \in Tier : Once(queue[u])
        BY DEF JobsPlacedOnce
    <2>2. CASE k \notin Queued
        <3>1. \A u \in Tier : Elems(queue[u]) = Elems(queue[u]) \ {k}
            BY <2>2 DEF Queued
        <3>2. CASE \/ queue' = [queue EXCEPT ![t] = <<k>> \o @]
                   \/ queue' = [queue EXCEPT ![t] = Append(@, k)]
            BY <2>1, <3>1, <3>2 DEF TypeOK
        <3>3. CASE \/ queue' = [RemovedFromPrewarm(k) EXCEPT ![t] = <<k>> \o @]
                   \/ queue' = [RemovedFromPrewarm(k) EXCEPT ![t] = Append(@, k)]
            <4>1. \A u \in Tier : u = "urgent" \/ u \in PrewarmClass
                BY DEF Tier
            <4> QED BY <2>1, <3>1, <3>3, <4>1, RemovedFacts
        <3> QED BY <3>2, <3>3
    <2>3. CASE k \in Queued
        <3>1. /\ k \notin Elems(queue["urgent"])
              /\ \/ queue' = [RemovedFromPrewarm(k) EXCEPT ![t] = <<k>> \o @]
                 \/ queue' = [RemovedFromPrewarm(k) EXCEPT ![t] = Append(@, k)]
            BY <2>3
        <3>2. \A u \in Tier : u = "urgent" \/ u \in PrewarmClass
            BY DEF Tier
        <3>3. \A u \in Tier : /\ Elems(RemovedFromPrewarm(k)[u]) = Elems(queue[u]) \ {k}
                              /\ Once(RemovedFromPrewarm(k)[u])
            <4>1. ASSUME NEW u \in Tier
                  PROVE  /\ Elems(RemovedFromPrewarm(k)[u]) = Elems(queue[u]) \ {k}
                         /\ Once(RemovedFromPrewarm(k)[u])
                <5>1. CASE u = "urgent"
                    <6>1. RemovedFromPrewarm(k)[u] = queue[u]
                        BY <5>1, RemovedFacts
                    <6> QED BY <2>1, <3>1, <5>1, <6>1
                <5>2. CASE u \in PrewarmClass
                    BY <2>1, <5>2, RemovedFacts
                <5> QED BY <3>2, <5>1, <5>2
            <4> QED BY <4>1
        <3>4. RemovedFromPrewarm(k) \in [Tier -> Seq(Key)]
            BY RemovedFacts
        <3> DEFINE p == RemovedFromPrewarm(k)
        <3>5. queue' = [p EXCEPT ![t] = <<k>> \o p[t]] \/ queue' = [p EXCEPT ![t] = Append(p[t], k)]
            BY <3>1
        <3> HIDE DEF p
        <3> QED BY <3>3, <3>4, <3>5 DEF p
    <2> QED BY <2>2, <2>3
<1>2. q[t] \in Seq(Key) /\ k \notin Elems(q[t]) /\ Once(q[t])
    BY <1>1
<1>3. Elems(queue'[t]) = Elems(q[t]) \cup {k} /\ Once(queue'[t])
    <2>1. queue'[t] = <<k>> \o q[t] \/ queue'[t] = Append(q[t], k)
        BY <1>1
    <2>2. CASE queue'[t] = <<k>> \o q[t]
        BY <1>2, <2>2, PrependElements
    <2>3. CASE queue'[t] = Append(q[t], k)
        BY <1>2, <2>3, AppendElements
    <2> QED BY <2>1, <2>2, <2>3
<1>4. \A u \in Tier \ {t} : queue'[u] = q[u]
    BY <1>1
<1> QED BY <1>1, <1>3, <1>4 DEF Inserted

\* The deque a job belongs to.
TierOf(j) == IF j.urgent THEN "urgent" ELSE j.class

\* A key put in the deque of its own tier is placed once, if it was nowhere else.
LEMMA PlacedAfterInsert ==
    ASSUME TypeOK, JobsPlacedOnce, NEW k \in Key, NEW t \in Tier, Inserted(k, t),
           t = TierOf(job'[k]),
           \A x \in Queued \ {k} : TierOf(job'[x]) = TierOf(job[x]),
           current' \notin Queued \cup {k},
           table' = Queued \cup {k} \cup ({current'} \ {None})
    PROVE  JobsPlacedOnce' /\ Queued' = Queued \cup {k}
<1>1. Queued' = Queued \cup {k}
    <2>1. Queued' = UNION {Elems(queue'[u]) : u \in Tier}
        BY DEF Queued
    <2>2. ASSUME NEW x \in Queued \cup {k} PROVE \E u \in Tier : x \in Elems(queue'[u])
        <3>1. CASE x = k
            BY <3>1 DEF Inserted
        <3>2. CASE x # k
            <4>1. PICK u \in Tier : x \in Elems(queue[u])
                BY <2>2, <3>2 DEF Queued
            <4> QED BY <3>2, <4>1 DEF Inserted
        <3> QED BY <3>1, <3>2
    <2>3. ASSUME NEW u \in Tier, NEW x \in Elems(queue'[u]) PROVE x \in Queued \cup {k}
        <3>1. CASE x = k
            BY <3>1
        <3>2. CASE x # k
            <4>1. x \in Elems(queue[u])
                BY <2>3, <3>2 DEF Inserted
            <4> QED BY <4>1 DEF Queued
        <3> QED BY <3>1, <3>2
    <2>4. Queued' \subseteq Queued \cup {k}
        BY <2>1, <2>3
    <2>5. Queued \cup {k} \subseteq Queued'
        BY <2>1, <2>2
    <2> QED BY <2>4, <2>5
<1>2. \A u \in Tier : \A x \in Elems(queue'[u]) : u = TierOf(job'[x])
    <2> SUFFICES ASSUME NEW u \in Tier, NEW x \in Elems(queue'[u]) PROVE u = TierOf(job'[x])
        OBVIOUS
    <2>1. CASE x = k
        BY <2>1 DEF Inserted
    <2>2. CASE x # k
        <3>1. x \in Elems(queue[u])
            BY <2>2 DEF Inserted
        <3>2. x \in Queued \ {k} /\ u = TierOf(job[x])
            BY <2>2, <3>1 DEF Queued, JobsPlacedOnce, TierOf
        <3> QED BY <3>2
    <2> QED BY <2>1, <2>2
<1>3. \A u \in Tier : Once(queue'[u])
    BY DEF Inserted
<1>4. \A t1, u \in Tier : t1 # u => Elems(queue'[t1]) \cap Elems(queue'[u]) = {}
    BY <1>2
<1>5. current' \notin Queued' /\ table' = Queued' \cup ({current'} \ {None})
    BY <1>1
<1> QED BY <1>1, <1>2, <1>3, <1>4, <1>5 DEF JobsPlacedOnce, TierOf

\* Empty deques place every job once.
LEMMA PlacedInit == Init => JobsPlacedOnce
<1> SUFFICES ASSUME Init PROVE JobsPlacedOnce
    OBVIOUS
<1>1. \A t \in Tier : queue[t] = <<>>
    BY DEF Init
<1>2. \A t \in Tier : Elems(queue[t]) = {} /\ Once(queue[t])
    BY <1>1 DEF Elems, Once
<1>3. Queued = {}
    BY <1>2 DEF Queued
<1> QED BY <1>2, <1>3 DEF Init, JobsPlacedOnce

\* What a promotion or a new job does to job fields and deques, once and for
\* all invariants: only k moves, its class only rises, other jobs can only be
\* asked to stop, and are if k outranks the running one.
Effect(k) ==
    /\ table' = table \cup {k}
    /\ JobsPlacedOnce'
    /\ Queued' \subseteq Queued \cup {k}
    /\ \A x \in Key \ {k} : /\ job'[x].urgent = job[x].urgent
                            /\ job'[x].class = job[x].class
                            /\ job'[x].purged = job[x].purged
                            /\ job[x].cancel => job'[x].cancel
    /\ job'[k].purged => job[k].purged
    /\ k \in table => Prio(job'[k]) >= Prio(job[k]) /\ (job[k].cancel => job'[k].cancel)
    /\ \/ job' = job /\ k \in table
       \/ current # None /\ current # k /\ Outranks(job', k, current) => job'[current].cancel

\* The priority of a job is the rank of its tier.
LEMMA PrioFacts ==
    \A j \in Job : /\ Prio(j) \in 0..3
                   /\ Prio(j) = Rank[TierOf(j)] /\ TierOf(j) \in Tier
<1> SUFFICES ASSUME NEW j \in Job PROVE Prio(j) \in 0..3 /\ Prio(j) = Rank[TierOf(j)] /\ TierOf(j) \in Tier
    OBVIOUS
<1>1. j.urgent \in BOOLEAN /\ j.class \in {"radio", "download", "playlist"}
    BY DEF Job, PrewarmClass
<1> QED BY <1>1 DEF Prio, TierOf, Rank, Tier, PrewarmClass

\* The tier and priority of a job depend on its urgency and class only.
LEMMA SameTier ==
    ASSUME NEW a, NEW b, a.urgent = b.urgent, a.class = b.class
    PROVE  TierOf(a) = TierOf(b) /\ Prio(a) = Prio(b)
BY Zenon DEF TierOf, Prio

\* What JobsPlacedOnce says of one queued key.
LEMMA PlacedFacts ==
    ASSUME JobsPlacedOnce
    PROVE  /\ \A t \in Tier : \A x \in Elems(queue[t]) : t = TierOf(job[x])
           /\ \A x \in table : x = current \/ x \in Queued
           /\ \A x \in Queued : x \in table /\ x # current /\ \E t \in Tier : x \in Elems(queue[t])
BY DEF JobsPlacedOnce, TierOf, Queued

\* The deques and the keys stay, and so do the tiers of the queued jobs.
LEMMA PlacedUnmoved ==
    ASSUME JobsPlacedOnce, UNCHANGED <<queue, table, current>>,
           \A x \in Queued : TierOf(job'[x]) = TierOf(job[x])
    PROVE  JobsPlacedOnce' /\ Queued' = Queued
<1>1. Queued' = Queued
    BY DEF Queued
<1>2. \A t \in Tier : \A x \in Elems(queue[t]) : x \in Queued
    BY DEF Queued
<1> QED BY <1>1, <1>2 DEF JobsPlacedOnce, TierOf

\* A new job has the effect every enqueue has.
LEMMA NewJobEffect ==
    ASSUME Control, JobsPlacedOnce, NEW c \in Caller, EnqueueUrgent(c) \/ EnqueuePrewarm(c)
    PROVE  Effect(caller[c].key)
<1> DEFINE k == caller[c].key
           r == caller[c].req
           t == IF r.urgent THEN "urgent" ELSE r.class
           jobs == [job EXCEPT ![k] = NewJob(c)]
<1> USE NoneIsNoKey
<1>1. TypeOK /\ CallControl
    BY DEF Control
<1>2. /\ caller[c].pc = "enqueue" /\ k \notin table /\ table' = table \cup {k}
      /\ PreemptIfOutranked(jobs, k)
      /\ UNCHANGED current
      /\ queue' = [queue EXCEPT ![t] = <<k>> \o @] \/ queue' = [queue EXCEPT ![t] = Append(@, k)]
    BY DEF EnqueueUrgent, EnqueuePrewarm, Admitted
<1>3. caller[c] \in [pc : {"idle", "enqueue", "wait", "serve"}, key : Key \cup {None}, req : Request]
    BY <1>1 DEF TypeOK
<1>4. k \in Key /\ r \in Request /\ r.class \in PrewarmClass /\ r.urgent \in BOOLEAN
    BY <1>1, <1>2, <1>3 DEF CallControl, Request
<1>5. /\ NewJob(c) \in Job /\ NewJob(c).purged = FALSE
      /\ NewJob(c).urgent = r.urgent /\ NewJob(c).class = r.class
    BY <1>4 DEF NewJob, Blank, Job
<1>6. t \in Tier /\ t = TierOf(NewJob(c))
    BY <1>4, <1>5 DEF Tier, TierOf
<1>7. /\ jobs \in [Key -> Job] /\ jobs[k] = NewJob(c)
      /\ \A x \in Key \ {k} : jobs[x] = job[x]
    BY <1>1, <1>4, <1>5 DEF TypeOK
<1>8. current \in Key \cup {None} /\ (current # None => current \in table) /\ k \notin Queued
    BY <1>1, <1>2, <1>4 DEF JobsPlacedOnce, TypeOK
<1> HIDE DEF jobs, k, r, t
<1>9. Inserted(k, t)
    BY <1>1, <1>2, <1>4, <1>6, <1>8, InsertedFacts
<1>10. /\ \A x \in Key : /\ job'[x].urgent = jobs[x].urgent
                         /\ job'[x].class = jobs[x].class
                         /\ job'[x].purged = jobs[x].purged
                         /\ jobs[x].cancel => job'[x].cancel
       /\ current # None /\ current # k /\ Outranks(jobs, k, current) => job'[current].cancel
    BY <1>1, <1>2, <1>4, <1>7, PreemptFacts
<1>11. \A x \in Key : TierOf(job'[x]) = TierOf(jobs[x]) /\ Prio(job'[x]) = Prio(jobs[x])
    BY <1>10, SameTier
<1>12. Queued \subseteq Key
    BY <1>1, QueuedIsKeys
<1>13. current' \notin Queued \cup {k} /\ table' = Queued \cup {k} \cup ({current'} \ {None})
    <2>1. current # k
        BY <1>2, <1>4, <1>8
    <2>2. current \notin Queued /\ table = Queued \cup ({current} \ {None})
        BY DEF JobsPlacedOnce
    <2> QED BY <1>2, <2>1, <2>2
<1>14. JobsPlacedOnce' /\ Queued' = Queued \cup {k}
    BY <1>1, <1>4, <1>6, <1>7, <1>9, <1>11, <1>12, <1>13, PlacedAfterInsert
<1>15. current # None /\ current # k /\ Outranks(job', k, current) => job'[current].cancel
    BY <1>4, <1>8, <1>10, <1>11 DEF Outranks
<1>16. \A x \in Key \ {k} : /\ job'[x].urgent = job[x].urgent
                            /\ job'[x].class = job[x].class
                            /\ job'[x].purged = job[x].purged
                            /\ job[x].cancel => job'[x].cancel
    BY <1>7, <1>10
<1>17. ~job'[k].purged
    BY <1>4, <1>5, <1>7, <1>10
<1>18. Effect(k)
    BY <1>2, <1>14, <1>15, <1>16, <1>17 DEF Effect
<1> QED BY <1>18 DEF k

\* A promoted job: its tier rises to t, and it moves there if it was pending.
LEMMA PromoteEffect ==
    ASSUME Control, JobsPlacedOnce, NEW k \in Key, k \in table,
           NEW jobs \in [Key -> Job], NEW t \in Tier,
           PreemptIfOutranked(jobs, k),
           UNCHANGED <<table, current>>,
           \A x \in Key \ {k} : jobs[x] = job[x],
           jobs[k].cancel = job[k].cancel, jobs[k].purged = job[k].purged,
           t = TierOf(jobs[k]),
           t = TierOf(job[k]) => t = "urgent",
           Prio(jobs[k]) >= Prio(job[k]),
           queue' = IF PendingPrewarm(k)
                    THEN IF t = "urgent" THEN [RemovedFromPrewarm(k) EXCEPT !["urgent"] = <<k>> \o @]
                         ELSE [RemovedFromPrewarm(k) EXCEPT ![t] = Append(@, k)]
                    ELSE queue,
           t # "urgent" => TierOf(job[k]) # "urgent"
    PROVE  Effect(k)
<1> USE NoneIsNoKey
<1>1. TypeOK
    BY DEF Control
<1>2. /\ \A x \in Key : /\ job'[x].urgent = jobs[x].urgent
                        /\ job'[x].class = jobs[x].class
                        /\ job'[x].purged = jobs[x].purged
                        /\ jobs[x].cancel => job'[x].cancel
      /\ current # None /\ current # k /\ Outranks(jobs, k, current) => job'[current].cancel
    BY <1>1, PreemptFacts
<1>3. \A x \in Key : TierOf(job'[x]) = TierOf(jobs[x]) /\ Prio(job'[x]) = Prio(jobs[x])
    BY <1>2, SameTier
<1>4. current \in Key \cup {None} /\ Queued \subseteq Key
    BY <1>1, QueuedIsKeys DEF TypeOK
<1>5. current # None /\ current # k /\ Outranks(job', k, current) => job'[current].cancel
    BY <1>2, <1>3, <1>4 DEF Outranks
<1>6. \A u \in PrewarmClass : u \in Tier /\ u # "urgent"
    BY DEF Tier, PrewarmClass
<1>7. JobsPlacedOnce' /\ Queued' \subseteq Queued \cup {k}
    <2>1. CASE PendingPrewarm(k)
        <3>1. PICK u \in PrewarmClass : k \in Elems(queue[u])
            BY <2>1 DEF PendingPrewarm
        <3>2. u = TierOf(job[k]) /\ k \in Queued /\ k # current
            BY <1>6, <3>1, PlacedFacts DEF Queued
        <3>3. k \notin Elems(queue["urgent"]) /\ k \notin Elems(queue[t])
            BY <1>6, <3>2, PlacedFacts DEF Tier
        <3>4. \/ queue' = [RemovedFromPrewarm(k) EXCEPT ![t] = <<k>> \o @]
              \/ queue' = [RemovedFromPrewarm(k) EXCEPT ![t] = Append(@, k)]
            BY <2>1
        <3>5. Inserted(k, t)
            BY <1>1, <3>3, <3>4, InsertedFacts
        <3>6. current' \notin Queued \cup {k} /\ table' = Queued \cup {k} \cup ({current'} \ {None})
            BY <3>2 DEF JobsPlacedOnce
        <3>7. \A x \in Queued \ {k} : TierOf(job'[x]) = TierOf(job[x])
            BY <1>3, <1>4
        <3> QED BY <1>1, <1>3, <3>5, <3>6, <3>7, PlacedAfterInsert
    <2>2. CASE ~PendingPrewarm(k)
        <3>1. UNCHANGED queue
            BY <2>2
        <3>2. \A x \in Queued : TierOf(job'[x]) = TierOf(job[x])
            <4> SUFFICES ASSUME NEW x \in Queued PROVE TierOf(job'[x]) = TierOf(job[x])
                OBVIOUS
            <4>1. CASE x # k
                BY <4>1, <1>3, <1>4
            <4>2. CASE x = k
                <5>1. PICK u \in Tier : k \in Elems(queue[u])
                    BY <4>2 DEF Queued
                <5>2. u = "urgent" /\ u = TierOf(job[k])
                    BY <2>2, <5>1, PlacedFacts DEF PendingPrewarm, Tier
                <5>3. TierOf(job'[k]) = t
                    BY <1>3
                <5> QED BY <4>2, <5>2, <5>3
            <4> QED BY <4>1, <4>2
        <3> QED BY <3>1, <3>2, PlacedUnmoved
    <2> QED BY <2>1, <2>2
<1>8. \A x \in Key \ {k} : /\ job'[x].urgent = job[x].urgent
                           /\ job'[x].class = job[x].class
                           /\ job'[x].purged = job[x].purged
                           /\ job[x].cancel => job'[x].cancel
    BY <1>2
<1>9. /\ job'[k].purged => job[k].purged
      /\ job[k].cancel => job'[k].cancel
      /\ Prio(job'[k]) >= Prio(job[k])
    BY <1>2, <1>3
<1>10. table' = table \cup {k}
    OBVIOUS
<1> QED BY <1>5, <1>7, <1>8, <1>9, <1>10 DEF Effect

\* All four enqueue paths have it.
LEMMA EnqueueEffect ==
    ASSUME Control, JobsPlacedOnce, NEW c \in Caller,
           PromoteToUrgent(c) \/ PromotePrewarmClass(c) \/ EnqueueUrgent(c) \/ EnqueuePrewarm(c)
    PROVE  /\ caller[c].key \in Key
           /\ Effect(caller[c].key)
           /\ caller[c].pc = "enqueue" /\ caller' = Returned(c)
           /\ UNCHANGED <<closed, stage, current, wpc, partial, store, evict>>
<1> DEFINE k == caller[c].key
           r == caller[c].req
<1>1. TypeOK /\ CallControl
    BY DEF Control
<1>2. /\ caller[c].pc = "enqueue"
      /\ caller' = Returned(c)
      /\ UNCHANGED <<closed, stage, current, wpc, partial, store, evict>>
    BY DEF PromoteToUrgent, PromotePrewarmClass, EnqueueUrgent, EnqueuePrewarm, Admitted
<1>3. caller[c] \in [pc : {"idle", "enqueue", "wait", "serve"}, key : Key \cup {None}, req : Request]
    BY <1>1 DEF TypeOK
<1>4. k \in Key /\ r.class \in PrewarmClass
    BY <1>1, <1>2, <1>3 DEF CallControl, Request
<1>5. job \in [Key -> Job] /\ job[k] \in Job
    BY <1>1, <1>4 DEF TypeOK
<1>6. CASE PromoteToUrgent(c)
    <2> DEFINE jobs == [job EXCEPT ![k].urgent = TRUE]
    <2>1. /\ jobs \in [Key -> Job]
          /\ jobs[k].urgent /\ jobs[k].cancel = job[k].cancel /\ jobs[k].purged = job[k].purged
          /\ \A x \in Key \ {k} : jobs[x] = job[x]
        BY <1>4, <1>5 DEF Job
    <2>2. /\ k \in table /\ PreemptIfOutranked(jobs, k) /\ UNCHANGED <<table, current>>
          /\ queue' = IF PendingPrewarm(k)
                      THEN [RemovedFromPrewarm(k) EXCEPT !["urgent"] = <<k>> \o @]
                      ELSE queue
        BY <1>6 DEF PromoteToUrgent
    <2> HIDE DEF jobs
    <2>3. "urgent" \in Tier /\ "urgent" = TierOf(jobs[k])
        BY <2>1 DEF Tier, TierOf
    <2>4. Prio(jobs[k]) >= Prio(job[k])
        <3>1. Prio(jobs[k]) = 3
            BY <2>1, <2>3 DEF Prio, Rank
        <3> QED BY <1>5, <3>1, PrioFacts
    <2>5. Effect(k)
        BY <1>4, <2>1, <2>2, <2>3, <2>4, PromoteEffect
    <2> QED BY <1>2, <1>4, <2>5
<1>7. CASE PromotePrewarmClass(c) /\ ~job[k].urgent /\ Rank[r.class] > Rank[job[k].class]
    <2> DEFINE jobs == [job EXCEPT ![k].class = r.class]
    <2>1. /\ jobs \in [Key -> Job]
          /\ jobs[k].class = r.class /\ jobs[k].urgent = job[k].urgent
          /\ jobs[k].cancel = job[k].cancel /\ jobs[k].purged = job[k].purged
          /\ \A x \in Key \ {k} : jobs[x] = job[x]
        BY <1>4, <1>5 DEF Job
    <2>2. /\ k \in table /\ PreemptIfOutranked(jobs, k) /\ UNCHANGED <<table, current>>
          /\ queue' = IF PendingPrewarm(k)
                      THEN [RemovedFromPrewarm(k) EXCEPT ![r.class] = Append(@, k)]
                      ELSE queue
        BY <1>7 DEF PromotePrewarmClass
    <2> HIDE DEF jobs
    <2>3. r.class \in Tier /\ r.class # "urgent" /\ ~jobs[k].urgent /\ r.class = TierOf(jobs[k])
        BY <1>4, <1>7, <2>1 DEF Tier, PrewarmClass, TierOf
    <2>4. TierOf(job[k]) = job[k].class /\ TierOf(job[k]) \in PrewarmClass /\ TierOf(job[k]) # "urgent"
        BY <1>5, <1>7 DEF TierOf, Job, PrewarmClass
    <2>5. r.class # TierOf(job[k])
        BY <1>4, <1>7, <2>4 DEF Rank, Tier, PrewarmClass
    <2>6. Prio(jobs[k]) >= Prio(job[k])
        <3>1. Prio(jobs[k]) = Rank[r.class] /\ Prio(job[k]) = Rank[job[k].class]
            BY <1>7, <2>1, <2>3 DEF Prio
        <3>2. Rank[r.class] \in Nat /\ Rank[job[k].class] \in Nat
            BY <2>3, <2>4 DEF Rank, Tier, PrewarmClass
        <3> QED BY <1>7, <3>1, <3>2
    <2> DEFINE u == r.class
    <2>8. /\ k \in Key /\ jobs \in [Key -> Job] /\ \A x \in Key \ {k} : jobs[x] = job[x]
          /\ jobs[k].cancel = job[k].cancel /\ jobs[k].purged = job[k].purged
        BY <1>4, <2>1
    <2>9. /\ u \in Tier /\ u = TierOf(jobs[k])
          /\ u = TierOf(job[k]) => u = "urgent"
          /\ u # "urgent" => TierOf(job[k]) # "urgent"
        BY <2>3, <2>4, <2>5
    <2>10. queue' = IF PendingPrewarm(k)
                    THEN IF u = "urgent" THEN [RemovedFromPrewarm(k) EXCEPT !["urgent"] = <<k>> \o @]
                         ELSE [RemovedFromPrewarm(k) EXCEPT ![u] = Append(@, k)]
                    ELSE queue
        BY <2>2, <2>3
    <2> HIDE DEF k, r, u
    <2>7. Effect(k)
        BY <2>2, <2>6, <2>8, <2>9, <2>10, PromoteEffect
    <2> QED BY <1>2, <1>4, <2>7 DEF k
<1>8. CASE PromotePrewarmClass(c) /\ ~(~job[k].urgent /\ Rank[r.class] > Rank[job[k].class])
    <2>1. k \in table /\ UNCHANGED <<queue, job, table, current>>
        BY <1>8 DEF PromotePrewarmClass
    <2>2. JobsPlacedOnce' /\ Queued' = Queued
        BY <2>1, PlacedUnmoved
    <2>3. Prio(job'[k]) >= Prio(job[k])
        BY <1>5, <2>1, PrioFacts
    <2>4. Effect(k)
        BY <2>1, <2>2, <2>3 DEF Effect
    <2> QED BY <1>2, <1>4, <2>4
<1>9. CASE EnqueueUrgent(c) \/ EnqueuePrewarm(c)
    BY <1>2, <1>4, <1>9, NewJobEffect
<1> QED BY <1>6, <1>7, <1>8, <1>9

\* Draining keys that are queued, whatever it does to the running job's flags.
LEMMA DrainEffect ==
    ASSUME Control, JobsPlacedOnce, NEW keys \in SUBSET Queued, Drain(keys), UNCHANGED current,
           \A x \in Key \ (keys \cup {current}) : job'[x] = job[x]
    PROVE  JobsPlacedOnce' /\ Queued' = Queued \ keys
<1>1. TypeOK /\ keys \in SUBSET Key /\ Queued \subseteq Key
    BY QueuedIsKeys DEF Control
<1>2. /\ \A t \in Tier : Elems(queue'[t]) = Elems(queue[t]) \ keys
      /\ \A t \in Tier : Once(queue[t]) => Once(queue'[t])
      /\ table' = table \ keys
    BY <1>1, DrainFacts
<1>3. Queued' = Queued \ keys
    <2>1. Queued' = UNION {Elems(queue'[t]) : t \in Tier}
        BY DEF Queued
    <2>2. UNION {Elems(queue'[t]) : t \in Tier} = UNION {Elems(queue[t]) \ keys : t \in Tier}
        BY <1>2
    <2> QED BY <2>1, <2>2 DEF Queued
<1>4. current \notin Queued /\ table = Queued \cup ({current} \ {None})
    BY DEF JobsPlacedOnce
<1>5. \A t \in Tier : \A x \in Elems(queue'[t]) : x \in Queued \ keys /\ t = TierOf(job'[x])
    <2> SUFFICES ASSUME NEW t \in Tier, NEW x \in Elems(queue'[t])
                 PROVE  x \in Queued \ keys /\ t = TierOf(job'[x])
        OBVIOUS
    <2>1. x \in Elems(queue[t]) /\ x \notin keys
        BY <1>2
    <2>2. x \in Queued
        BY <2>1 DEF Queued
    <2>3. job'[x] = job[x]
        BY <1>1, <1>4, <2>1, <2>2
    <2> QED BY <2>1, <2>2, <2>3, PlacedFacts
<1>6. \A t, u \in Tier : t # u => Elems(queue'[t]) \cap Elems(queue'[u]) = {}
    BY <1>5
<1>7. current' \notin Queued' /\ table' = Queued' \cup ({current'} \ {None})
    BY <1>2, <1>3, <1>4
<1>8. \A t \in Tier : Once(queue'[t])
    BY <1>2 DEF JobsPlacedOnce
<1> QED BY <1>3, <1>5, <1>6, <1>7, <1>8 DEF JobsPlacedOnce, TierOf

\* The three operations that drain deques, seen alike: the running job keeps
\* its tier, and is newly purged only by an eviction that will wait for it.
DrainKind == DropPendingPrewarm \/ ShutdownDrain \/ \E keys \in SUBSET Key : EvictBegin(keys)

DrainedBy(keys) ==
    /\ Drain(keys)
    /\ UNCHANGED <<current, wpc, partial, store>>
    /\ proc' = proc \/ proc' = Terminated
    /\ evict' = evict \/ evict.pc = "idle"
    /\ \A x \in keys : ~job'[x].purged
    /\ \A x \in Key \ (keys \cup {current}) : job'[x] = job[x]
    /\ current \in Key => /\ job'[current].urgent = job[current].urgent
                          /\ job'[current].class = job[current].class
                          /\ job[current].cancel => job'[current].cancel
                          /\ \/ job'[current].purged = job[current].purged
                             \/ evict'.pc = "wait" /\ current \in evict'.keys

\* drop_pending_prewarm, shutdown, forget_paths and clear_cache have it.
LEMMA DrainKindEffect ==
    ASSUME Control, JobsPlacedOnce, DrainKind
    PROVE  \E keys \in SUBSET Queued : DrainedBy(keys)
<1>1. TypeOK /\ Queued \subseteq Key /\ current \notin Queued
    BY QueuedIsKeys DEF Control, JobsPlacedOnce
<1>2. ~Blank.purged
    BY DEF Blank
<1>3. job \in [Key -> Job] /\ \A keys \in SUBSET Queued :
          /\ Drained(keys) \in [Key -> Job]
          /\ \A x \in keys : Drained(keys)[x] = Blank
          /\ \A x \in Key \ keys : Drained(keys)[x] = job[x]
    BY <1>1, BlankIsJob DEF Drained, TypeOK
<1>4. CASE DropPendingPrewarm
    <2> DEFINE keys == Elems(queue["playlist"])
    <2>1. keys \in SUBSET Queued
        BY DEF Queued, Tier, PrewarmClass
    <2>2. /\ Drain(keys) /\ job' = Drained(keys)
          /\ UNCHANGED <<current, wpc, partial, store, proc, evict>>
        BY <1>4 DEF DropPendingPrewarm
    <2> HIDE DEF keys
    <2>3. DrainedBy(keys)
        BY <1>1, <1>2, <1>3, <2>1, <2>2 DEF DrainedBy
    <2> QED BY <2>1, <2>3
<1>5. CASE ShutdownDrain
    <2>1. /\ Drain(Queued)
          /\ UNCHANGED <<current, wpc, partial, store, evict>>
          /\ \/ current # None /\ job' = [Drained(Queued) EXCEPT ![current].cancel = TRUE]
                              /\ proc' = Terminated
             \/ current = None /\ job' = Drained(Queued) /\ proc' = proc
        BY <1>5 DEF ShutdownDrain, RequestCancel
    <2>2. \A x \in Key \ {current} : job'[x] = Drained(Queued)[x]
        BY <1>3, <2>1
    <2>3. current \in Key => /\ job'[current].urgent = job[current].urgent
                             /\ job'[current].class = job[current].class
                             /\ job[current].cancel => job'[current].cancel
                             /\ job'[current].purged = job[current].purged
        BY <1>1, <1>3, <2>1 DEF Job
    <2>4. DrainedBy(Queued)
        BY <1>1, <1>2, <1>3, <2>1, <2>2, <2>3 DEF DrainedBy
    <2> QED BY <2>4
<1>6. ASSUME NEW some \in SUBSET Key, EvictBegin(some)
      PROVE  \E keys \in SUBSET Queued : DrainedBy(keys)
    <2> DEFINE keys == Queued \cap some
    <2>1. /\ Drain(keys) /\ evict.pc = "idle"
          /\ UNCHANGED <<current, wpc, partial, store>>
          /\ \/ /\ current # None /\ current \in some
                /\ job' = [[Drained(keys) EXCEPT ![current].purged = TRUE] EXCEPT ![current].cancel = TRUE]
                /\ proc' = Terminated /\ evict' = [pc |-> "wait", keys |-> some]
             \/ job' = Drained(keys) /\ proc' = proc
        BY <1>6 DEF EvictBegin, RequestCancel
    <2>2. keys \in SUBSET Queued
        OBVIOUS
    <2> HIDE DEF keys
    <2>3. \A x \in Key \ {current} : job'[x] = Drained(keys)[x]
        BY <1>3, <2>1, <2>2
    <2>4. current \in Key => /\ job'[current].urgent = job[current].urgent
                             /\ job'[current].class = job[current].class
                             /\ job[current].cancel => job'[current].cancel
                             /\ \/ job'[current].purged = job[current].purged
                                \/ evict'.pc = "wait" /\ current \in evict'.keys
        <3>1. CASE job' = Drained(keys)
            BY <1>1, <1>3, <2>2, <3>1
        <3>2. CASE /\ current \in some
                   /\ job' = [[Drained(keys) EXCEPT ![current].purged = TRUE] EXCEPT ![current].cancel = TRUE]
                   /\ evict' = [pc |-> "wait", keys |-> some]
            <4> SUFFICES ASSUME current \in Key
                         PROVE  /\ job'[current].urgent = job[current].urgent
                                /\ job'[current].class = job[current].class
                                /\ job'[current].cancel = TRUE
                                /\ evict'.pc = "wait" /\ current \in evict'.keys
                OBVIOUS
            <4>1. Drained(keys) \in [Key -> Job] /\ Drained(keys)[current] = job[current]
                BY <1>1, <1>3, <2>2
            <4>2. \A d \in [Key -> Job] :
                    LET e == [[d EXCEPT ![current].purged = TRUE] EXCEPT ![current].cancel = TRUE]
                    IN  /\ e[current].urgent = d[current].urgent
                        /\ e[current].class = d[current].class
                        /\ e[current].cancel = TRUE
                BY DEF Job
            <4> QED BY <3>2, <4>1, <4>2
        <3> QED BY <2>1, <3>1, <3>2
    <2>5. DrainedBy(keys)
        BY <1>1, <1>2, <1>3, <2>1, <2>2, <2>3, <2>4 DEF DrainedBy
    <2> QED BY <2>2, <2>5
<1> QED BY <1>4, <1>5, <1>6 DEF DrainKind

\* The steps that leave the deques, the table and every job alone.
Quiet == UNCHANGED <<table, job, queue, current>>

\* Every step is of one of these kinds, as far as deques and jobs go.
LEMMA NextKinds ==
    ASSUME Control, [Next]_vars
    PROVE  \/ Quiet
           \/ \E c \in Caller : \/ PromoteToUrgent(c) \/ PromotePrewarmClass(c)
                               \/ EnqueueUrgent(c) \/ EnqueuePrewarm(c)
           \/ DrainKind
           \/ Pick
           \/ Finish \/ Fail \/ RequeueFails
           \/ Requeue
<1>1. ASSUME NEW c \in Caller, NEW k \in Key, NEW r \in Request, Look(c, k, r) PROVE Quiet
    BY <1>1 DEF Look, Quiet
<1>2. ASSUME NEW c \in Caller, EnqueueRefused(c) \/ EnqueueSkipped(c) \/ Serve(c) PROVE Quiet
    BY <1>2 DEF EnqueueRefused, EnqueueSkipped, Serve, Quiet
<1>3. CASE EvictWait \/ EvictUnlink \/ ShutdownClose \/ ShutdownEnd
    BY <1>3 DEF EvictWait, EvictUnlink, ShutdownClose, ShutdownEnd, Quiet
<1>4. CASE WorkerExit \/ SpawnFails \/ Spawn \/ PublishHandle \/ FfmpegExit \/ Reap \/ Rename
    BY <1>4 DEF WorkerExit, SpawnFails, Spawn, PublishHandle, FfmpegExit, Reap, Rename, Quiet
<1>5. CASE UNCHANGED vars
    BY <1>5 DEF vars, Quiet
<1>6. CASE ForgetPaths \/ ClearCache
    <2>1. \A paths \in SUBSET Path : KeysOf(paths) \in SUBSET Key
        BY DEF KeysOf
    <2> QED BY <1>6, <2>1 DEF ForgetPaths, ClearCache, DrainKind
<1> QED
    BY <1>1, <1>2, <1>3, <1>4, <1>5, <1>6 DEF Next, Enqueue, Worker, Rest, DrainKind

\* The worker takes the head of the best deque.
LEMMA PickEffect ==
    ASSUME Control, JobsPlacedOnce, Pick
    PROVE  /\ current' \in Queued /\ JobsPlacedOnce'
           /\ Queued' = Queued \ {current'}
           /\ \A x \in Queued : Prio(job[x]) <= Prio(job[current'])
<1> USE NoneIsNoKey
<1>1. TypeOK /\ current = None
    BY DEF Control, WorkerControl, Pick
<1>2. PICK t \in Tier : queue[t] # <<>> /\ \A u \in Tier : queue[u] # <<>> => Rank[u] <= Rank[t]
    BY DEF Pick, Tier, PrewarmClass, Rank
<1>3. /\ NextTier \in Tier /\ queue[NextTier] # <<>>
      /\ \A u \in Tier : queue[u] # <<>> => Rank[u] <= Rank[NextTier]
    BY <1>2 DEF NextTier
<1> DEFINE n == NextTier
<1>4. /\ current' = Head(queue[n])
      /\ queue' = [queue EXCEPT ![n] = Tail(queue[n])]
      /\ UNCHANGED <<table, job>>
    BY DEF Pick
<1> HIDE DEF n
<1>5. n \in Tier /\ queue[n] # <<>> /\ queue[n] \in Seq(Key)
    BY <1>1, <1>3 DEF TypeOK, n
<1>6. /\ current' \in Key /\ Elems(queue[n]) = Elems(Tail(queue[n])) \cup {current'}
      /\ Once(queue[n]) => Once(Tail(queue[n])) /\ current' \notin Elems(Tail(queue[n]))
    BY <1>4, <1>5, TailElements
<1>7. \A u \in Tier : Once(queue[u])
    BY DEF JobsPlacedOnce
<1>8. \A u \in Tier : /\ Once(queue'[u])
                      /\ Elems(queue'[u]) = Elems(queue[u]) \ {current'}
    <2> SUFFICES ASSUME NEW u \in Tier
                 PROVE  Once(queue'[u]) /\ Elems(queue'[u]) = Elems(queue[u]) \ {current'}
        OBVIOUS
    <2>1. CASE u = n
        <3>1. queue'[u] = Tail(queue[n])
            BY <1>1, <1>4, <2>1 DEF TypeOK
        <3> QED BY <1>6, <1>7, <2>1, <3>1
    <2>2. CASE u # n
        <3>1. queue'[u] = queue[u]
            BY <1>1, <1>4, <2>2 DEF TypeOK
        <3>2. current' \notin Elems(queue[u])
            BY <1>5, <1>6, <2>2 DEF JobsPlacedOnce
        <3> QED BY <1>7, <3>1, <3>2
    <2> QED BY <2>1, <2>2
<1>9. current' \in Queued
    BY <1>5, <1>6 DEF Queued
<1>10. Queued' = Queued \ {current'}
    <2>1. Queued' = UNION {Elems(queue'[u]) : u \in Tier}
        BY DEF Queued
    <2>2. UNION {Elems(queue'[u]) : u \in Tier} = UNION {Elems(queue[u]) \ {current'} : u \in Tier}
        BY <1>8
    <2> QED BY <2>1, <2>2 DEF Queued
<1>11. table' = Queued' \cup ({current'} \ {None}) /\ current' \notin Queued'
    BY <1>1, <1>4, <1>6, <1>9, <1>10 DEF JobsPlacedOnce
<1>12. \A u, w \in Tier : u # w => Elems(queue'[u]) \cap Elems(queue'[w]) = {}
    BY <1>8 DEF JobsPlacedOnce
<1>13. \A u \in Tier : \A x \in Elems(queue'[u]) : u = TierOf(job'[x])
    BY <1>4, <1>8, PlacedFacts
<1>14. JobsPlacedOnce'
    BY <1>8, <1>11, <1>12, <1>13 DEF JobsPlacedOnce, TierOf
<1>15. \A x \in Queued : Prio(job[x]) <= Prio(job[current'])
    <2> SUFFICES ASSUME NEW x \in Queued PROVE Prio(job[x]) <= Prio(job[current'])
        OBVIOUS
    <2>1. PICK u \in Tier : x \in Elems(queue[u])
        BY DEF Queued
    <2>2. queue[u] # <<>>
        BY <2>1 DEF Elems
    <2>3. u = TierOf(job[x]) /\ n = TierOf(job[current'])
        BY <1>5, <1>6, <2>1, PlacedFacts
    <2>4. job[x] \in Job /\ job[current'] \in Job
        BY <1>1, <1>6, QueuedIsKeys DEF TypeOK
    <2>5. Prio(job[x]) = Rank[u] /\ Prio(job[current']) = Rank[n]
        BY <2>3, <2>4, PrioFacts
    <2> QED BY <1>3, <2>2, <2>5 DEF n
<1> QED BY <1>9, <1>10, <1>14, <1>15

\* The worker lets go of its job.
LEMMA SettleEffect ==
    ASSUME Control, JobsPlacedOnce, Finish \/ Fail \/ RequeueFails
    PROVE  /\ JobsPlacedOnce' /\ current' = None
           /\ table' = table \ {current}
           /\ \A x \in Key \ {current} : job'[x] = job[x]
           /\ ~job'[current].purged \/ current \notin Key
           /\ \E reply : caller' = Release({current}, reply)
<1> USE NoneIsNoKey
<1>1. PICK reply : Settle(reply) /\ UNCHANGED queue
    BY DEF Finish, Fail, RequeueFails
<1>2. TypeOK /\ Queued \subseteq Key
    BY QueuedIsKeys DEF Control
<1>3. /\ current' = None /\ table' = table \ {current}
      /\ job' = [job EXCEPT ![current] = Blank]
      /\ caller' = Release({current}, reply)
    BY <1>1 DEF Settle
<1>4. /\ \A x \in Key \ {current} : job'[x] = job[x]
      /\ current \in Key => ~job'[current].purged
    BY <1>2, <1>3 DEF TypeOK, Blank
<1>5. current \notin Queued /\ table = Queued \cup ({current} \ {None})
    BY DEF JobsPlacedOnce
<1>6. Queued' = Queued
    BY <1>1 DEF Queued
<1>7. current' \notin Queued' /\ table' = Queued' \cup ({current'} \ {None})
    BY <1>2, <1>3, <1>5, <1>6
<1>8. \A t \in Tier : \A x \in Elems(queue[t]) : TierOf(job'[x]) = t
    <2> SUFFICES ASSUME NEW t \in Tier, NEW x \in Elems(queue[t]) PROVE TierOf(job'[x]) = t
        OBVIOUS
    <2>1. x \in Queued
        BY DEF Queued
    <2> QED BY <1>2, <1>4, <1>5, <2>1, PlacedFacts
<1>9. JobsPlacedOnce'
    BY <1>1, <1>7, <1>8 DEF JobsPlacedOnce, TierOf
<1> QED BY <1>3, <1>4, <1>9

\* A preempted job goes back to the head of its own class.
LEMMA RequeueEffect ==
    ASSUME Control, JobsPlacedOnce, Requeue
    PROVE  /\ JobsPlacedOnce' /\ current' = None
           /\ UNCHANGED <<table, caller>>
           /\ ~job[current].purged /\ current \in Key
           /\ \A x \in Key : job'[x].purged = job[x].purged
<1> USE NoneIsNoKey
<1>1. TypeOK /\ current \in Key
    BY DEF Control, TypeOK, WorkerControl, Requeue
<1>2. job[current] \in Job /\ job \in [Key -> Job]
    BY <1>1 DEF TypeOK
<1> DEFINE k == current
           t == job[k].class
           j == [job[k] EXCEPT !.cancel = FALSE, !.urgent = FALSE]
<1>3. /\ current' = None /\ UNCHANGED <<table, caller>> /\ ~job[k].purged
      /\ job' = [job EXCEPT ![k] = j]
      /\ queue' = [queue EXCEPT ![t] = <<k>> \o @]
    BY DEF Requeue, Rearmed
<1>4. ~j.urgent /\ j.class = t /\ j.purged = job[k].purged /\ t \in Tier
    BY <1>2 DEF Job, Tier
<1> HIDE DEF j
<1>5. job'[k] = j /\ \A x \in Key \ {k} : job'[x] = job[x]
    BY <1>1, <1>2, <1>3
<1>6. t = TierOf(job'[k])
    BY <1>4, <1>5 DEF TierOf
<1>7. k \notin Queued /\ table = Queued \cup {k}
    BY <1>1 DEF JobsPlacedOnce
<1>8. Inserted(k, t)
    BY <1>1, <1>3, <1>4, <1>7, InsertedFacts
<1>9. \A x \in Queued \ {k} : TierOf(job'[x]) = TierOf(job[x])
    BY <1>1, <1>5, QueuedIsKeys
<1>10. current' \notin Queued \cup {k} /\ table' = Queued \cup {k} \cup ({current'} \ {None})
    BY <1>1, <1>3, <1>7, QueuedIsKeys
<1>11. JobsPlacedOnce'
    BY <1>1, <1>4, <1>6, <1>8, <1>9, <1>10, PlacedAfterInsert
<1> QED BY <1>1, <1>3, <1>4, <1>5, <1>11

\* Every step places every job once.
LEMMA PlacedStep == Control /\ JobsPlacedOnce /\ [Next]_vars => JobsPlacedOnce'
<1> SUFFICES ASSUME Control, JobsPlacedOnce, [Next]_vars PROVE JobsPlacedOnce'
    OBVIOUS
<1>1. CASE Quiet
    BY <1>1, PlacedUnmoved DEF Quiet
<1>2. ASSUME NEW c \in Caller, \/ PromoteToUrgent(c) \/ PromotePrewarmClass(c)
                               \/ EnqueueUrgent(c) \/ EnqueuePrewarm(c)
      PROVE  JobsPlacedOnce'
    BY <1>2, EnqueueEffect DEF Effect
<1>3. CASE DrainKind
    <2>1. PICK keys \in SUBSET Queued : DrainedBy(keys)
        BY <1>3, DrainKindEffect
    <2> QED BY <2>1, DrainEffect DEF DrainedBy
<1>4. CASE Pick
    BY <1>4, PickEffect
<1>5. CASE Finish \/ Fail \/ RequeueFails
    BY <1>5, SettleEffect
<1>6. CASE Requeue
    BY <1>6, RequeueEffect
<1> QED BY <1>1, <1>2, <1>3, <1>4, <1>5, <1>6, NextKinds

-----------------------------------------------------------------------------
(* Preemption.                                                             *)

\* No step leaves an outranked encode unasked to stop.
LEMMA PreemptionStep ==
    Control /\ JobsPlacedOnce /\ PreemptionPending /\ [Next]_vars => PreemptionPending'
<1> SUFFICES ASSUME Control, JobsPlacedOnce, PreemptionPending, [Next]_vars,
                    current' # None, NEW x \in Queued', Outranks(job', x, current')
             PROVE  job'[current'].cancel
    BY DEF PreemptionPending, Outranks
<1> USE NoneIsNoKey
<1>t. TypeOK /\ Queued \subseteq Key /\ current \in Key \cup {None} /\ job \in [Key -> Job]
    BY QueuedIsKeys DEF Control, TypeOK
<1>p. \A k \in Key : Prio(job[k]) \in 0..3
    BY <1>t, PrioFacts
<1>1. CASE Quiet
    <2>1. Queued' = Queued
        BY <1>1 DEF Quiet, Queued
    <2> QED BY <1>1, <2>1 DEF Quiet, PreemptionPending, Outranks
<1>2. ASSUME NEW c \in Caller, \/ PromoteToUrgent(c) \/ PromotePrewarmClass(c)
                               \/ EnqueueUrgent(c) \/ EnqueuePrewarm(c)
      PROVE  job'[current'].cancel
    <2> DEFINE k == caller[c].key
    <2>1. k \in Key /\ Effect(k) /\ current' = current
        BY <1>2, EnqueueEffect
    <2> HIDE DEF k
    <2>2. \A y \in Key \ {k} : Prio(job'[y]) = Prio(job[y]) /\ (job[y].cancel => job'[y].cancel)
        BY <2>1, SameTier DEF Effect
    <2>3. x \in Queued \cup {k} /\ current \in Key /\ x \in Key
        BY <1>t, <2>1 DEF Effect
    <2>4. CASE x # k /\ current # k
        BY <2>1, <2>2, <2>3, <2>4 DEF PreemptionPending, Outranks
    <2>5. CASE x # k /\ current = k
        <3>1. k \in table
            BY <2>3, <2>5 DEF JobsPlacedOnce
        <3>2. Prio(job'[k]) >= Prio(job[k]) /\ (job[k].cancel => job'[k].cancel)
            BY <2>1, <3>1 DEF Effect
        <3>3. Prio(job'[x]) = Prio(job[x]) /\ x \in Queued
            BY <2>2, <2>3, <2>5
        <3>4. Prio(job'[k]) \in 0..3
            <4>1. job' \in [Key -> Job]
                BY ControlStep DEF Control, TypeOK
            <4> QED BY <2>1, <4>1, PrioFacts
        <3>5. Outranks(job, x, current)
            BY <1>p, <2>1, <2>3, <2>5, <3>2, <3>3, <3>4 DEF Outranks
        <3> QED BY <2>1, <2>3, <2>5, <3>2, <3>3, <3>5 DEF PreemptionPending
    <2>6. CASE x = k
        <3>1. CASE job' = job /\ k \in Queued
            BY <2>1, <2>3, <2>6, <3>1 DEF PreemptionPending
        <3>2. CASE job' = job /\ k \in table /\ k \notin Queued
            <4>1. k = current
                BY <2>3, <3>2 DEF JobsPlacedOnce
            <4> QED BY <2>1, <2>6, <3>2, <4>1, <1>p DEF Outranks
        <3>3. CASE current = k
            <4>1. Outranks(job', k, k)
                BY <2>1, <2>6, <3>3
            <4>2. job' \in [Key -> Job]
                BY ControlStep DEF Control, TypeOK
            <4>3. Prio(job'[k]) \in 0..3
                BY <2>1, <4>2, PrioFacts
            <4> QED BY <4>1, <4>3 DEF Outranks
        <3>4. CASE ~(job' = job /\ k \in table) /\ current # k
            BY <2>1, <2>3, <2>6, <3>4 DEF Effect
        <3> QED BY <3>1, <3>2, <3>3, <3>4
    <2> QED BY <2>4, <2>5, <2>6
<1>3. CASE DrainKind
    <2>1. PICK keys \in SUBSET Queued : DrainedBy(keys)
        BY <1>3, DrainKindEffect
    <2>2. Queued' = Queued \ keys /\ current' = current
        BY <2>1, DrainEffect DEF DrainedBy
    <2>3. x \in Queued /\ x # current /\ x \in Key /\ x \notin keys /\ current \in Key
        BY <1>t, <2>2 DEF JobsPlacedOnce
    <2>4. job'[x] = job[x] /\ Prio(job'[current]) = Prio(job[current])
          /\ (job[current].cancel => job'[current].cancel)
        BY <2>1, <2>3, SameTier DEF DrainedBy
    <2> QED BY <2>2, <2>3, <2>4 DEF PreemptionPending, Outranks
<1>4. CASE Pick
    <2>1. current' \in Queued /\ x \in Queued /\ Prio(job[x]) <= Prio(job[current']) /\ job' = job
        BY <1>4, PickEffect DEF Pick
    <2> QED BY <1>t, <1>p, <2>1 DEF Outranks
<1>5. CASE Finish \/ Fail \/ RequeueFails
    BY <1>5, SettleEffect
<1>6. CASE Requeue
    BY <1>6, RequeueEffect
<1> QED BY <1>1, <1>2, <1>3, <1>4, <1>5, <1>6, NextKinds

-----------------------------------------------------------------------------
(* Waiters, files and purges.                                              *)

\* No step forgets a waiter.
LEMMA WaiterStep ==
    Control /\ JobsPlacedOnce /\ WaiterHasJob /\ [Next]_vars => WaiterHasJob'
<1> SUFFICES ASSUME Control, JobsPlacedOnce, WaiterHasJob, [Next]_vars,
                    NEW d \in Caller, caller'[d].pc = "wait"
             PROVE  caller'[d].key \in table'
    BY DEF WaiterHasJob
<1>t. TypeOK /\ CallControl /\ WorkerControl /\ Queued \subseteq Key
    BY QueuedIsKeys DEF Control
<1>c. \A c \in Caller : caller[c] \in [pc : {"idle", "enqueue", "wait", "serve"},
                                      key : Key \cup {None}, req : Request]
    BY <1>t DEF TypeOK
<1>n. NoCall.pc = "idle"
    BY DEF NoCall
<1>1. ASSUME NEW c \in Caller, NEW k \in Key, NEW r \in Request, Look(c, k, r)
      PROVE  caller'[d].key \in table'
    <2>1. PICK call : /\ caller' = [caller EXCEPT ![c] = call]
                      /\ \/ call = [pc |-> "enqueue", key |-> k, req |-> r]
                         \/ call = [pc |-> "serve", key |-> k, req |-> r]
                         \/ call = NoCall
        BY <1>1 DEF Look
    <2>2. d # c /\ caller'[d] = caller[d]
        <3>1. call.pc # "wait"
            BY <2>1, <1>n
        <3> QED BY <1>t, <2>1, <3>1 DEF TypeOK
    <2> QED BY <1>1, <2>2 DEF WaiterHasJob, Look
<1>2. ASSUME NEW c \in Caller, EnqueueRefused(c) \/ EnqueueSkipped(c) \/ Serve(c)
      PROVE  caller'[d].key \in table'
    <2>1. caller' = [caller EXCEPT ![c] = NoCall] /\ table' = table
        BY <1>2 DEF EnqueueRefused, EnqueueSkipped, Serve
    <2>2. d # c /\ caller'[d] = caller[d]
        BY <1>t, <1>n, <2>1 DEF TypeOK
    <2> QED BY <2>1, <2>2 DEF WaiterHasJob
<1>3. ASSUME NEW c \in Caller, \/ PromoteToUrgent(c) \/ PromotePrewarmClass(c)
                               \/ EnqueueUrgent(c) \/ EnqueuePrewarm(c)
      PROVE  caller'[d].key \in table'
    <2>1. /\ table' = table \cup {caller[c].key}
          /\ caller[c].pc = "enqueue" /\ caller' = Returned(c)
        BY <1>3, EnqueueEffect DEF Effect
    <2>2. caller'[d].key = caller[d].key /\ (d = c \/ caller[d].pc = "wait")
        BY <1>t, <2>1, ReturnedFacts
    <2> QED BY <2>1, <2>2 DEF WaiterHasJob
<1>4. CASE DrainKind
    <2>1. PICK keys \in SUBSET Queued : DrainedBy(keys)
        BY <1>4, DrainKindEffect
    <2>2. table' = table \ keys /\ caller' = Release(keys, "error")
        BY <1>t, <2>1, DrainFacts DEF DrainedBy
    <2> QED BY <1>t, <2>2, ReleaseFacts DEF WaiterHasJob
<1>5. CASE Finish \/ Fail \/ RequeueFails
    <2>1. PICK reply : table' = table \ {current} /\ caller' = Release({current}, reply)
        BY <1>5, SettleEffect
    <2>2. /\ caller[d].pc = "wait"
          /\ caller'[d].key = caller[d].key
          /\ caller'[d].key \notin {current}
        BY <1>t, <2>1, ReleaseFacts
    <2> QED BY <2>1, <2>2 DEF WaiterHasJob
<1>6. CASE Requeue
    BY <1>6, RequeueEffect DEF WaiterHasJob
<1>7. CASE UNCHANGED <<caller, table>>
    BY <1>7 DEF WaiterHasJob
<1>8. \/ EvictWait \/ EvictUnlink \/ ShutdownClose \/ ShutdownEnd \/ Pick \/ WorkerExit
      \/ SpawnFails \/ Spawn \/ PublishHandle \/ FfmpegExit \/ Reap \/ Rename \/ UNCHANGED vars
      => UNCHANGED <<caller, table>>
    BY DEF EvictWait, EvictUnlink, ShutdownClose, ShutdownEnd, Pick, WorkerExit, SpawnFails, Spawn,
           PublishHandle, FfmpegExit, Reap, Rename, vars
<1>9. CASE ForgetPaths \/ ClearCache \/ DropPendingPrewarm \/ ShutdownDrain
    <2>1. \A paths \in SUBSET Path : KeysOf(paths) \in SUBSET Key
        BY DEF KeysOf
    <2>2. DrainKind
        BY <1>9, <2>1 DEF ForgetPaths, ClearCache, DrainKind
    <2> QED BY <1>4, <2>2
<1> QED BY <1>1, <1>2, <1>3, <1>5, <1>6, <1>7, <1>8, <1>9 DEF Next, Enqueue, Worker, Rest

\* No step puts a truncated file under a final name.
LEMMA WholeFilesStep == Control /\ JobsPlacedOnce /\ WholeFilesOnly /\ [Next]_vars => WholeFilesOnly'
<1> SUFFICES ASSUME Control, JobsPlacedOnce, WholeFilesOnly, [Next]_vars PROVE WholeFilesOnly'
    OBVIOUS
<1>t. store \in [Key -> {"absent", "whole", "torn"}] /\ WorkerControl
    BY DEF Control, TypeOK
<1>1. CASE UNCHANGED store
    BY <1>1 DEF WholeFilesOnly
<1>2. CASE Rename
    BY <1>2, <1>t DEF Rename, WholeFilesOnly, WorkerControl
<1>3. CASE EvictUnlink \/ ShutdownEnd
    BY <1>3, <1>t DEF EvictUnlink, ShutdownEnd, WholeFilesOnly
<1>4. \A c \in Caller, k \in Key, r \in Request : Look(c, k, r) => UNCHANGED store
    BY DEF Look
<1>5. \A c \in Caller : Enqueue(c) \/ Serve(c) => UNCHANGED store
    BY DEF Enqueue, EnqueueRefused, PromoteToUrgent, PromotePrewarmClass, EnqueueUrgent,
           EnqueuePrewarm, EnqueueSkipped, Serve
<1>6. DropPendingPrewarm \/ ForgetPaths \/ ClearCache \/ EvictWait \/ ShutdownClose \/ ShutdownDrain
      => UNCHANGED store
    BY DEF DropPendingPrewarm, ForgetPaths, ClearCache, EvictBegin, EvictWait, ShutdownClose,
       ShutdownDrain
<1>7. \/ Pick \/ WorkerExit \/ SpawnFails \/ Spawn \/ PublishHandle \/ Reap \/ Finish \/ Fail
      \/ RequeueFails \/ Requeue \/ FfmpegExit \/ UNCHANGED vars
      => UNCHANGED store
    BY DEF Pick, WorkerExit, SpawnFails, Spawn, PublishHandle, Reap, Finish, Fail,
           RequeueFails, Requeue, FfmpegExit, vars
<1> QED BY <1>1, <1>2, <1>3, <1>4, <1>5, <1>6, <1>7 DEF Next, Worker, Rest

\* No step lets a purged job outlive its eviction's wait.
LEMMA PurgedStep ==
    Control /\ JobsPlacedOnce /\ PurgedIsWaitedFor /\ [Next]_vars => PurgedIsWaitedFor'
<1> SUFFICES ASSUME Control, JobsPlacedOnce, PurgedIsWaitedFor, [Next]_vars,
                    NEW x \in Key, job'[x].purged
             PROVE  x = current' /\ evict'.pc = "wait" /\ x \in evict'.keys
    BY DEF PurgedIsWaitedFor
<1> USE NoneIsNoKey
<1>t. current \in Key \cup {None} /\ Queued \subseteq Key /\ current \notin Queued
    BY QueuedIsKeys DEF Control, TypeOK, JobsPlacedOnce
<1>0. CASE job[x].purged /\ UNCHANGED <<current, evict>>
    BY <1>0 DEF PurgedIsWaitedFor
<1>1. ASSUME NEW c \in Caller, \/ PromoteToUrgent(c) \/ PromotePrewarmClass(c)
                               \/ EnqueueUrgent(c) \/ EnqueuePrewarm(c)
      PROVE  job[x].purged /\ UNCHANGED <<current, evict>>
    BY <1>1, EnqueueEffect DEF Effect
<1>2. CASE DrainKind
    <2>1. PICK keys \in SUBSET Queued : DrainedBy(keys)
        BY <1>2, DrainKindEffect
    <2>2. x \notin keys /\ current' = current
        BY <2>1 DEF DrainedBy
    <2>3. CASE x = current
        BY <2>1, <2>2, <2>3 DEF DrainedBy, PurgedIsWaitedFor
    <2>4. CASE x # current
        BY <2>1, <2>2, <2>4 DEF DrainedBy, PurgedIsWaitedFor
    <2> QED BY <2>3, <2>4
<1>3. CASE Pick
    BY <1>3, <1>t DEF Pick, Control, WorkerControl, PurgedIsWaitedFor
<1>4. CASE Finish \/ Fail \/ RequeueFails
    BY <1>4, SettleEffect DEF PurgedIsWaitedFor
<1>5. CASE Requeue
    BY <1>5, RequeueEffect DEF PurgedIsWaitedFor
<1>6. CASE EvictWait \/ EvictUnlink
    BY <1>6, <1>t DEF EvictWait, EvictUnlink, PurgedIsWaitedFor
<1>7. \A c \in Caller : (\E k \in Key, r \in Request : Look(c, k, r)) \/ EnqueueRefused(c)
                       \/ EnqueueSkipped(c) \/ Serve(c)
      => UNCHANGED <<job, current, evict>>
    BY DEF Look, EnqueueRefused, EnqueueSkipped, Serve
<1>8. \/ ShutdownClose \/ ShutdownEnd \/ WorkerExit \/ SpawnFails \/ Spawn \/ PublishHandle \/ Reap
      \/ Rename \/ FfmpegExit \/ UNCHANGED vars
      => UNCHANGED <<job, current, evict>>
    BY DEF ShutdownClose, ShutdownEnd, WorkerExit, SpawnFails, Spawn, PublishHandle, Reap, Rename,
           FfmpegExit, vars
<1>9. ForgetPaths \/ ClearCache \/ DropPendingPrewarm \/ ShutdownDrain => DrainKind
    <2>1. \A paths \in SUBSET Path : KeysOf(paths) \in SUBSET Key
        BY DEF KeysOf
    <2> QED BY <2>1 DEF ForgetPaths, ClearCache, DrainKind
<1> QED BY <1>0, <1>1, <1>2, <1>3, <1>4, <1>5, <1>6, <1>7, <1>8, <1>9 DEF Next, Enqueue, Worker,
           Rest

-----------------------------------------------------------------------------
(* Theorems.                                                               *)

\* The inductive invariant holds initially.
LEMMA InductiveInit == Init => IInv
<1> SUFFICES ASSUME Init PROVE IInv
    OBVIOUS
<1>1. current = None /\ (\A c \in Caller : caller[c] = NoCall) /\ (\A k \in Key : job[k] = Blank)
      /\ (\A k \in Key : store[k] = "absent")
    BY DEF Init
<1>2. PreemptionPending /\ WaiterHasJob /\ WholeFilesOnly /\ PurgedIsWaitedFor
    BY <1>1 DEF PreemptionPending, WaiterHasJob, WholeFilesOnly, PurgedIsWaitedFor, NoCall, Blank
<1> QED BY <1>2, ControlInit, PlacedInit DEF IInv, Control

\* The inductive invariant is inductive.
LEMMA InductiveStep == IInv /\ [Next]_vars => IInv'
<1> SUFFICES ASSUME IInv, [Next]_vars PROVE IInv'
    OBVIOUS
<1>1. Control
    BY DEF IInv, Control
<1>2. Control' /\ JobsPlacedOnce' /\ PreemptionPending'
    BY <1>1, ControlStep, PlacedStep, PreemptionStep DEF IInv
<1>3. WaiterHasJob' /\ WholeFilesOnly' /\ PurgedIsWaitedFor'
    BY <1>1, WaiterStep, WholeFilesStep, PurgedStep DEF IInv
<1> QED BY <1>2, <1>3 DEF IInv, Control

\* The inductive invariant holds: the worker's control facts, the calls' keys
\* and the five safety properties support each other.
THEOREM Inductive == Spec => []IInv
BY InductiveInit, InductiveStep, PTL DEF Spec

\* The deques, _jobs and _current never disagree about where a job is.
THEOREM Placement == Spec => []JobsPlacedOnce
<1>1. IInv => JobsPlacedOnce
    BY DEF IInv
<1> QED BY <1>1, Inductive, PTL

\* Whatever outranks the running encode, that encode has been asked to stop.
THEOREM Preemption == Spec => []PreemptionPending
<1>1. IInv => PreemptionPending
    BY DEF IInv
<1> QED BY <1>1, Inductive, PTL

\* No blocked play is forgotten by the bookkeeping.
THEOREM Waiters == Spec => []WaiterHasJob
<1>1. IInv => WaiterHasJob
    BY DEF IInv
<1> QED BY <1>1, Inductive, PTL

\* No truncated encode is ever under a final name.
THEOREM WholeFiles == Spec => []WholeFilesOnly
<1>1. IInv => WholeFilesOnly
    BY DEF IInv
<1> QED BY <1>1, Inductive, PTL

\* An eviction outlives the encode it purged.
THEOREM Purges == Spec => []PurgedIsWaitedFor
<1>1. IInv => PurgedIsWaitedFor
    BY DEF IInv
<1> QED BY <1>1, Inductive, PTL
=============================================================================
