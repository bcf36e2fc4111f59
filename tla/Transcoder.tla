------------------------------ MODULE Transcoder ------------------------------
(***************************************************************************)
(* The on-demand encoder of src/src/musicweb/transcode/worker.py: one      *)
(* worker thread, four deques (urgent plays, then radio, download and      *)
(* playlist prewarm), preemption of a running lower-class encode, and the  *)
(* three operations that take work away again: drop_pending_prewarm,       *)
(* forget_paths / clear_cache, and shutdown.                               *)
(*                                                                         *)
(* Every critical section under _queue_cond is one action.  What the code  *)
(* does outside the lock is an action of its own: the look at the cache    *)
(* before enqueueing, popen, the store of the process handle on the job,   *)
(* the end of ffmpeg, the checks after communicate(), the rename, and the  *)
(* unlinks of an eviction.  A job object is identified with its key: the   *)
(* worker's last locked section and the done.set() that follows it are one *)
(* step, since only the job's own waiters can tell them apart.             *)
(***************************************************************************)
EXTENDS Integers, Sequences, FiniteSets

CONSTANTS
    Path,        \* library-relative paths
    Profile,     \* stream profile tags
    Caller,      \* threads that call ensure_stream / prepare
    MaxPending,  \* MAX_PENDING_PREWARM, the cap of one prewarm deque
    MaxAsk,      \* bound on the number of requests in a behaviour
    None         \* no current job

ASSUME TranscoderAssumption ==
    /\ MaxPending \in Nat \ {0}
    /\ MaxAsk \in Nat
    /\ None \notin Path \X Profile

\* _cache_key: sha256 of path and tag, injective, so the pair itself.
Key == Path \X Profile
KeysOf(paths) == {k \in Key : k[1] \in paths}

PrewarmClass == {"radio", "download", "playlist"}
Tier == {"urgent"} \cup PrewarmClass
Rank == [t \in Tier |-> CASE t = "urgent"   -> 3
                          [] t = "radio"    -> 2
                          [] t = "download" -> 1
                          [] t = "playlist" -> 0]

\* What a call asks for.  ensure_stream is urgent, waits, and has the default
\* class; prepare never waits.
Request ==
    {r \in [urgent : BOOLEAN, class : PrewarmClass, waits : BOOLEAN] :
        r.waits => r.urgent /\ r.class = "playlist"}

Job == [urgent : BOOLEAN, class : PrewarmClass, cancel : BOOLEAN, purged : BOOLEAN]
Blank == [urgent |-> FALSE, class |-> "playlist", cancel |-> FALSE, purged |-> FALSE]

NoCall == [pc  |-> "idle", key |-> None,
           req |-> [urgent |-> FALSE, class |-> "playlist", waits |-> FALSE]]

VARIABLES
    closed,   \* _closed
    stage,    \* progress of shutdown()
    table,    \* keys of _jobs
    job,      \* fields of the job object of each key in table, Blank elsewhere
    queue,    \* the four deques, head first
    current,  \* key of _current
    wpc,      \* where the worker thread is
    proc,     \* the ffmpeg child of the current job and whether job.proc is set
    partial,  \* keys whose .partial name exists
    store,    \* the final cache file of each key
    caller,   \* the calls in progress
    evict,    \* forget_paths / clear_cache in progress (one at a time)
    asked     \* requests so far

vars == <<closed, stage, table, job, queue, current, wpc, proc, partial, store,
          caller, evict, asked>>

ProcState == {"none", "spawned", "running", "killed", "ok", "bad"}

TypeOK ==
    /\ closed \in BOOLEAN
    /\ stage \in {"up", "closing", "joining", "down"}
    /\ table \subseteq Key
    /\ job \in [Key -> Job]
    /\ queue \in [Tier -> Seq(Key)]
    /\ current \in Key \cup {None}
    /\ wpc \in {"pick", "run", "communicate", "rename", "requeue", "finish", "fail", "exited"}
    /\ proc \in ProcState
    /\ partial \subseteq Key
    /\ store \in [Key -> {"absent", "whole", "torn"}]
    /\ caller \in [Caller -> [pc  : {"idle", "enqueue", "wait", "serve"},
                              key : Key \cup {None}, req : Request]]
    /\ evict \in [pc : {"idle", "wait", "unlink"}, keys : SUBSET Key]
    /\ asked \in 0..MaxAsk

Init ==
    /\ closed = FALSE
    /\ stage = "up"
    /\ table = {}
    /\ job = [k \in Key |-> Blank]
    /\ queue = [t \in Tier |-> <<>>]
    /\ current = None
    /\ wpc = "pick"
    /\ proc = "none"
    /\ partial = {}
    /\ store = [k \in Key |-> "absent"]
    /\ caller = [c \in Caller |-> NoCall]
    /\ evict = [pc |-> "idle", keys |-> {}]
    /\ asked = 0

-----------------------------------------------------------------------------
(* Deques.  Without is SelectSeq, written without recursion so that the    *)
(* prover can reason about it.                                             *)

Elems(s) == {s[i] : i \in DOMAIN s}
Once(s) == \A i, j \in DOMAIN s : s[i] = s[j] => i = j
Kept(s, gone) == {i \in DOMAIN s : s[i] \notin gone}
Without(s, gone) ==
    [n \in 1..Cardinality(Kept(s, gone)) |->
        s[CHOOSE i \in Kept(s, gone) : Cardinality(Kept(s, gone) \cap 1..i) = n]]

Queued == UNION {Elems(queue[t]) : t \in Tier}

\* The class a job competes in.
Prio(j) == IF j.urgent THEN Rank["urgent"] ELSE Rank[j.class]
Outranks(jobs, k, c) == Prio(jobs[k]) > Prio(jobs[c])

\* _remove_from_prewarm, and whether it found the key.
PendingPrewarm(k) == \E t \in PrewarmClass : k \in Elems(queue[t])
\* Mutant: the radio deque only.
RemovedFromFirst(k) == [queue EXCEPT !["radio"] = Without(@, {k})]
RemovedFromPrewarm(k) ==
    [t \in Tier |-> IF t = "urgent" THEN queue[t] ELSE Without(queue[t], {k})]

\* proc.terminate() reaches ffmpeg only once the handle is on the job.
Terminated == IF proc = "running" THEN "killed" ELSE proc

\* _request_cancel on the current job, starting from the job fields jobs.
RequestCancel(jobs) ==
    /\ job' = [jobs EXCEPT ![current].cancel = TRUE]
    /\ proc' = Terminated

\* Mutant: only a play preempts.
PreemptForPlayOnly(jobs, k) ==
    IF current # None /\ current # k /\ jobs[k].urgent /\ ~jobs[current].urgent
    THEN RequestCancel(jobs)
    ELSE job' = jobs /\ UNCHANGED proc

\* _preempt_if_outranked: k was queued or promoted, with job fields jobs.
PreemptIfOutranked(jobs, k) ==
    IF current # None /\ current # k /\ Outranks(jobs, k, current)
    THEN RequestCancel(jobs)
    ELSE job' = jobs /\ UNCHANGED proc

\* done.set() on the jobs of keys: their waiters return with reply.
Release(keys, reply) ==
    [c \in Caller |->
        IF caller[c].pc = "wait" /\ caller[c].key \in keys
        THEN IF reply = "path" THEN [caller[c] EXCEPT !.pc = "serve"] ELSE NoCall
        ELSE caller[c]]

\* _drain_queues / _drain_matching: fail the queued jobs of keys.
Drained(keys) == [k \in Key |-> IF k \in keys THEN Blank ELSE job[k]]
\* Mutant: the waiters are not told.
DrainSilently(keys) ==
    /\ queue' = [t \in Tier |-> Without(queue[t], keys)]
    /\ table' = table \ keys
    /\ UNCHANGED caller
Drain(keys) ==
    /\ queue' = [t \in Tier |-> Without(queue[t], keys)]
    /\ table' = table \ keys
    /\ caller' = Release(keys, "error")

-----------------------------------------------------------------------------
(* Calls: ensure_stream, prepare.                                          *)

\* The part of a call before the lock: refused once closed, and the
\* unlocked look at the cache.
Look(c, k, r) ==
    /\ caller[c].pc = "idle"
    /\ ~closed
    /\ asked < MaxAsk
    /\ asked' = asked + 1
    /\ caller' = [caller EXCEPT ![c] =
           CASE store[k] = "absent"            -> [pc |-> "enqueue", key |-> k, req |-> r]
             [] store[k] # "absent" /\ r.waits -> [pc |-> "serve", key |-> k, req |-> r]
             [] OTHER                          -> NoCall]
    /\ UNCHANGED <<closed, stage, table, job, queue, current, wpc, proc, partial,
                   store, evict>>

\* What the call does next once its job exists: wait for it, or return.
Returned(c) == [caller EXCEPT ![c] = IF @.req.waits THEN [@ EXCEPT !.pc = "wait"] ELSE NoCall]

\* Mutant: _closed is not read again under the lock.
AdmittedOnce(c) == caller[c].pc = "enqueue"
\* The lock is held and _closed has been read again.
Admitted(c) == caller[c].pc = "enqueue" /\ ~closed

EnqueueRefused(c) ==
    /\ caller[c].pc = "enqueue"
    /\ closed
    /\ caller' = [caller EXCEPT ![c] = NoCall]
    /\ UNCHANGED <<closed, stage, table, job, queue, current, wpc, proc, partial,
                   store, evict, asked>>

\* _promote_to_urgent
PromoteToUrgent(c) ==
    LET k == caller[c].key IN
    /\ Admitted(c)
    /\ k \in table
    /\ caller[c].req.urgent
    /\ queue' = IF PendingPrewarm(k)
                THEN [RemovedFromPrewarm(k) EXCEPT !["urgent"] = <<k>> \o @]
                ELSE queue
    /\ PreemptIfOutranked([job EXCEPT ![k].urgent = TRUE], k)
    /\ caller' = Returned(c)
    /\ UNCHANGED <<closed, stage, table, current, wpc, partial, store, evict, asked>>

\* _promote_prewarm_class: raise the class, never demote, never touch urgent.
PromotePrewarmClass(c) ==
    LET k == caller[c].key
        class == caller[c].req.class
        rises == ~job[k].urgent /\ Rank[class] > Rank[job[k].class]
    IN
    /\ Admitted(c)
    /\ k \in table
    /\ ~caller[c].req.urgent
    /\ IF rises
       THEN /\ queue' = IF PendingPrewarm(k)
                        THEN [RemovedFromPrewarm(k) EXCEPT ![class] = Append(@, k)]
                        ELSE queue
            /\ PreemptIfOutranked([job EXCEPT ![k].class = class], k)
       ELSE UNCHANGED <<queue, job, proc>>
    /\ caller' = Returned(c)
    /\ UNCHANGED <<closed, stage, table, current, wpc, partial, store, evict, asked>>

NewJob(c) == [Blank EXCEPT !.urgent = caller[c].req.urgent, !.class = caller[c].req.class]

EnqueueUrgent(c) ==
    LET k == caller[c].key IN
    /\ Admitted(c)
    /\ k \notin table
    /\ caller[c].req.urgent
    /\ table' = table \cup {k}
    /\ queue' = [queue EXCEPT !["urgent"] = <<k>> \o @]
    /\ PreemptIfOutranked([job EXCEPT ![k] = NewJob(c)], k)
    /\ caller' = Returned(c)
    /\ UNCHANGED <<closed, stage, current, wpc, partial, store, evict, asked>>

EnqueuePrewarm(c) ==
    LET k == caller[c].key
        class == caller[c].req.class
    IN
    /\ Admitted(c)
    /\ k \notin table
    /\ ~caller[c].req.urgent
    /\ Len(queue[class]) < MaxPending
    /\ table' = table \cup {k}
    /\ queue' = [queue EXCEPT ![class] = Append(@, k)]
    /\ PreemptIfOutranked([job EXCEPT ![k] = NewJob(c)], k)
    /\ caller' = Returned(c)
    /\ UNCHANGED <<closed, stage, current, wpc, partial, store, evict, asked>>

\* The cap: "skipped".
EnqueueSkipped(c) ==
    /\ Admitted(c)
    /\ caller[c].key \notin table
    /\ ~caller[c].req.urgent
    /\ Len(queue[caller[c].req.class]) >= MaxPending
    /\ caller' = [caller EXCEPT ![c] = NoCall]
    /\ UNCHANGED <<closed, stage, table, job, queue, current, wpc, proc, partial,
                   store, evict, asked>>

Enqueue(c) ==
    \/ EnqueueRefused(c)
    \/ PromoteToUrgent(c)
    \/ PromotePrewarmClass(c)
    \/ EnqueueUrgent(c)
    \/ EnqueuePrewarm(c)
    \/ EnqueueSkipped(c)

\* The caller opens the path it was given (routes/media.py FileResponse).
Serve(c) ==
    /\ caller[c].pc = "serve"
    /\ caller' = [caller EXCEPT ![c] = NoCall]
    /\ UNCHANGED <<closed, stage, table, job, queue, current, wpc, proc, partial,
                   store, evict, asked>>

-----------------------------------------------------------------------------
(* Operations that take work away.                                         *)

\* drop_pending_prewarm: the playlist deque only.
DropPendingPrewarm ==
    LET dropped == Elems(queue["playlist"]) IN
    /\ dropped # {}
    /\ Drain(dropped)
    /\ job' = Drained(dropped)
    /\ UNCHANGED <<closed, stage, current, wpc, proc, partial, store, evict, asked>>

\* The locked part of forget_paths (keys of the paths) and clear_cache (all).
EvictBegin(keys) ==
    LET mine == current # None /\ current \in keys IN
    /\ stage # "down"
    /\ evict.pc = "idle"
    /\ Drain(Queued \cap keys)
    /\ IF mine
       THEN RequestCancel([Drained(Queued \cap keys) EXCEPT ![current].purged = TRUE])
       ELSE job' = Drained(Queued \cap keys) /\ UNCHANGED proc
    /\ evict' = [pc |-> IF mine THEN "wait" ELSE "unlink", keys |-> keys]
    /\ UNCHANGED <<closed, stage, current, wpc, partial, store, asked>>

ForgetPaths == \E paths \in (SUBSET Path) \ {{}} : EvictBegin(KeysOf(paths))
ClearCache == EvictBegin(Key)

\* Mutant: the wait gives up.
EvictWaitTimesOut ==
    /\ evict.pc = "wait"
    /\ evict' = [evict EXCEPT !.pc = "unlink"]
    /\ UNCHANGED <<closed, stage, table, job, queue, current, wpc, proc, partial,
                   store, caller, asked>>

\* "while self._current is not None": any current job, not only the purged one.
EvictWait ==
    /\ evict.pc = "wait"
    /\ current = None
    /\ evict' = [evict EXCEPT !.pc = "unlink"]
    /\ UNCHANGED <<closed, stage, table, job, queue, current, wpc, proc, partial,
                   store, caller, asked>>

\* Outside the lock: unlink the final and the .partial files.
EvictUnlink ==
    /\ evict.pc = "unlink"
    /\ store' = [k \in Key |-> IF k \in evict.keys THEN "absent" ELSE store[k]]
    /\ partial' = partial \ evict.keys
    /\ evict' = [pc |-> "idle", keys |-> {}]
    /\ UNCHANGED <<closed, stage, table, job, queue, current, wpc, proc, caller, asked>>

ShutdownClose ==
    /\ stage = "up"
    /\ closed' = TRUE
    /\ stage' = "closing"
    /\ UNCHANGED <<table, job, queue, current, wpc, proc, partial, store, caller,
                   evict, asked>>

\* The locked part: fail what is queued, cancel what runs.
ShutdownDrain ==
    /\ stage = "closing"
    /\ stage' = "joining"
    /\ Drain(Queued)
    /\ IF current # None
       THEN RequestCancel(Drained(Queued))
       ELSE job' = Drained(Queued) /\ UNCHANGED proc
    /\ UNCHANGED <<closed, current, wpc, partial, store, evict, asked>>

\* join(timeout=5): the worker has ended, or it took too long.  Then
\* ProcessCache.shutdown removes the tree.
ShutdownEnd ==
    /\ stage = "joining"
    /\ stage' = "down"
    /\ store' = [k \in Key |-> "absent"]
    /\ partial' = {}
    /\ UNCHANGED <<closed, table, job, queue, current, wpc, proc, caller, evict, asked>>

-----------------------------------------------------------------------------
(* The worker thread.                                                      *)

\* The best non-empty deque.
NextTier == CHOOSE t \in Tier :
                /\ queue[t] # <<>>
                /\ \A u \in Tier : queue[u] # <<>> => Rank[u] <= Rank[t]

Pick ==
    /\ wpc = "pick"
    /\ ~closed
    /\ \E t \in Tier : queue[t] # <<>>
    /\ current' = Head(queue[NextTier])
    /\ queue' = [queue EXCEPT ![NextTier] = Tail(@)]
    /\ wpc' = "run"
    /\ UNCHANGED <<closed, stage, table, job, proc, partial, store, caller, evict, asked>>

WorkerExit ==
    /\ wpc = "pick"
    /\ closed
    /\ wpc' = "exited"
    /\ UNCHANGED <<closed, stage, table, job, queue, current, proc, partial, store,
                   caller, evict, asked>>

\* _run_job up to popen: refused once closed (cancel_requested is not read),
\* or popen fails, or ffmpeg starts and opens the .partial.
SpawnFails ==
    /\ wpc = "run"
    /\ wpc' = "fail"
    /\ partial' = partial \ {current}
    /\ UNCHANGED <<closed, stage, table, job, queue, current, proc, store, caller,
                   evict, asked>>

Spawn ==
    /\ wpc = "run"
    /\ ~closed
    /\ wpc' = "communicate"
    /\ proc' = "spawned"
    /\ partial' = partial \cup {current}
    /\ UNCHANGED <<closed, stage, table, job, queue, current, store, caller, evict, asked>>

\* job.proc = proc
PublishHandle ==
    /\ proc = "spawned"
    /\ proc' = "running"
    /\ UNCHANGED <<closed, stage, table, job, queue, current, wpc, partial, store,
                   caller, evict, asked>>

\* ffmpeg ends by itself, well or badly, or because it was terminated.
FfmpegExit ==
    /\ \/ proc = "running" /\ proc' \in {"ok", "bad"}
       \/ proc = "killed" /\ proc' = "bad"
    /\ UNCHANGED <<closed, stage, table, job, queue, current, wpc, partial, store,
                   caller, evict, asked>>

\* Mutant: the exit status of ffmpeg is not looked at.
VerdictWithoutStatus ==
    IF job[current].cancel THEN "requeue"
    ELSE IF closed \/ current \notin partial THEN "fail"
    ELSE "rename"
\* The checks after communicate(), in the code's order.
Verdict ==
    IF job[current].cancel THEN "requeue"
    ELSE IF closed \/ proc = "bad" \/ current \notin partial THEN "fail"
    ELSE "rename"

Reap ==
    /\ wpc = "communicate"
    /\ proc \in {"ok", "bad"}
    /\ wpc' = Verdict
    /\ partial' = IF Verdict = "rename" THEN partial ELSE partial \ {current}
    /\ UNCHANGED <<closed, stage, table, job, queue, current, proc, store, caller,
                   evict, asked>>

\* partial.replace(out_path): fails if an eviction unlinked the .partial.
Rename ==
    /\ wpc = "rename"
    /\ IF current \in partial
       THEN /\ store' = [store EXCEPT ![current] = IF proc = "ok" THEN "whole" ELSE "torn"]
            /\ wpc' = "finish"
       ELSE /\ wpc' = "fail"
            /\ UNCHANGED store
    /\ partial' = partial \ {current}
    /\ UNCHANGED <<closed, stage, table, job, queue, current, proc, caller, evict, asked>>

\* The worker lets go of the current job: current and table are cleared, its
\* waiters return with reply.
\* Mutant: _current is left behind.
SettleKeepsCurrent(reply) ==
    /\ wpc' = "pick"
    /\ proc' = "none"
    /\ UNCHANGED current
    /\ table' = table \ {current}
    /\ job' = [job EXCEPT ![current] = Blank]
    /\ caller' = Release({current}, reply)
Settle(reply) ==
    /\ wpc' = "pick"
    /\ proc' = "none"
    /\ current' = None
    /\ table' = table \ {current}
    /\ job' = [job EXCEPT ![current] = Blank]
    /\ caller' = Release({current}, reply)

Finish ==
    /\ wpc = "finish"
    /\ Settle("path")
    /\ UNCHANGED <<closed, stage, queue, partial, store, evict, asked>>

Fail ==
    /\ wpc = "fail"
    /\ Settle("error")
    /\ UNCHANGED <<closed, stage, queue, partial, store, evict, asked>>

\* _requeue_canceled: fail a purged job or any job once closed; else re-arm
\* it at the head of its own class, urgent no more.
RequeueFails ==
    /\ wpc = "requeue"
    /\ closed \/ job[current].purged
    /\ Settle("error")
    /\ UNCHANGED <<closed, stage, queue, partial, store, evict, asked>>

\* Mutant: the cancel flag is not reset.
RearmedCanceled == [job EXCEPT ![current] = [@ EXCEPT !.urgent = FALSE]]
Rearmed == [job EXCEPT ![current] = [@ EXCEPT !.cancel = FALSE, !.urgent = FALSE]]

Requeue ==
    /\ wpc = "requeue"
    /\ ~closed /\ ~job[current].purged
    /\ wpc' = "pick"
    /\ proc' = "none"
    /\ current' = None
    /\ job' = Rearmed
    /\ queue' = [queue EXCEPT ![job[current].class] = <<current>> \o @]
    /\ UNCHANGED <<closed, stage, table, partial, store, caller, evict, asked>>

Worker == \/ Pick \/ WorkerExit \/ SpawnFails \/ Spawn \/ PublishHandle \/ Reap \/ Rename
          \/ Finish \/ Fail \/ RequeueFails \/ Requeue

-----------------------------------------------------------------------------

\* The system may rest: nobody asks, or it is down.
Rest ==
    /\ stage = "down" /\ wpc = "exited" /\ evict.pc = "idle"
    /\ \A c \in Caller : caller[c].pc = "idle"
    /\ UNCHANGED vars

Next ==
    \/ \E c \in Caller, k \in Key, r \in Request : Look(c, k, r)
    \/ \E c \in Caller : Enqueue(c) \/ Serve(c)
    \/ DropPendingPrewarm
    \/ ForgetPaths
    \/ ClearCache
    \/ EvictWait
    \/ EvictUnlink
    \/ ShutdownClose
    \/ ShutdownDrain
    \/ ShutdownEnd
    \/ Worker
    \/ FfmpegExit
    \/ Rest

Spec == Init /\ [][Next]_vars

\* Every thread that is inside an operation goes on; ffmpeg ends.  Nothing
\* obliges anybody to ask, to evict or to shut down.
Fairness ==
    /\ WF_vars(Worker)
    /\ WF_vars(FfmpegExit)
    /\ \A c \in Caller : WF_vars(Enqueue(c)) /\ WF_vars(Serve(c))
    /\ WF_vars(EvictWait)
    /\ WF_vars(EvictUnlink)
    /\ WF_vars(ShutdownDrain)
    /\ WF_vars(ShutdownEnd)

FairSpec == Spec /\ Fairness

-----------------------------------------------------------------------------
(* Properties.                                                             *)

\* The four deques, _current and _jobs agree: a key waits in at most one
\* place, the running job waits nowhere, _jobs holds exactly the queued jobs
\* and the running one, and a job waits in the deque of its class.  Promotion,
\* re-queueing, draining and completion each touch two of the three.
JobsPlacedOnce ==
    /\ \A t \in Tier : Once(queue[t])
    /\ \A t, u \in Tier : t # u => Elems(queue[t]) \cap Elems(queue[u]) = {}
    /\ current \notin Queued
    /\ table = Queued \cup ({current} \ {None})
    /\ \A t \in Tier : \A k \in Elems(queue[t]) :
           IF job[k].urgent THEN t = "urgent" ELSE t = job[k].class

\* A running encode that something queued outranks has been asked to stop,
\* however the outranking came about: a new job, a promotion of a queued one,
\* a re-queue, a worker that had just picked.
PreemptionPending ==
    current # None =>
        \A k \in Queued : Outranks(job, k, current) => job[current].cancel

\* A thread blocked on done.wait() has a job that some path will still
\* complete: no drain, purge or completion forgets its waiters.
WaiterHasJob == \A c \in Caller : caller[c].pc = "wait" => caller[c].key \in table

\* A cache file under its final name was written by an ffmpeg that ended
\* well: a preempted, failed or killed encode is never served as complete.
WholeFilesOnly == \A k \in Key : store[k] # "torn"

\* A purged job is the running one and lives only while the eviction that
\* purged it still waits: its file cannot come back after the unlinks.
PurgedIsWaitedFor ==
    \A k \in Key : job[k].purged =>
        k = current /\ evict.pc = "wait" /\ k \in evict.keys

\* Once requests stop coming, a blocked play returns: preemptions, re-queues,
\* promotions and evictions end and every job reaches its waiters.
PlayAnswered == \A c \in Caller : caller[c].pc = "wait" ~> caller[c].pc # "wait"

\* forget_paths and clear_cache return (they hold the HTTP gate meanwhile).
EvictionEnds == evict.pc = "wait" ~> evict.pc = "idle"

\* Shutdown leaves no thread blocked, even one that enqueued while it drained.
ShutdownReleases ==
    stage = "closing" ~> wpc = "exited" /\ \A c \in Caller : caller[c].pc = "idle"

-----------------------------------------------------------------------------
(* The inductive invariant behind the five safety properties.              *)

\* The worker has a current job exactly between its pick and its last locked
\* section, the handle is published during communicate() only, and an encode
\* goes to the rename only after ffmpeg ended well.
WorkerControl ==
    /\ wpc \in {"pick", "exited"} <=> current = None
    /\ proc = "spawned" => wpc = "communicate"
    /\ wpc = "rename" => proc = "ok"

\* A call in progress has a key.
CallControl == \A c \in Caller : caller[c].pc # "idle" => caller[c].key \in Key

IInv ==
    /\ TypeOK
    /\ WorkerControl
    /\ CallControl
    /\ JobsPlacedOnce
    /\ PreemptionPending
    /\ WaiterHasJob
    /\ WholeFilesOnly
    /\ PurgedIsWaitedFor

-----------------------------------------------------------------------------
(* What the documentation says and the code does not do.                   *)

\* worker.py: a higher-class request "preempts a running lower-class encode":
\* no ffmpeg whose handle is on the job runs on after the cancel request.
CancelReachesFfmpeg == proc = "running" => ~job[current].cancel

\* worker.py: a prewarm job asked for by a play "is promoted to the urgent
\* tier": while the play waits, its job competes as urgent.
PlayStaysUrgent ==
    \A c \in Caller : caller[c].pc = "wait" => job[caller[c].key].urgent
=============================================================================
