------------------------------ MODULE DownloadQueue ------------------------------
(***************************************************************************)
(* The download queue of the browser (downloads/queue.ts, queueRuntime.ts, *)
(* queuePolicy.ts, worker.ts) with its catalog rows (writer.ts) and files. *)
(*                                                                         *)
(* One thread runs every function to its next await.  A request to the     *)
(* database or to the file system takes effect where it is issued, in the  *)
(* order of issue; its answer is read when the function goes on, and by    *)
(* then others may have written.  An action is one such stretch: it reads  *)
(* the answer it kept, tests, assigns, and issues the next request.        *)
(***************************************************************************)
EXTENDS Naturals, FiniteSets, DownloadFile

CONSTANTS
    Track,        \* tracks, each with one codec: one file and one queue key
    Cap,          \* the values the cap of concurrent jobs is set to
    MaxId,        \* bound: rows that are ever added
    Pump,         \* bound: pumps at a time, 1 .. n
    Job,          \* bound: jobs at a time, 1 .. n
    Sweep,        \* bound: commands at a time that list rows and write them
    MaxEvents,    \* bound: commands of the user, failures, timers of progress
    None

ASSUME DownloadQueueAssumption ==
    /\ MaxId \in Nat /\ IsFiniteSet(Track) /\ Cardinality(Track) \in 1..MaxId
    /\ Cap \subseteq Nat \ {0} /\ Cap # {}
    /\ Pump \subseteq Nat /\ Job \subseteq Nat /\ Sweep \subseteq Nat
    /\ MaxEvents \in Nat
    /\ None \notin Track \cup Job

VARIABLES
    queue,        \* the store "queue": id -> row or None
    nextId,       \* the key the store assigns next
    cat,          \* the tracks with a catalog row that is ready
    file,         \* track -> its File
    activeIds,    \* ids the runtime counts against the cap
    controllers,  \* id -> the job whose AbortController is stored, or None
    userPaused,
    net,          \* "online" or "down"
    cap,          \* downloads.concurrency
    scheduled,    \* a pump is scheduled: pumpScheduled or the hook of a change
    pump, job, sweep,  \* the functions that run
    events,       \* how many of the bounded events have happened
    raced,       \* ghost: a row or a file was written over what another had made of it
    refused       \* ghost: the database refused the pump's write

store == <<queue, nextId, cat, file>>
runtime == <<activeIds, controllers, userPaused, net, cap, scheduled>>
vars == <<store, runtime, pump, job, sweep, events, raced, refused>>

Id == 1..MaxId
State == {"pending", "active", "paused", "failed", "canceled"}
Row == [track : Track, state : State]
Rows == [Id -> Row \cup {None}]
Reason == {"go", "pause", "demote", "cancel", "clear"}

\* A job: the row as it last read it, the offset and the copy it writes, why
\* it was told to stop ("go": it was not), and the outcome it comes to.
JobRecord == [pc : {"check", "refresh", "fetch", "write", "close", "swap", "copy", "drop",
                    "verify", "refetch", "aborted", "apply", "caught", "unwind"},
              id : Id, track : Track, read : State \cup {None},
              offset : Bytes, base : {"clean", "gap"}, why : Reason,
              outcome : {"none", "done", "canceled", "paused", "queued", "failed", "network"},
              files : BOOLEAN, live : BOOLEAN]
PumpRecord == [pc : {"listed", "put"}, id : Id, track : Track]
SweepRecord == [kind : {"reapply", "freeze", "unpause", "abort", "cancel", "retry", "clear",
                        "clearAll", "demote", "flush", "remove"},
                rows : Rows, why : Reason, track : Track \cup {None}, by : Job \cup {None}]

ASSUME NoneAssumption ==
    None \notin Row \cup State \cup PumpRecord \cup JobRecord \cup SweepRecord

TypeOK ==
    /\ queue \in Rows /\ nextId \in 1..(MaxId + 1)
    /\ cat \subseteq Track /\ file \in [Track -> File]
    /\ activeIds \subseteq Id /\ controllers \in [Id -> Job \cup {None}]
    /\ userPaused \in BOOLEAN /\ net \in {"online", "down"}
    /\ cap \in Cap /\ scheduled \in BOOLEAN
    /\ pump \in [Pump -> PumpRecord \cup {None}]
    /\ job \in [Job -> JobRecord \cup {None}]
    /\ sweep \in [Sweep -> SweepRecord \cup {None}]
    /\ events \in 0..MaxEvents
    /\ raced \in BOOLEAN /\ refused \in BOOLEAN

\* Every track has just been added (enqueueMany), in some order: tracks are
\* interchangeable.
Order == CHOOSE order \in [1..Cardinality(Track) -> Track] :
             \A t \in Track : \E n \in DOMAIN order : order[n] = t

Init ==
    /\ queue = [i \in Id |-> IF i <= Cardinality(Track)
                            THEN [track |-> Order[i], state |-> "pending"] ELSE None]
    /\ nextId = Cardinality(Track) + 1
    /\ cat = {} /\ file = [t \in Track |-> Absent]
    /\ activeIds = {} /\ controllers = [i \in Id |-> None]
    /\ userPaused = FALSE /\ net = "online" /\ cap \in Cap /\ scheduled = TRUE
    /\ pump = [p \in Pump |-> None]
    /\ job = [j \in Job |-> None]
    /\ sweep = [s \in Sweep |-> None]
    /\ events = 0 /\ raced = FALSE /\ refused = FALSE

-----------------------------------------------------------------------------
(* The store "queue".  The index on the track is unique: a write that       *)
(* would break it is refused, and with it all of its transaction.           *)

Unique(q) == \A i, k \in Id : i # k /\ q[i] # None /\ q[k] # None => q[i].track # q[k].track

\* What writing the rows w over the ids I leaves.
Written(q, I, w) == LET new == [i \in Id |-> IF i \in I THEN w[i] ELSE q[i]] IN
                    IF Unique(new) THEN new ELSE q

InState(q, S) == {i \in Id : q[i] # None /\ q[i].state \in S}
Marked(q, I, st) == [i \in Id |-> IF i \in I THEN [q[i] EXCEPT !.state = st] ELSE q[i]]
StateOf(q, i) == IF q[i] = None THEN None ELSE q[i].state

\* canPump: neither the user nor the policy holds the queue.
CanPump == ~userPaused /\ net = "online"
Room == Cardinality(activeIds) < cap

\* What the model bounds.
Event == events < MaxEvents /\ events' = events + 1

\* emitQueueChange: its hook ends in schedulePump.
Emit == scheduled' = TRUE

FirstFree(f, p) == f[p] = None /\ \A q \in DOMAIN f : q < p => f[q] # None

\* Who has the file of a track: a job, or the pump that starts one; a command
\* that is about to remove it.
HasJob(t) == \/ \E j \in Job : job[j] # None /\ job[j].track = t
             \/ \E p \in Pump : pump[p] # None /\ pump[p].pc = "put" /\ pump[p].track = t
Held(t) == \/ HasJob(t)
           \/ \E s \in Sweep : sweep[s] # None /\
                 \/ sweep[s].track = t
                 \/ /\ sweep[s].kind \in {"cancel", "clear", "clearAll"}
                    /\ \E i \in Id : sweep[s].rows[i] # None /\ sweep[s].rows[i].track = t

-----------------------------------------------------------------------------
(* The pump.                                                               *)

First(I) == CHOOSE i \in I : \A k \in I : i <= k

\* The turn of a pump: it lists the rows, and goes on with the first pending.
Listing ==
    LET pending == InState(queue, {"pending"}) IN
    IF Room /\ CanPump /\ pending # {}
    THEN [pc |-> "listed", id |-> First(pending), track |-> queue[First(pending)].track]
    ELSE None

\* schedulePump's microtask: the flag is clear before the pump has begun.
PumpBegin(p) ==
    /\ scheduled /\ FirstFree(pump, p)
    /\ scheduled' = FALSE
    /\ pump' = [pump EXCEPT ![p] = Listing]
    /\ UNCHANGED <<store, activeIds, controllers, userPaused, net, cap, job, sweep,
                   events, raced, refused>>

\* It writes the row of its list back as active.  The index may refuse that.
PumpTake(p) ==
    /\ pump[p] # None /\ pump[p].pc = "listed"
    /\ LET i == pump[p].id
           t == pump[p].track
           took == Written(queue, {i}, [k \in Id |-> [track |-> t, state |-> "active"]])
           ok == took[i] # None /\ took[i].state = "active"
       IN  /\ activeIds' = activeIds \cup {i}
           /\ queue' = took
           /\ pump' = [pump EXCEPT ![p] = IF ok THEN [@ EXCEPT !.pc = "put"] ELSE None]
           /\ refused' = (refused \/ ~ok)
           /\ raced' = (raced \/ queue[i] = None \/ Held(t))
    /\ UNCHANGED <<nextId, cat, file, controllers, userPaused, net, cap, scheduled,
                   job, sweep, events>>

\* runJob begins: its controller is stored and it reads its row.  The pump
\* goes round.
PumpStart(p, j) ==
    /\ pump[p] # None /\ pump[p].pc = "put" /\ FirstFree(job, j)
    /\ LET i == pump[p].id IN
       /\ job' = [job EXCEPT ![j] =
              [pc |-> "check", id |-> i, track |-> pump[p].track,
               read |-> StateOf(queue, i), offset |-> "none", base |-> "clean",
               why |-> "go", outcome |-> "none", files |-> FALSE, live |-> FALSE]]
       /\ controllers' = [controllers EXCEPT ![i] = j]
    /\ Emit
    /\ pump' = [pump EXCEPT ![p] = Listing]
    /\ UNCHANGED <<store, activeIds, userPaused, net, cap, sweep, events, raced, refused>>

-----------------------------------------------------------------------------
(* The commands: functions that list rows, wait, and write them.           *)

\* A command of kind k begins: what it will use of the rows it lists.
Lists(k, S) ==
    [kind |-> k, rows |-> [i \in Id |-> IF i \in InState(queue, S) THEN queue[i] ELSE None],
     why |-> "pause", track |-> None, by |-> None]
Freeze == Lists("freeze", {"active", "pending"})
Unpause == Lists("unpause", {"paused"})
Reapply == Lists("reapply", {})
Mine(s) == {i \in Id : sweep[s].rows[i] # None}

Spawn(s, new) == FirstFree(sweep, s) /\ sweep' = [sweep EXCEPT ![s] = new]

\* reportFailure of an error of the network: every listener hears the change
\* once, and the policy freezes the queue.
Failure(s) ==
    IF net = "online"
    THEN net' = "down" /\ Spawn(s, Freeze)
    ELSE UNCHANGED <<net, sweep>>

\* reportSuccess: reapplyNetworkPolicy
Recover(s) ==
    /\ net = "down" /\ net' = "online"
    /\ IF userPaused THEN UNCHANGED sweep ELSE Spawn(s, Unpause)
    /\ Emit
    /\ UNCHANGED <<store, activeIds, controllers, userPaused, cap, pump, job,
                   events, raced, refused>>

\* Any other request of the page fails.
Drop(s) ==
    /\ Event /\ net = "online"
    /\ Failure(s)
    /\ UNCHANGED <<store, activeIds, controllers, userPaused, cap, scheduled, pump, job,
                   raced, refused>>

Finished(s) == sweep' = [sweep EXCEPT ![s] = None]
Aborts(s, I) ==
    LET kept == [i \in Id |-> IF i \in I THEN sweep[s].rows[i] ELSE None] IN
    sweep' = [sweep EXCEPT ![s] = [@ EXCEPT !.kind = "abort", !.rows = kept]]
Is(s, k) == sweep[s] # None /\ sweep[s].kind = k

\* A row that was deleted after it was read is there again.
PutsBack(s) == raced' = (raced \/ \E i \in Mine(s) : queue[i] = None)

\* reapplyNetworkPolicy, after the flag is saved.
SweepReapply(s) ==
    /\ Is(s, "reapply")
    /\ IF net = "down" \/ ~userPaused
       THEN /\ sweep' = [sweep EXCEPT ![s] = IF net = "down" THEN Freeze ELSE Unpause]
            /\ UNCHANGED scheduled
       ELSE Finished(s) /\ Emit
    /\ UNCHANGED <<store, activeIds, controllers, userPaused, net, cap, pump, job,
                   events, raced, refused>>

\* pauseQueuedWork writes what it listed, then freezeActive aborts.
SweepFreeze(s) ==
    /\ Is(s, "freeze")
    /\ LET rows == sweep[s].rows
           new == Written(queue, Mine(s), Marked(rows, Mine(s), "paused"))
       IN  /\ queue' = new /\ PutsBack(s)
           /\ IF \A i \in Mine(s) : StateOf(new, i) = "paused"
              THEN Emit /\ Aborts(s, InState(rows, {"active"}))
              ELSE UNCHANGED scheduled /\ Finished(s)
    /\ UNCHANGED <<nextId, cat, file, activeIds, controllers, userPaused, net, cap, pump, job,
                   events, refused>>

\* unpauseItemsToPending
SweepUnpause(s) ==
    /\ Is(s, "unpause")
    /\ queue' = Written(queue, Mine(s), Marked(sweep[s].rows, Mine(s), "pending"))
    /\ PutsBack(s) /\ Emit /\ Finished(s)
    /\ UNCHANGED <<nextId, cat, file, activeIds, controllers, userPaused, net, cap, pump, job,
                   events, refused>>

\* discardPartialForItem, which asks nobody who writes the file.
Discards(T) ==
    /\ file' = [t \in Track |-> IF t \in T THEN Discarded(file[t]) ELSE file[t]]
    /\ raced' = (raced \/ \E t \in T : HasJob(t))

\* abortJob: the controller that stands under the id now.  A signal keeps its
\* first reason.
Aborted(I, why) ==
    [j \in Job |-> IF job[j] # None /\ job[j].why = "go" /\ \E i \in I : controllers[i] = j
                   THEN [job[j] EXCEPT !.why = why] ELSE job[j]]

SweepAbort(s) ==
    /\ Is(s, "abort")
    /\ job' = Aborted(Mine(s), sweep[s].why)
    /\ activeIds' = activeIds \ Mine(s)
    /\ scheduled' = (scheduled \/ sweep[s].why = "demote")
    /\ Finished(s)
    /\ UNCHANGED <<store, controllers, userPaused, net, cap, pump, events, raced, refused>>

\* cancelQueueItem and retryQueueItem, on the row they read.
SweepItem(s) ==
    /\ Is(s, "cancel") \/ Is(s, "retry")
    /\ \E i \in Mine(s) :
         LET rows == sweep[s].rows
             held == IF CanPump THEN "pending" ELSE "paused"
         IN  \/ /\ Is(s, "retry")
                /\ queue' = Written(queue, {i}, Marked(rows, {i}, held))
                /\ Finished(s) /\ UNCHANGED file /\ PutsBack(s)
             \/ /\ Is(s, "cancel") /\ rows[i].state = "active"
                /\ queue' = Written(queue, {i}, Marked(rows, {i}, "canceled"))
                /\ Aborts(s, {i}) /\ UNCHANGED file /\ PutsBack(s)
             \/ /\ Is(s, "cancel") /\ rows[i].state # "active"
                /\ Discards({rows[i].track})
                /\ queue' = [queue EXCEPT ![i] = None]
                /\ Finished(s)
    /\ Emit
    /\ UNCHANGED <<nextId, cat, activeIds, controllers, userPaused, net, cap, pump, job,
                   events, refused>>

\* clearFinishedQueue deletes what had finished when it listed; clearAllQueue
\* deletes everything.
SweepClear(s) ==
    /\ Is(s, "clear") \/ Is(s, "clearAll")
    /\ queue' = [i \in Id |-> IF Is(s, "clearAll") \/ i \in Mine(s) THEN None ELSE queue[i]]
    /\ Discards({sweep[s].rows[i].track : i \in Mine(s)})
    /\ Emit /\ Finished(s)
    /\ UNCHANGED <<nextId, cat, activeIds, controllers, userPaused, net, cap, pump, job,
                   events, refused>>

\* applyConcurrency keeps as many of the active jobs as the cap allows (those
\* with the most bytes: any of them here) and aborts the others.
SweepDemote(s) ==
    /\ Is(s, "demote")
    /\ LET actives == activeIds \cap Mine(s) IN
       \E keep \in SUBSET actives :
           /\ Cardinality(keep) = IF Cardinality(actives) < cap THEN Cardinality(actives) ELSE cap
           /\ Aborts(s, actives \ keep)
    /\ UNCHANGED <<store, runtime, pump, job, events, raced, refused>>

\* flushProgressToIdb puts back the whole row it read.
SweepFlush(s) ==
    /\ Is(s, "flush")
    /\ queue' = Written(queue, Mine(s), sweep[s].rows)
    /\ raced' = (raced \/ \E i \in Mine(s) : queue[i] # sweep[s].rows[i])
    /\ Finished(s)
    /\ UNCHANGED <<nextId, cat, file, runtime, pump, job, events, refused>>

\* deleteTrackDownload, after its transaction: the file.
SweepRemove(s) ==
    /\ Is(s, "remove")
    /\ file' = [file EXCEPT ![sweep[s].track] = Deleted(@)]
    /\ raced' = (raced \/ HasJob(sweep[s].track))
    /\ Finished(s)
    /\ UNCHANGED <<queue, nextId, cat, runtime, pump, job, events, refused>>

SweepStep(s) ==
    \/ SweepReapply(s) \/ SweepFreeze(s) \/ SweepUnpause(s) \/ SweepAbort(s) \/ SweepItem(s)
    \/ SweepClear(s) \/ SweepDemote(s) \/ SweepFlush(s) \/ SweepRemove(s)

-----------------------------------------------------------------------------
(* A job: executeDownloadJob, then applyJobOutcome.                        *)

At(j, pc) == job[j] # None /\ job[j].pc = pc
Told(j) == job[j].why # "go"
Moves(j, pc) == job' = [job EXCEPT ![j].pc = pc]
MyFile(j) == file[job[j].track]
Sets(j, f) == file' = [file EXCEPT ![job[j].track] = f]

\* The outcome, and the read of the row that applyJobOutcome begins with.
Outcome(j, o, withFiles) ==
    job' = [job EXCEPT ![j] = [@ EXCEPT !.pc = "apply", !.outcome = o, !.files = withFiles,
                                        !.read = StateOf(queue, job[j].id),
                                        !.offset = "none", !.base = "clean"]]

\* An aborted job reads its row once more to tell a cancel from a pause.
Stops(j) == job' = [job EXCEPT ![j] = [@ EXCEPT !.pc = "aborted",
                                                !.read = StateOf(queue, job[j].id),
                                                !.offset = "none", !.base = "clean"]]

JobCheck(j) ==
    /\ At(j, "check")
    /\ IF job[j].read \in {None, "canceled"} THEN Outcome(j, "canceled", FALSE)
       ELSE IF job[j].read = "paused" \/ ~CanPump THEN Outcome(j, "paused", FALSE)
       ELSE job' = [job EXCEPT ![j] = [@ EXCEPT !.pc = "refresh", !.read = None]]
    /\ UNCHANGED <<store, runtime, pump, sweep, events, raced, refused>>

\* fetchTrack has answered, or failed without the network being down.
JobRefreshed(j) ==
    /\ At(j, "refresh")
    /\ IF Told(j) THEN Stops(j)
       ELSE job' = [job EXCEPT ![j] = [@ EXCEPT !.pc = "fetch", !.offset = Resume(MyFile(j))]]
    /\ UNCHANGED <<store, runtime, pump, sweep, events, raced, refused>>

\* A request of a job fails for the network (no abort): fetchTrack or the
\* stream's.
JobOffline(j) ==
    /\ At(j, "refresh") \/ ((At(j, "fetch") \/ At(j, "refetch")) /\ ~Told(j))
    /\ Event
    /\ \E s \in Sweep : Failure(s)
    /\ Outcome(j, "network", FALSE)
    /\ UNCHANGED <<store, activeIds, controllers, userPaused, cap, scheduled, pump,
                   raced, refused>>

\* The stream's response.  A resume at the end of the file is refused (416):
\* the partial goes and the whole is asked for.
JobResponse(j) ==
    /\ At(j, "fetch") \/ At(j, "refetch")
    /\ \/ /\ Told(j) /\ At(j, "fetch")
          /\ Stops(j) /\ UNCHANGED file
       \/ /\ ~Told(j) /\ job[j].offset = "whole"
          /\ job' = [job EXCEPT ![j] = [@ EXCEPT !.pc = "refetch", !.offset = "none"]]
          /\ Sets(j, Discarded(MyFile(j)))
       \/ /\ ~Told(j) /\ job[j].offset # "whole"
          /\ job' = [job EXCEPT ![j] = [@ EXCEPT !.pc = "write", !.offset = "none", !.live = TRUE,
                                                 !.base = Opened(MyFile(j), job[j].offset)]]
          /\ UNCHANGED file
    /\ UNCHANGED <<queue, nextId, cat, runtime, pump, sweep, events, raced, refused>>

\* The second request stands outside the try: aborted or failed, it ends the
\* job without an outcome.
JobThrows(j) ==
    /\ At(j, "refetch")
    /\ IF Told(j) THEN UNCHANGED events ELSE Event
    /\ Moves(j, "unwind")
    /\ UNCHANGED <<store, runtime, pump, sweep, raced, refused>>

\* A status that is the item's fault.
JobRejected(j) ==
    /\ (At(j, "fetch") \/ At(j, "refetch")) /\ ~Told(j)
    /\ Event
    /\ Outcome(j, "failed", FALSE)
    /\ UNCHANGED <<store, runtime, pump, sweep, raced, refused>>

\* The body ends: complete, aborted (the copy is discarded), short of its
\* length (the copy is kept), or broken (discarded), with or without the
\* network being reported down.
JobBody(j) ==
    /\ At(j, "write")
    /\ \/ /\ Told(j)
          /\ Stops(j) /\ UNCHANGED <<file, net, sweep, events>>
       \/ /\ Sets(j, Closed(MyFile(j), job[j].base))
          /\ job' = [job EXCEPT ![j] = [@ EXCEPT !.pc = "close", !.base = "clean"]]
          /\ UNCHANGED <<net, sweep, events>>
       \/ /\ ~Told(j) /\ Event
          /\ Sets(j, Short(MyFile(j), job[j].base))
          /\ Outcome(j, "network", FALSE) /\ UNCHANGED <<net, sweep>>
       \/ /\ ~Told(j) /\ Event
          /\ UNCHANGED <<net, sweep>> \/ \E s \in Sweep : Failure(s)
          /\ Outcome(j, "network", FALSE) /\ UNCHANGED file
    /\ UNCHANGED <<queue, nextId, cat, activeIds, controllers, userPaused, cap, scheduled,
                   pump, raced, refused>>

\* finalizePartial; an abort is not looked at any more.
JobClosed(j) ==
    /\ At(j, "close")
    /\ Sets(j, Cleared(MyFile(j))) /\ Moves(j, "swap")
    /\ UNCHANGED <<queue, nextId, cat, runtime, pump, sweep, events, raced, refused>>

\* The end of a job whose file could not be finished.
Unfinished(j) == IF Told(j) THEN Stops(j) ELSE Outcome(j, "failed", FALSE)

\* The partial is gone, takes the name, or is to be copied to it.
JobPromotes(j) ==
    /\ At(j, "swap")
    /\ \/ /\ MyFile(j).part = "none"
          /\ Unfinished(j) /\ UNCHANGED file
       \/ /\ MyFile(j).part # "none"
          /\ Sets(j, Promoted(MyFile(j)))
          /\ job' = [job EXCEPT ![j] = [@ EXCEPT !.pc = "verify",
                                                 !.read = StateOf(queue, job[j].id)]]
       \/ /\ MyFile(j).part # "none"
          /\ Sets(j, Created(MyFile(j))) /\ Moves(j, "copy")
    /\ UNCHANGED <<queue, nextId, cat, runtime, pump, sweep, events, raced, refused>>

\* The copy is closed, or it fails and the empty file stays; then the partial goes.
JobCopies(j) ==
    /\ At(j, "copy")
    /\ \/ /\ MyFile(j).part # "none"
          /\ Sets(j, Copied(MyFile(j))) /\ Moves(j, "drop") /\ UNCHANGED events
       \/ /\ IF MyFile(j).part = "none" THEN UNCHANGED events ELSE Event
          /\ Unfinished(j) /\ UNCHANGED file
    /\ UNCHANGED <<queue, nextId, cat, runtime, pump, sweep, raced, refused>>

JobDrops(j) ==
    /\ At(j, "drop")
    /\ Sets(j, Discarded(MyFile(j)))
    /\ job' = [job EXCEPT ![j] = [@ EXCEPT !.pc = "verify", !.read = StateOf(queue, job[j].id)]]
    /\ UNCHANGED <<queue, nextId, cat, runtime, pump, sweep, events, raced, refused>>

JobVerifies(j) ==
    /\ At(j, "verify")
    /\ IF job[j].read \in {None, "canceled"} THEN Outcome(j, "canceled", FALSE)
       ELSE Outcome(j, "done", TRUE)
    /\ UNCHANGED <<store, runtime, pump, sweep, events, raced, refused>>

\* abortOutcome
JobStopped(j) ==
    /\ At(j, "aborted")
    /\ Outcome(j, IF job[j].read = "canceled" THEN "canceled"
                  ELSE IF job[j].why = "demote" THEN "queued" ELSE "paused", TRUE)
    /\ UNCHANGED <<store, runtime, pump, sweep, events, raced, refused>>

\* The kind after the cancel race: a canceled row wins over all but done.
Kind(j) == IF job[j].outcome # "done" /\ job[j].read = "canceled"
           THEN "canceled" ELSE job[j].outcome

Puts(j, st) == queue' = Written(queue, {job[j].id},
                                [i \in Id |-> [track |-> job[j].track, state |-> st]])
Deletes(j) == queue' = [queue EXCEPT ![job[j].id] = None]

\* The state that an outcome leaves in the row it read.
EndState(k, r) ==
    IF k = "failed" \/ (k = "paused" /\ r = "failed") THEN "failed"
    ELSE IF k = "queued" THEN "pending" ELSE "paused"

\* What an outcome leaves of the file.
EndFile(j) ==
    LET r == job[j].read  k == Kind(j) IN
    IF (k = "done" /\ r = "canceled") \/ (k = "canceled" /\ job[j].files)
    THEN Deleted(MyFile(j))
    ELSE IF k = "canceled" /\ r # None THEN Discarded(MyFile(j))
    ELSE MyFile(j)

Applied(j, pc, read) ==
    job' = [job EXCEPT ![j] = [@ EXCEPT !.pc = pc, !.read = read, !.outcome = "none",
                                        !.files = FALSE, !.live = FALSE]]

\* outcomeHandlers: the file, then the row and the catalog.
JobApplies(j) ==
    /\ At(j, "apply")
    /\ Sets(j, EndFile(j))
    /\ LET r == job[j].read  k == Kind(j) IN
       /\ \/ /\ k = "done"
             /\ cat' = IF r = "canceled" THEN cat ELSE cat \cup {job[j].track}
             /\ Deletes(j)
          \/ /\ k = "canceled"
             /\ IF r # None THEN Deletes(j) ELSE UNCHANGED queue
             /\ UNCHANGED cat
          \/ /\ k \in {"failed", "paused", "queued", "network"}
             /\ IF r = None \/ (k = "failed" /\ r = "paused") THEN UNCHANGED queue
                ELSE Puts(j, EndState(k, r))
             /\ UNCHANGED cat
       /\ IF k = "network"
          THEN \E s \in Sweep : Spawn(s, [Freeze EXCEPT !.by = j])
          ELSE UNCHANGED sweep
    /\ raced' = (raced \/ StateOf(queue, job[j].id) # job[j].read)
    /\ Emit
    /\ Applied(j, "unwind", None)
    /\ UNCHANGED <<nextId, activeIds, controllers, userPaused, net, cap, pump,
                   events, refused>>

\* The database fails the handler, which may have removed the file by then; the row
\* is read again.
JobApplyThrows(j) ==
    /\ At(j, "apply") /\ Event
    /\ Sets(j, EndFile(j))
    /\ raced' = (raced \/ StateOf(queue, job[j].id) # job[j].read)
    /\ Applied(j, "caught", StateOf(queue, job[j].id))
    /\ UNCHANGED <<queue, nextId, cat, runtime, pump, sweep, refused>>

\* applyJobOutcome's catch: a row that is still active has failed, and is written
\* unless the database fails again, at the read or at the write.
JobCaught(j) ==
    /\ At(j, "caught")
    /\ \/ /\ IF job[j].read = "active" THEN Puts(j, "failed") ELSE UNCHANGED queue
          /\ raced' = (raced \/ StateOf(queue, job[j].id) # job[j].read)
          /\ Emit /\ UNCHANGED events
       \/ /\ job[j].read = "active" /\ Event
          /\ Emit \/ UNCHANGED scheduled
          /\ UNCHANGED <<queue, raced>>
    /\ Applied(j, "unwind", None)
    /\ UNCHANGED <<nextId, cat, file, activeIds, controllers, userPaused, net, cap, pump,
                   sweep, refused>>

\* Mutant: the end of a job does not wake the pump.
JobUnwindsQuiet(j) ==
    /\ At(j, "unwind")
    /\ \A s \in Sweep : sweep[s] # None => sweep[s].by # j
    /\ controllers' = [controllers EXCEPT ![job[j].id] = None]
    /\ activeIds' = activeIds \ {job[j].id}
    /\ job' = [job EXCEPT ![j] = None]
    /\ UNCHANGED <<store, userPaused, net, cap, scheduled, pump, sweep, events, raced, refused>>

\* The ends of runJob and of its caller, after the freeze it waits for: the
\* entries go by id, whoever put them there.
JobUnwinds(j) ==
    /\ At(j, "unwind")
    /\ \A s \in Sweep : sweep[s] # None => sweep[s].by # j
    /\ controllers' = [controllers EXCEPT ![job[j].id] = None]
    /\ activeIds' = activeIds \ {job[j].id}
    /\ scheduled' = TRUE
    /\ job' = [job EXCEPT ![j] = None]
    /\ UNCHANGED <<store, userPaused, net, cap, pump, sweep, events, raced, refused>>

JobStep(j) ==
    \/ JobCheck(j) \/ JobRefreshed(j) \/ JobOffline(j) \/ JobResponse(j) \/ JobThrows(j)
    \/ JobRejected(j) \/ JobBody(j) \/ JobClosed(j) \/ JobPromotes(j) \/ JobCopies(j)
    \/ JobDrops(j) \/ JobVerifies(j) \/ JobStopped(j) \/ JobApplies(j)
    \/ JobApplyThrows(j) \/ JobCaught(j) \/ JobUnwinds(j)

-----------------------------------------------------------------------------
(* What the user does.                                                     *)

\* enqueueTrackCore: nothing for a row that is under way or a track that is
\* ready; a finished row of the track goes first.
Enqueue(t) ==
    /\ Event
    /\ LET rows == {i \in Id : queue[i] # None /\ queue[i].track = t}
           old == InState(queue, {"failed", "canceled"}) \cap rows
           left == [i \in Id |-> IF i \in old THEN None ELSE queue[i]]
       IN  \/ /\ rows # old
              /\ UNCHANGED <<queue, nextId>>
           \/ /\ rows = old /\ t \in cat
              /\ queue' = left /\ UNCHANGED nextId
           \/ /\ rows = old /\ t \notin cat /\ nextId <= MaxId
              /\ queue' = [left EXCEPT ![nextId] =
                     [track |-> t, state |-> IF CanPump THEN "pending" ELSE "paused"]]
              /\ nextId' = nextId + 1
    /\ raced' = (raced \/ (queue' # queue /\ HasJob(t)))
    /\ Emit
    /\ UNCHANGED <<cat, file, activeIds, controllers, userPaused, net, cap, pump, job, sweep,
                   refused>>

\* cancelItem and retryQueueItem read the row; the dialog offers the retry of
\* a failed one.
CancelOrRetry(s, i) ==
    /\ Event /\ queue[i] # None
    /\ \E k \in {"cancel", "retry"} :
         /\ k = "retry" => queue[i].state = "failed"
         /\ Spawn(s, [Lists(k, {}) EXCEPT !.rows[i] = queue[i], !.why = "cancel"])
    /\ UNCHANGED <<store, runtime, pump, job, raced, refused>>

\* pauseAllDownloads and resumeAllDownloads: the flag, then its saving.
PauseAll(s) ==
    /\ Event /\ ~userPaused /\ userPaused' = TRUE
    /\ Spawn(s, Freeze)
    /\ UNCHANGED <<store, activeIds, controllers, net, cap, scheduled, pump, job,
                   raced, refused>>

ResumeAll(s) ==
    /\ Event /\ userPaused /\ userPaused' = FALSE
    /\ Spawn(s, Reapply)
    /\ UNCHANGED <<store, activeIds, controllers, net, cap, scheduled, pump, job,
                   raced, refused>>

ClearFinished(s) ==
    /\ Event /\ Spawn(s, Lists("clear", {"failed", "canceled"}))
    /\ UNCHANGED <<store, runtime, pump, job, raced, refused>>

\* disableDownloads: stopAll, then the list.
ClearAll(s) ==
    /\ Event /\ Spawn(s, Lists("clearAll", State))
    /\ job' = Aborted(Id, "clear")
    /\ controllers' = [i \in Id |-> None] /\ activeIds' = {}
    /\ UNCHANGED <<store, userPaused, net, cap, scheduled, pump, raced, refused>>

\* setDownloadConcurrency
SetCap(s, v) ==
    /\ Event /\ v # cap /\ cap' = v
    /\ IF Cardinality(activeIds) > v
       THEN Spawn(s, [Lists("demote", {"active"}) EXCEPT !.why = "demote"]) /\ UNCHANGED scheduled
       ELSE scheduled' = TRUE /\ UNCHANGED sweep
    /\ UNCHANGED <<store, activeIds, controllers, userPaused, net, pump, job,
                   raced, refused>>

\* deleteTrackDownload: its transaction.
Remove(s, t) ==
    /\ Event /\ t \in cat /\ cat' = cat \ {t}
    /\ Spawn(s, [Lists("remove", {}) EXCEPT !.track = t])
    /\ UNCHANGED <<queue, nextId, file, runtime, pump, job, raced, refused>>

\* The timer of a job's progress fires.
ProgressDue(s, j) ==
    /\ Event
    /\ job[j] # None /\ job[j].live
    /\ StateOf(queue, job[j].id) \notin {None, "canceled"}
    /\ Spawn(s, [Lists("flush", {}) EXCEPT !.rows[job[j].id] = queue[job[j].id]])
    /\ UNCHANGED <<store, runtime, pump, job, raced, refused>>

\* The page is loaded again (resumeQueue): rows left active are paused, and
\* the policy is applied.
Reload(s) ==
    /\ Event
    /\ queue' = Marked(queue, InState(queue, {"active"}), "paused")
    /\ activeIds' = {} /\ controllers' = [i \in Id |-> None]
    /\ net' = "online" /\ scheduled' = FALSE
    /\ pump' = [p \in Pump |-> None] /\ job' = [j \in Job |-> None]
    /\ \A q \in Sweep : s <= q
    /\ sweep' = [q \in Sweep |-> IF q = s THEN Reapply ELSE None]
    /\ UNCHANGED <<nextId, cat, file, userPaused, cap, raced, refused>>

User(s) ==
    \/ PauseAll(s) \/ ResumeAll(s) \/ ClearFinished(s) \/ ClearAll(s) \/ Reload(s)
    \/ \E i \in Id : CancelOrRetry(s, i)
    \/ \E v \in Cap : SetCap(s, v)
    \/ \E t \in Track : Remove(s, t)

PumpStep(p) == PumpBegin(p) \/ PumpTake(p) \/ \E j \in Job : PumpStart(p, j)

Next ==
    \/ \E p \in Pump : PumpStep(p)
    \/ \E j \in Job : JobStep(j)
    \/ \E s \in Sweep : SweepStep(s) \/ User(s) \/ Recover(s) \/ Drop(s)
    \/ \E s \in Sweep, j \in Job : ProgressDue(s, j)
    \/ \E t \in Track : Enqueue(t)

Spec == Init /\ [][Next]_vars

\* Every function that has begun goes on: the event loop runs what is ready,
\* the database answers, and a request of the network is answered or fails.
FairSpec ==
    /\ Spec
    /\ \A p \in Pump : WF_vars(PumpStep(p))
    /\ \A j \in Job : WF_vars(JobStep(j))
    /\ \A s \in Sweep : WF_vars(SweepStep(s))

-----------------------------------------------------------------------------
(* Properties.                                                             *)

\* However jobs are aborted, cut off, refused a range, resumed, canceled or lost
\* with the page, and whatever order their requests to the database and to the
\* file system take effect in, what stands under a final name is the whole track, or
\* nothing yet where a copy was cut off, and every track of the catalog has its whole
\* file; unless a function has written a row or a file over what another had made of
\* it since it looked (raced).
FilesHold ==
    ~raced => \A t \in Track :
        /\ file[t].final # "torn" /\ file[t].final # "prefix"
        /\ t \in cat => file[t].final = "whole"

\* docs/systems/downloads.md: "The pump admits up to the persisted concurrent-job
\* cap".  Jobs that nobody told to stop are at most as many.
CapHolds == Cardinality({j \in Job : job[j] # None /\ ~Told(j)}) <= cap

\* No wake-up of the pump is lost: once neither the user nor the network holds
\* the queue any more, every pending row is taken (activeIds does not leak, the
\* coalesced flags do not swallow a change), unless the index refused a write of
\* the pump (refused) or a row was overwritten (raced).
PendingDrains ==
    (<>[]CanPump /\ []~refused /\ []~raced) => []<>(InState(queue, {"pending"}) = {})

-----------------------------------------------------------------------------
(* What these rest on.                                                     *)

\* The index holds, and a key is never assigned again: what a function has read
\* of a row is of a key that was.
KeyControl ==
    /\ Unique(queue)
    /\ \A i \in Id : queue[i] # None => i < nextId
    /\ \A p \in Pump : pump[p] # None => pump[p].id < nextId
    /\ \A j \in Job : job[j] # None => job[j].id < nextId
    /\ \A s \in Sweep : sweep[s] # None =>
           \A i \in Id : sweep[s].rows[i] # None => i < nextId

\* A row that is still there is of the track it was read with.
Agrees(i, t) == queue[i] # None => queue[i].track = t
CopyControl ==
    /\ \A p \in Pump : pump[p] # None => Agrees(pump[p].id, pump[p].track)
    /\ \A j \in Job : job[j] # None => Agrees(job[j].id, job[j].track)
    /\ \A s \in Sweep : sweep[s] # None =>
           \A i \in Id : sweep[s].rows[i] # None => Agrees(i, sweep[s].rows[i].track)

\* A file has one job, or the pump that is about to start it, and no row but
\* that job's.
Put(p) == pump[p] # None /\ pump[p].pc = "put"
Only(i, t) == \A k \in Id : queue[k] # None /\ queue[k].track = t => k = i
HolderControl ==
    /\ \A j, k \in Job : job[j] # None /\ job[k] # None /\ job[j].track = job[k].track => j = k
    /\ \A p, q \in Pump : Put(p) /\ Put(q) /\ pump[p].track = pump[q].track => p = q
    /\ \A p \in Pump, j \in Job : Put(p) /\ job[j] # None => pump[p].track # job[j].track
    /\ \A p \in Pump : Put(p) => Only(pump[p].id, pump[p].track)
    /\ \A j \in Job : job[j] # None => Only(job[j].id, job[j].track)

\* Nothing is done any more to the file of a track of the catalog, nor, but for
\* its removal, to that of a track that is being removed.
Settled(t) ==
    /\ \A p \in Pump : Put(p) => pump[p].track # t
    /\ \A j \in Job : job[j] # None /\ job[j].track = t => job[j].pc = "unwind"
CatalogControl ==
    /\ \A t \in cat : Settled(t) /\ \A i \in Id : queue[i] # None => queue[i].track # t
    /\ \A s \in Sweep : sweep[s] # None /\ sweep[s].track # None =>
           sweep[s].track \notin cat /\ Settled(sweep[s].track)

\* Where a job stands, its file is what it takes it for.
Fits(r, f) ==
    /\ r.pc = "fetch" => r.offset = f.part
    /\ r.pc = "refetch" => r.offset = "none" /\ f.part = "none"
    /\ r.pc = "write" => r.base = "clean"
    /\ r.pc \in {"close", "swap", "copy"} => f.part = "whole"
    /\ r.pc \in {"drop", "verify"} \/ (r.pc = "apply" /\ r.outcome = "done") => f.final = "whole"
FileControl ==
    /\ \A t \in Track : file[t].part # "torn"
    /\ \A j \in Job : job[j] # None => Fits(job[j], file[job[j].track])

IInv ==
    /\ TypeOK /\ KeyControl
    /\ ~raced => CopyControl /\ HolderControl /\ CatalogControl /\ FileControl
    /\ FilesHold
=============================================================================
