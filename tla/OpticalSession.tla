--------------------------- MODULE OpticalSession ---------------------------
(* The optical drive of the desktop companion (exclusive/optical_session.py,*)
(* optical_cdio.py, optical_volume.py): the watch loop that polls a drive   *)
(* and tells the client what is in it, the commands watch, read and eject,  *)
(* and the CDDA reader that the HTTP route opens.                           *)
(*                                                                          *)
(* The loop and the commands share one event loop; what they do in          *)
(* asyncio.to_thread goes on after the loop that asked for it is canceled.  *)
(* Such a thread runs in a slot of "thread": the loop's, the command's (the *)
(* hub serves one command of a socket at a time), or the orphan's.  Left    *)
(* out: the list of drives, file metadata (_enrich_all), texts, the time a  *)
(* mount has been pending.                                                  *)
EXTENDS Naturals

CONSTANTS Drive,        \* BSD devices of the drives
          Audio,        \* audio discs
          Volume,       \* data discs, by the id of their volume
          None,
          MaxMoves,     \* bound: discs inserted and removed, volumes mounted
          MaxAsks,      \* bound: commands
          MaxFaults     \* bound: calls of libcdio and diskutil that fail or raise

ASSUME OpticalAssumption ==
    /\ Audio \cap Volume = {} /\ None \notin Audio \cup Volume \cup Drive
    /\ MaxMoves \in Nat /\ MaxAsks \in Nat /\ MaxFaults \in Nat

VARIABLES
    disc,       \* the disc in each drive
    mounted,    \* the drives whose volume the system has mounted
    watched,    \* _watch_device: the drive of the loop, None without a loop
    lastDrive,  \* _last_device
    dataLive,   \* _data_live: poll the volume, do not open the table of contents
    cdrom,      \* _cdrom: the drive and the volume its tree is of (None: pending)
    sig,        \* last_sig of the loop
    owed,       \* the loop has published a data disc, its index comes next
    thread,     \* what runs, or has just returned, in asyncio.to_thread
    last,       \* port._last: the media of the last read
    reader,     \* the drive of the live CddaReader
    said,       \* the last optical_media the client received
    index,      \* the volume of the tree the client shows
    hand,       \* ghost: the last to publish, or to write the tree and say nothing
    away,       \* ghost: drives that were empty, or their disc unmounted
    moves, asks, faults

shared == <<watched, lastDrive, dataLive, cdrom, sig, owed>>
client == <<said, index, hand>>
bounds == <<moves, asks, faults>>
vars == <<disc, mounted, shared, thread, last, reader, client, away, bounds>>

Disc == Audio \cup Volume
Slot == {"loop", "command", "orphan"}
Media(d, kind, id) == [dev |-> d, kind |-> kind, id |-> id]
Gone(d) == Media(d, "none", None)

\* A thread at rest, one that does op, one that has returned to its coroutine.
Rest == [op |-> "rest"]
Start(op, d) == [op |-> op, dev |-> d, id |-> None]
\* Ghost "denied": the media says gone of a disc that a failed call hid.
Returned(from, media, send, denied) ==
    [op |-> "returned", from |-> from, media |-> media, send |-> send, denied |-> denied]
Working(s) == thread[s].op \notin {"rest", "returned"}

(* What the drive is.                                                      *)
OnDisc(d) ==
    IF disc[d] = None THEN Gone(d)
    ELSE IF disc[d] \in Audio THEN Media(d, "audio", disc[d])
    ELSE Media(d, "data", None)
Mount(d) == IF d \in mounted THEN disc[d] ELSE None
Face(d) == IF disc[d] \in Volume THEN Media(d, "data", Mount(d)) ELSE OnDisc(d)

TypeOK ==
    /\ disc \in [Drive -> Disc \cup {None}]
    /\ mounted \subseteq {d \in Drive : disc[d] \in Volume}
    /\ {watched, lastDrive, reader} \subseteq Drive \cup {None}
    /\ cdrom \in [dev : Drive, id : Volume \cup {None}] \cup {None}
    /\ {dataLive, owed} \subseteq BOOLEAN
    /\ \A s \in Slot : thread[s].op \in
         {"rest", "returned", "toc", "classify", "walk", "resolve", "poll", "ioctl", "ejected"}

Init ==
    /\ disc \in [Drive -> Disc \cup {None}]
    /\ mounted = {d \in Drive : disc[d] \in Volume}
    /\ watched = None /\ lastDrive = None /\ dataLive = FALSE /\ cdrom = None
    /\ sig = None /\ owed = FALSE
    /\ thread = [s \in Slot |-> Rest]
    /\ last = None /\ reader = None
    /\ said \in {Gone(d) : d \in Drive} /\ index = None /\ hand = "loop"
    /\ away = {d \in Drive : disc[d] = None} /\ moves = 0 /\ asks = 0 /\ faults = 0

-----------------------------------------------------------------------------
(* Threads.  The result of an orphan is dropped.                           *)
Becomes(s, t) == thread' = [thread EXCEPT ![s] = t]
Answer(s, turn) == Becomes(s, IF s = "orphan" THEN Rest ELSE turn)
Return(s, media, send) == Answer(s, Returned(thread[s].op, media, send, FALSE))
Deny(s) == Answer(s, Returned(thread[s].op, Gone(thread[s].dev), FALSE, TRUE))

\* A canceled loop's thread still writes _cdrom.
Touches(s) == hand' = IF s = "orphan" THEN "orphan" ELSE hand

Slip == faults < MaxFaults /\ faults' = faults + 1 /\ UNCHANGED <<moves, asks>>

\* What diskutil says of d: its volume, or nothing when the call times out.
Resolves(d, id) ==
    \/ id = Mount(d) /\ UNCHANGED bounds
    \/ id = None /\ Mount(d) # None /\ Slip

\* DarwinOpticalPort.read: a device that does not open is an empty drive,
\* whatever is in it; a read that raises leaves _last and ends nothing.
ReadToc(s) ==
    /\ thread[s].op = "toc"
    /\ LET d == thread[s].dev IN
       \/ Return(s, OnDisc(d), FALSE) /\ last' = OnDisc(d) /\ UNCHANGED bounds
       \/ disc[d] # None /\ Deny(s) /\ last' = Gone(d) /\ Slip
       \/ Becomes(s, Rest) /\ Slip /\ UNCHANGED last
    /\ UNCHANGED <<disc, mounted, shared, reader, client, away>>

\* _on_data_classified: pending at once, then the tree if the mount is up;
\* or it raises, which only a command's read takes for a disc that is gone.
Classify(s) ==
    /\ thread[s].op = "classify"
    /\ LET d == thread[s].dev IN
       /\ cdrom' = [dev |-> d, id |-> None]
       /\ \/ \E id \in Volume \cup {None} :
               /\ Resolves(d, id)
               /\ IF id = None THEN Return(s, Media(d, "data", None), TRUE)
                  ELSE Becomes(s, [op |-> "walk", dev |-> d, id |-> id])
          \/ Answer(s, Returned("raise", Gone(d), FALSE, s = "command")) /\ Slip
    /\ Touches(s)
    /\ UNCHANGED <<disc, mounted, watched, lastDrive, dataLive, sig, owed,
                   last, reader, said, index, away>>

\* _install_mount at the end of _on_data_classified.
Walk(s) ==
    /\ thread[s].op = "walk"
    /\ LET d == thread[s].dev  id == thread[s].id IN
       /\ cdrom' = [dev |-> d, id |-> id]
       /\ Return(s, Media(d, "data", id), TRUE)
    /\ Touches(s)
    /\ UNCHANGED <<disc, mounted, watched, lastDrive, dataLive, sig, owed,
                   last, reader, said, index, away, bounds>>

\* _poll_data_volume asks diskutil ...
Resolve(s) ==
    /\ thread[s].op = "resolve"
    /\ \E id \in Volume \cup {None} :
         /\ Resolves(thread[s].dev, id)
         /\ Becomes(s, [thread[s] EXCEPT !.op = "poll", !.id = id])
    /\ UNCHANGED <<disc, mounted, shared, last, reader, client, away>>

HasTree == cdrom # None /\ cdrom.id # None
TreeVanished == Mount(cdrom.dev) # cdrom.id
DataFace(d, c) == Media(d, "data", IF c = None THEN None ELSE c.id)

\* ... and then compares with what is known.  Only a mount directory that
\* vanished, or a device that diskutil says is not there, means gone; and it
\* says so by any return code but zero, of a disc that is there as well.
\* Mutant: a diskutil call that finds no mount means gone.
LostOnMiss(s) ==
    /\ thread[s].id = None
    /\ cdrom' = None
    /\ Return(s, Gone(thread[s].dev), FALSE)
    /\ UNCHANGED bounds
Lost(s) ==
    LET d == thread[s].dev IN
    /\ cdrom' = None
    /\ \/ HasTree /\ TreeVanished /\ Return(s, Gone(d), FALSE) /\ UNCHANGED bounds
       \/ /\ ~HasTree /\ thread[s].id = None
          /\ IF disc[d] = None THEN Return(s, Gone(d), FALSE) /\ UNCHANGED bounds
             ELSE Deny(s) /\ Slip
Kept(s) ==
    LET d == thread[s].dev IN
    /\ \/ HasTree /\ ~TreeVanished /\ thread[s].id \in {None, cdrom.id} /\ UNCHANGED bounds
       \/ ~HasTree /\ thread[s].id = None /\ disc[d] # None /\ UNCHANGED bounds
       \/ ~HasTree /\ thread[s].id = None /\ disc[d] = None /\ Slip
    /\ Return(s, DataFace(d, cdrom), FALSE)
    /\ UNCHANGED cdrom
Installed(s) ==
    LET d == thread[s].dev  id == thread[s].id IN
    /\ id # None
    /\ HasTree => ~TreeVanished /\ id # cdrom.id
    /\ cdrom' = [dev |-> d, id |-> id]
    /\ Return(s, Media(d, "data", id), TRUE)
    /\ UNCHANGED bounds
Poll(s) ==
    /\ thread[s].op = "poll"
    /\ \/ Lost(s) \/ Kept(s) \/ Installed(s)
       \/ Becomes(s, Rest) /\ Slip /\ UNCHANGED cdrom
    /\ Touches(s)
    /\ UNCHANGED <<disc, mounted, watched, lastDrive, dataLive, sig, owed,
                   last, reader, said, index, away>>

\* The tray opens, or the ioctl fails.
Ioctl ==
    LET d == thread["command"].dev IN
    /\ thread["command"].op = "ioctl"
    /\ \/ /\ disc' = [disc EXCEPT ![d] = None]
          /\ mounted' = mounted \ {d}
          /\ away' = away \cup {d}
          /\ Becomes("command", Start("ejected", d))
       \/ Becomes("command", Rest) /\ UNCHANGED <<disc, mounted, away>>
    /\ UNCHANGED <<shared, last, reader, client, bounds>>

ThreadStep(s) == ReadToc(s) \/ Classify(s) \/ Walk(s) \/ Resolve(s) \/ Poll(s)

-----------------------------------------------------------------------------
(* _watch_loop, between its awaits.                                        *)

\* One round: nothing while a reader is live on the drive.
Look ==
    /\ watched # None /\ thread["loop"] = Rest /\ ~owed
    /\ reader # watched
    /\ Becomes("loop", Start(IF dataLive THEN "resolve" ELSE "toc", watched))
    /\ UNCHANGED <<disc, mounted, shared, last, reader, client, away, bounds>>

FoundData(s) ==
    /\ thread[s].op = "returned" /\ thread[s].from = "toc"
    /\ thread[s].media.kind = "data"

Raised(s) == thread[s].op = "returned" /\ thread[s].from = "raise"

\* The loop tells nobody of a classification that raised, and starts over.
LoopForgets ==
    /\ Raised("loop")
    /\ dataLive' = FALSE /\ cdrom' = None
    /\ Becomes("loop", Rest)
    /\ UNCHANGED <<disc, mounted, watched, lastDrive, sig, owed, last, reader,
                   client, away, bounds>>

Tell(media, who) ==
    /\ said' = media /\ hand' = who
    /\ index' = IF media.kind = "data" THEN index ELSE None

LoopClassifies ==
    /\ FoundData("loop")
    /\ dataLive' = TRUE
    /\ Becomes("loop", Start("classify", watched))
    /\ UNCHANGED <<disc, mounted, watched, lastDrive, cdrom, sig, owed, last,
                   reader, client, away, bounds>>

\* Mutant: an index follows a changed media only.
PublishOnChange ==
    LET t == thread["loop"] IN
    /\ t.op = "returned" /\ ~FoundData("loop") /\ ~Raised("loop")
    /\ dataLive' = (dataLive /\ ~(t.from = "poll" /\ t.media.kind # "data"))
    /\ cdrom' = IF t.from = "toc" THEN None ELSE cdrom
    /\ IF t.media # sig
       THEN Tell(t.media, "loop") /\ owed' = (t.media.kind = "data")
       ELSE UNCHANGED <<client, owed>>
    /\ sig' = t.media
    /\ Becomes("loop", Rest)
    /\ UNCHANGED <<disc, mounted, watched, lastDrive, last, reader, away, bounds>>

\* The media is published when its signature changed, and an index after it
\* when it is a data disc; an index alone when the tree was built again.
Publish ==
    LET t == thread["loop"] IN
    /\ t.op = "returned" /\ ~FoundData("loop") /\ ~Raised("loop")
    /\ dataLive' = (dataLive /\ ~(t.from = "poll" /\ t.media.kind # "data"))
    /\ cdrom' = IF t.from = "toc" THEN None ELSE cdrom
    /\ IF t.media # sig
       THEN Tell(t.media, "loop") /\ owed' = (t.media.kind = "data")
       ELSE owed' = (t.send /\ t.media.kind = "data") /\ UNCHANGED client
    /\ sig' = t.media
    /\ Becomes("loop", Rest)
    /\ UNCHANGED <<disc, mounted, watched, lastDrive, last, reader, away, bounds>>

\* _broadcast_cdrom_index: of whatever tree there is by then.
SendIndex ==
    /\ owed /\ owed' = FALSE
    /\ index' = DataFace(watched, cdrom).id
    /\ UNCHANGED <<disc, mounted, watched, lastDrive, dataLive, cdrom, sig,
                   thread, last, reader, said, hand, away, bounds>>

-----------------------------------------------------------------------------
(* Commands.                                                               *)
Ask ==
    /\ thread["command"] = Rest /\ asks < MaxAsks /\ asks' = asks + 1
    /\ UNCHANGED <<moves, faults>>

\* cancel_watch: the thread of the loop goes on as an orphan.
CancelLoop ==
    /\ Working("loop") => thread["orphan"] = Rest
    /\ thread' = [thread EXCEPT !["loop"] = Rest,
                    !["orphan"] = IF Working("loop") THEN thread["loop"] ELSE @]
    /\ sig' = None /\ owed' = FALSE
DropDisc == reader' = None /\ dataLive' = FALSE /\ cdrom' = None

WatchOn(d) ==
    /\ Ask
    /\ CancelLoop
    /\ watched' = d /\ lastDrive' = d
    /\ UNCHANGED <<disc, mounted, dataLive, cdrom, last, reader, client, away>>

\* Asked by the client, or the controller is lost, in the middle of a command
\* or not.
WatchOff ==
    /\ watched # None /\ asks < MaxAsks /\ asks' = asks + 1
    /\ CancelLoop
    /\ DropDisc
    /\ watched' = None
    /\ UNCHANGED <<disc, mounted, lastDrive, last, client, away, moves, faults>>

Eject(d) ==
    /\ Ask
    /\ DropDisc
    /\ Becomes("command", Start("ioctl", d))
    /\ UNCHANGED <<disc, mounted, watched, lastDrive, sig, owed, last, client, away>>

Ejected ==
    /\ thread["command"].op = "ejected"
    /\ Tell(Gone(thread["command"].dev), "command")
    /\ Becomes("command", Rest)
    /\ UNCHANGED <<disc, mounted, shared, last, reader, away, bounds>>

\* A known data disc is not opened again: its face and its tree are repeated.
Refresh(d) ==
    /\ Ask
    /\ dataLive /\ cdrom # None /\ cdrom.dev = d
    /\ lastDrive' = d
    /\ said' = DataFace(d, cdrom) /\ index' = cdrom.id /\ hand' = "command"
    /\ UNCHANGED <<disc, mounted, watched, dataLive, cdrom, sig, owed, thread,
                   last, reader, away>>

Read(d) ==
    /\ Ask
    /\ ~(dataLive /\ cdrom # None /\ cdrom.dev = d)
    /\ Becomes("command", Start("toc", d))
    /\ UNCHANGED <<disc, mounted, shared, last, reader, client, away>>

ReadClassifies ==
    /\ FoundData("command")
    /\ dataLive' = TRUE /\ lastDrive' = thread["command"].media.dev
    /\ Becomes("command", Start("classify", thread["command"].media.dev))
    /\ UNCHANGED <<disc, mounted, watched, cdrom, sig, owed, last, reader,
                   client, away, bounds>>

\* The answer goes out unless the session has lost its claim meanwhile.
ReadAnswers ==
    LET t == thread["command"] IN
    /\ t.op = "returned" /\ ~FoundData("command")
    /\ lastDrive' = t.media.dev
    /\ IF t.from \in {"toc", "raise"} THEN dataLive' = FALSE /\ cdrom' = None
       ELSE UNCHANGED <<dataLive, cdrom>>
    /\ hand' = "command"
    /\ \/ /\ said' = t.media
          /\ index' = IF t.from \in {"toc", "raise"} THEN None ELSE DataFace(t.media.dev, cdrom).id
       \/ UNCHANGED <<said, index>>
    /\ Becomes("command", Rest)
    /\ UNCHANGED <<disc, mounted, watched, sig, owed, last, reader, away, bounds>>

\* allowed_device
Allowed == IF watched # None THEN watched ELSE lastDrive

\* GET /cdda: a track of the drive that is, or was last, watched or read.
OpenTrack(d) ==
    /\ last # None /\ last.dev = d /\ last.kind = "audio"
    /\ Allowed \in {None, d}
    /\ lastDrive' = IF watched = None THEN d ELSE lastDrive
    /\ reader' = d
    /\ UNCHANGED <<disc, mounted, watched, dataLive, cdrom, sig, owed, thread,
                   last, client, away, bounds>>

-----------------------------------------------------------------------------
(* The drive.  A disc is not changed for another between two polls of a     *)
(* data disc: the loop sees the drive empty first.                          *)
Move == moves < MaxMoves /\ moves' = moves + 1 /\ UNCHANGED <<asks, faults>>
Unhurried ==
    /\ ~dataLive
    /\ \A s \in Slot : /\ thread[s].op \in {"rest", "toc", "returned"}
                       /\ ~FoundData(s)

Insert(d, x) ==
    /\ disc[d] = None /\ Unhurried /\ Move
    /\ disc' = [disc EXCEPT ![d] = x]
    /\ UNCHANGED <<mounted, shared, thread, last, reader, client, away>>

Remove(d) ==
    /\ disc[d] # None /\ Move
    /\ disc' = [disc EXCEPT ![d] = None]
    /\ mounted' = mounted \ {d}
    /\ away' = away \cup {d}
    /\ UNCHANGED <<shared, thread, last, reader, client>>

MountVolume(d) ==
    /\ disc[d] \in Volume /\ d \notin mounted /\ Move
    /\ mounted' = mounted \cup {d}
    /\ UNCHANGED <<disc, shared, thread, last, reader, client, away>>

UnmountVolume(d) ==
    /\ d \in mounted /\ Move
    /\ mounted' = mounted \ {d}
    /\ away' = away \cup {d}
    /\ UNCHANGED <<disc, shared, thread, last, reader, client>>

-----------------------------------------------------------------------------
LoopStep == Look \/ LoopClassifies \/ LoopForgets \/ Publish \/ SendIndex
CommandStep == Ioctl \/ Ejected \/ ReadClassifies \/ ReadAnswers
Client == WatchOff \/ \E d \in Drive :
    WatchOn(d) \/ Eject(d) \/ Refresh(d) \/ Read(d) \/ OpenTrack(d)
Environment == \E d \in Drive :
    \/ Remove(d) \/ MountVolume(d) \/ UnmountVolume(d)
    \/ \E x \in Disc : Insert(d, x)

Next == LoopStep \/ CommandStep \/ Client \/ Environment
        \/ \E s \in Slot : ThreadStep(s)

Spec == Init /\ [][Next]_vars

\* The event loop and the thread pool go on; nobody has to ask or to move.
FairSpec ==
    /\ Spec
    /\ WF_vars(LoopStep) /\ WF_vars(CommandStep)
    /\ \A s \in Slot : WF_vars(ThreadStep(s))

-----------------------------------------------------------------------------
(* Properties.                                                             *)

\* A drive that stays watched, with no reader live on it, is in the end shown
\* as it is: the disc, and the tree of its volume, however removals, mounts,
\* failed reads, canceled loops, orphan threads and failed ejects fell between
\* the polls.  The last hand must be the loop's: a command may answer with an
\* older reading, and an orphan may write the tree between the media and its
\* index, and the loop does not repeat itself.
ClientSees == \A d \in Drive :
    <>[](watched = d /\ reader # d /\ hand = "loop")
      => <>[](said = Face(d) /\ (said.kind = "data" => index = said.id))

\* A disc that stayed in the drive, its volume mounted, is told gone only when
\* that very answer came from one of three calls that failed: the device did
\* not open, diskutil returned an error, or the classification of a command's
\* read raised.  No other read that raises, no diskutil call that times out or
\* misses the mount, no orphan and no older answer does it.
Denied(s) == thread[s].op = "returned" /\ thread[s].denied
ToldGone == said'.kind = "none" /\ said.kind # "none" /\ said'.dev = said.dev
KeepsFace == [][ToldGone => said.dev \in away \/ Denied(hand')]_said

\* Of any number of drives, also where the watch moves from one to another
\* and takes the other's tree along: a command never tells a drive gone that
\* was not, but for a call of its own read that failed.
CommandKeepsFace ==
    [][ToldGone /\ hand' = "command" => said.dev \in away \/ Denied("command")]_said

-----------------------------------------------------------------------------
(* What the documentation says and the code does not do.                   *)

\* "A failed idle read never means eject (keep last present)"
\* (docs/systems/cd-playback.md).
FailedReadKeeps == [][ToldGone => said.dev \in away]_said

-----------------------------------------------------------------------------
(* What these rest on.                                                     *)

Faces == [dev : Drive, kind : {"none", "audio", "data"}, id : Disc \cup {None}]
Op == {"toc", "classify", "walk", "resolve", "poll", "ioctl", "ejected"}
Turn == {Rest} \cup [op : Op, dev : Drive, id : Volume \cup {None}]
               \cup [op : {"returned"}, from : Op \cup {"raise"}, media : Faces,
                  send : BOOLEAN, denied : BOOLEAN]

Typed ==
    /\ disc \in [Drive -> Disc \cup {None}]
    /\ {watched, lastDrive, reader} \subseteq Drive \cup {None}
    /\ cdrom \in [dev : Drive, id : Volume \cup {None}] \cup {None}
    /\ {dataLive, owed} \subseteq BOOLEAN
    /\ thread \in [Slot -> Turn]
    /\ away \subseteq Drive

\* An empty drive is away.
EmptyIsAway == \A d \in Drive : disc[d] = None => d \in away

\* Volume id, once seen in drive d, is there still unless d was away.
Seen(d, id) == id # None => Mount(d) = id \/ d \in away

\* A tree is of a volume that was seen.
TreeSeen == cdrom # None => Seen(cdrom.dev, cdrom.id)

\* So is what a thread is about to make a tree of; and what it has returned
\* says gone of a drive that was away, or was polled for the tree of another.
Sound(s, t) ==
    /\ t.op \in {"walk", "poll"} => Seen(t.dev, t.id)
    /\ t.op = "ejected" => t.dev \in away
    /\ t.op = "returned" /\ t.media.kind = "none" =>
         t.media.dev \in away \/ t.denied \/ t.from = "raise"
           \/ (t.from = "poll" /\ away # {})
    /\ s = "command" /\ t.op = "returned" /\ t.from = "raise" => t.denied
    /\ s = "command" => t.op \notin {"resolve", "poll"} /\ (t.op = "returned" => t.from # "poll")
ThreadsSound == \A s \in Slot : Sound(s, thread[s])

\* Only a watch has a loop.
LoopWatches == watched = None => thread["loop"] = Rest

\* The invariant that the proofs show to be inductive.
IInv == Typed /\ EmptyIsAway /\ TreeSeen /\ ThreadsSound /\ LoopWatches
=============================================================================
