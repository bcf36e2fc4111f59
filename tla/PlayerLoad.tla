------------------------------ MODULE PlayerLoad ------------------------------
(* The on-demand player of the browser: playback/load.ts, stores/player.ts and *)
(* playback/queueJoin.ts over the two sinks, the HTML audio element and the    *)
(* exclusive companion behind its socket. A load is a chain of awaits, so a    *)
(* newer request may overtake it at each of them; the code guards every await  *)
(* with a generation (still(gen)). Here a load keeps, in place of its number,  *)
(* whether it is of the current generation.                                    *)
(*                                                                             *)
(* Left out: positions and the resume slot, shuffle and repeat-one, prepares.  *)
EXTENDS Naturals, Sequences, FiniteSets

CONSTANTS Rows,        \* rows of the queue
          Loads,       \* names for loads that are in flight at once
          Local,       \* rows with a playable download when the page opens
          Repeat,      \* pl.repeat
          ChanMax,     \* bound: companion events on their way
          MaxEvents    \* bound: acts of the listener and faults

ASSUME BoundsAssumption == /\ Rows \in Nat \ {0}
                           /\ MaxEvents \in Nat
                           /\ ChanMax \in Nat \ {0}
ASSUME QueueAssumption == /\ Local \subseteq 1..Rows
                          /\ Repeat \in {"off", "all"}

Row == 1..Rows
NoRow == 0

VARIABLES session,    \* session.ts: who owns the speakers
          index,      \* pl.index; NoRow is -1
          source,     \* player.playSource
          pending,    \* player.loadPending
          wantPaused, \* pause once the load in flight has finished
          join,       \* queueJoin: hold, rejoin clock and the pause mark
          load,       \* calls of playIndex that have not returned
          active,     \* activeSink
          url,        \* localPlayUrl: the row whose blob it opens
          htm,        \* the audio element
          comp,       \* the companion sink: what the page believes
          dev,        \* the companion itself: what it has loaded and sounds
          chan,       \* events from the companion, in order
          device,     \* the link to the companion and its output device
          exclusive,  \* exclusiveAudio.enabled
          online,     \* canUseRemoteMedia()
          local,      \* rows whose download is playable
          events,     \* counts toward MaxEvents
          wish,       \* ghost: the last of play and pause the listener asked for
          nudged,     \* ghost: something else has restarted the row since
          dropped,    \* ghost: a rejoin was dropped while the row still waits
          raced       \* ghost: a load, or an event, acted behind the back of another

sinks == <<htm, comp, dev, chan>>
world == <<device, exclusive, online>>
ghosts == <<wish, nudged, dropped, raced>>
vars == <<session, index, source, pending, wantPaused, join, load, active, url, htm, comp,
          dev, chan, device, exclusive, online, local, events, wish, nudged, dropped, raced>>

Sink == {"html", "companion"}
JoinRecord == [hold : BOOLEAN, timer : BOOLEAN, after : BOOLEAN,
               active : BOOLEAN, mark : BOOLEAN]
Idle == [pc |-> "off", cur |-> FALSE, row |-> NoRow, sink |-> "html",
         local |-> FALSE, broken |-> FALSE, clock |-> FALSE]
LoadRecord == [pc : {"off", "resolve", "gate", "wait"}, cur : BOOLEAN, row : Row \cup {NoRow},
               sink : Sink, local : BOOLEAN, broken : BOOLEAN, clock : BOOLEAN]
HtmRecord == [row : Row \cup {NoRow}, playing : BOOLEAN, local : BOOLEAN, told : BOOLEAN]
CompRecord == [has : BOOLEAN, paused : BOOLEAN, known : BOOLEAN]
DevRecord == [row : Row \cup {NoRow}, on : BOOLEAN, open : BOOLEAN]
ChanEvent == [kind : {"time", "pause", "eof", "error"}, old : BOOLEAN]
Rest == [hold |-> FALSE, timer |-> FALSE, after |-> FALSE, active |-> FALSE, mark |-> FALSE]
Silent == [row |-> NoRow, playing |-> FALSE, local |-> FALSE, told |-> TRUE]
NoComp == [has |-> FALSE, paused |-> TRUE, known |-> FALSE]
NoDev == [row |-> NoRow, on |-> FALSE, open |-> FALSE]

TypeOK ==
  /\ session \in {"none", "queue", "other"}
  /\ index \in Row \cup {NoRow}
  /\ source \in {"none", "streaming", "downloaded", "unavailable"}
  /\ pending \in BOOLEAN /\ wantPaused \in BOOLEAN
  /\ exclusive \in BOOLEAN /\ online \in BOOLEAN
  /\ nudged \in BOOLEAN /\ dropped \in BOOLEAN /\ raced \in BOOLEAN
  /\ join \in JoinRecord
  /\ load \in [Loads -> LoadRecord]
  /\ active \in Sink
  /\ url \in Row \cup {NoRow}
  /\ htm \in HtmRecord /\ comp \in CompRecord /\ dev \in DevRecord /\ chan \in Seq(ChanEvent)
  /\ device \in {"down", "unarmed", "armed"}
  /\ local \subseteq Row
  /\ events \in 0..MaxEvents
  /\ wish \in {"play", "pause"}

Init ==
  /\ session = "none" /\ index \in {NoRow, 1} /\ source = "none"
  /\ pending = FALSE /\ wantPaused = FALSE /\ join = Rest
  /\ load = [l \in Loads |-> Idle]
  /\ active = "html" /\ url = NoRow
  /\ htm = Silent /\ comp = NoComp /\ dev = NoDev /\ chan = << >>
  /\ exclusive \in BOOLEAN /\ online = TRUE
  /\ device \in IF exclusive THEN {"unarmed", "armed"} ELSE {"down"}
  /\ local = Local
  /\ events = 0
  /\ wish = "pause" /\ nudged = FALSE /\ dropped = FALSE /\ raced = FALSE

Event == /\ events < MaxEvents
         /\ events' = events + 1

-----------------------------------------------------------------------------
(* queueJoin.ts over joinHold.ts and rejoinClock.ts                           *)

\* rejoinAttempt and the clock's inFlight hold for the same span.
InFlight == \E l \in Loads : load[l].pc # "off" /\ load[l].clock

Dropped(j) == [j EXCEPT !.timer = FALSE, !.after = FALSE, !.active = FALSE]
Canceled(j) == [Dropped(j) EXCEPT !.hold = FALSE, !.mark = FALSE]
Succeeded(j) == [Dropped(j) EXCEPT !.hold = TRUE]

\* Mutant: an attempt that fails while it is the clock's own is not tried again.
FailedForgets(j) == [j EXCEPT !.hold = FALSE, !.active = TRUE, !.timer = j.timer \/ ~InFlight]

\* onFailedJoin: arm the timer, or once the attempt in flight has returned.
Failed(j) == [j EXCEPT !.hold = FALSE, !.active = TRUE,
                       !.timer = j.timer \/ ~InFlight,
                       !.after = j.after \/ (InFlight /\ ~j.timer)]

Kicked(j) == [j EXCEPT !.active = TRUE, !.after = FALSE, !.timer = ~InFlight]

\* The finally of the clock's run.
Returned(j, clock) == [j EXCEPT !.timer = j.timer \/ (clock /\ j.after)]

-----------------------------------------------------------------------------
(* The sinks                                                                   *)

\* Mutant: a new load leaves the element as it is.
HtmlKept == htm

\* stopHtmlAudio; the load() in it drops the events still queued.
HtmlStopped == Silent
HtmlPaused(h) == [h EXCEPT !.playing = FALSE, !.told = h.told /\ ~h.playing]

\* companionSink.stop: the page forgets at once, the companion if it is linked.
CompStopped == comp' = NoComp /\ dev' = NoDev /\ UNCHANGED chan

Tell(kind) == IF device = "down" THEN chan ELSE Append(chan, [kind |-> kind, old |-> FALSE])

SinkPaused == IF active = "html" THEN ~htm.playing ELSE comp.paused

PauseSink ==
  IF active = "html"
    THEN htm' = HtmlPaused(htm) /\ UNCHANGED <<comp, dev, chan>>
    ELSE /\ comp' = [comp EXCEPT !.paused = TRUE]
         /\ dev' = [dev EXCEPT !.on = FALSE]
         /\ Len(chan) < ChanMax
         /\ chan' = IF dev.on THEN Tell("pause") ELSE chan
         /\ UNCHANGED htm

ResumeSink ==
  IF active = "html"
    THEN htm' = [htm EXCEPT !.playing = htm.row # NoRow] /\ UNCHANGED <<comp, dev, chan>>
    ELSE /\ comp' = [comp EXCEPT !.paused = FALSE]
         /\ dev' = [dev EXCEPT !.on = dev.row # NoRow]
         /\ UNCHANGED <<htm, chan>>

StopBoth == htm' = HtmlStopped /\ CompStopped

\* A pair for each sink that is heard.
Sounding == {p \in Sink \X Row : \/ p = <<"html", htm.row>> /\ htm.playing
                                 \/ p = <<"companion", dev.row>> /\ dev.on}

-----------------------------------------------------------------------------
(* playIndex                                                                   *)

\* Up to its first await: become("queue"), beginLoad, the row, the old blob.
\* A rejoin in flight keeps its clock, whoever calls.
PlayIndexOn(on, i, paused, clock, j) ==
  \E l \in Loads :
    /\ load[l].pc = "off"
    /\ join' = IF clock \/ InFlight THEN j ELSE Canceled(j)
    /\ session' = "queue"
    /\ source' = "none"
    /\ pending' = TRUE
    /\ wantPaused' = paused
    /\ index' = i
    /\ url' = NoRow
    /\ htm' = HtmlStopped
    /\ load' = [k \in Loads |->
                  IF k # l THEN [load[k] EXCEPT !.cur = FALSE]
                  ELSE [Idle EXCEPT !.pc = "resolve", !.cur = TRUE, !.row = i, !.clock = clock,
                                    !.sink = IF on THEN "companion" ELSE "html"]]
    /\ UNCHANGED active
PlayIndex(i, paused, clock, j) == PlayIndexOn(exclusive, i, paused, clock, j)

\* A load that was overtaken, or the end of playIndex: nothing but the clock.
Finish(l, j) ==
  /\ load' = [load EXCEPT ![l] = Idle]
  /\ join' = Returned(j, load[l].clock)

\* loadResolved gave up for good: failCurrentLoad, then the end of playIndex.
\* The stop and, with a wish to pause, the pause find the other sink silent.
GiveUp(l, j) ==
  /\ source' = "unavailable"
  /\ pending' = FALSE
  /\ StopBoth
  /\ Finish(l, IF wantPaused THEN Canceled(j) ELSE j)
  /\ UNCHANGED <<session, index, wantPaused, active, url, local>>

\* Mutant: a failed load is tried again whatever the listener wants by now.
RetryAlways(l, j) ==
  /\ pending' = TRUE
  /\ Finish(l, Failed(j))
  /\ UNCHANGED <<session, index, source, wantPaused, active, url, local, sinks>>

\* It may be tried again: the rejoin clock, unless the listener wants a pause.
Retry(l, j) ==
  /\ pending' = ~wantPaused
  /\ Finish(l, IF wantPaused THEN Canceled(j) ELSE Failed(j))
  /\ IF wantPaused THEN PauseSink ELSE UNCHANGED sinks
  /\ UNCHANGED <<session, index, source, wantPaused, active, url, local>>

\* A download that did not play, for whatever reason, is marked broken and
\* the load begins again without it, in the same generation.
FallBack(l, j) ==
  /\ url' = NoRow
  /\ local' = local \ {load[l].row}
  /\ load' = [load EXCEPT ![l].pc = "resolve", ![l].local = FALSE, ![l].broken = TRUE,
                          ![l].sink = IF exclusive THEN "companion" ELSE "html"]
  /\ join' = j
  /\ UNCHANGED <<session, index, source, wantPaused, active, sinks>>

Fails(l, hard, p, j) ==
  IF load[l].local /\ ~load[l].broken THEN FallBack(l, j) /\ pending' = p
  ELSE IF hard THEN GiveUp(l, j)
  ELSE Retry(l, j)

\* selectSink and the start of attemptPlay, for a load whose intent is known.
\* The HTML element loads at once; the companion sink first asks for its device.
Attempt(l, kind) ==
  LET s == load[l].sink
      next == [load[l] EXCEPT !.local = (kind = "downloaded")]
  IN /\ source' = kind
     /\ active' = s
     /\ url' = IF kind = "downloaded" THEN load[l].row
               ELSE IF s # active THEN NoRow ELSE url
     /\ IF s = "html"
          THEN /\ htm' = [Silent EXCEPT !.row = load[l].row, !.local = (kind = "downloaded")]
               /\ IF active = "companion" THEN CompStopped ELSE UNCHANGED <<comp, dev, chan>>
               /\ load' = [load EXCEPT ![l] = [next EXCEPT !.pc = "wait"]]
          ELSE /\ load' = [load EXCEPT ![l] = [next EXCEPT !.pc = "gate"]]
               /\ IF active = "html" THEN htm' = HtmlStopped /\ CompStopped
                                     ELSE UNCHANGED <<htm, comp, dev, chan>>
     /\ UNCHANGED <<session, index, pending, wantPaused, join>>

\* resolvePlaySource. Without the server a download is the only source, if there
\* is one; without either the stream is tried all the same (probeRemote).
HtmlSources(l) ==
  {k \in {"downloaded"} : load[l].row \in local}
    \cup {k \in {"streaming"} : online \/ load[l].row \notin local}

\* resolvePlayIntent for the element; a format it cannot play is unavailable.
HtmlIntents(l) ==
  {"unavailable"} \cup IF load[l].broken THEN {k \in {"streaming"} : online} ELSE HtmlSources(l)

\* exclusiveDelivery. It is not told that the download is broken, and the mark
\* that says so may not be written yet.
CompanionIntents(l) ==
  {"unavailable", "streaming"}
    \cup {k \in {"downloaded"} : load[l].row \in local \/ load[l].broken}

Intents(l) == IF load[l].sink = "html" THEN HtmlIntents(l) ELSE CompanionIntents(l)

\* Mutant: the generation is not tested when the intent is known.
ResolveAny(l) ==
  /\ load[l].pc = "resolve"
  /\ \E kind \in Intents(l) \ {"unavailable"} : Attempt(l, kind)
  /\ UNCHANGED <<world, local, events, ghosts>>

Resolve(l) ==
  /\ load[l].pc = "resolve" /\ load[l].cur
  /\ \E kind \in Intents(l) :
       IF kind = "unavailable"
         THEN /\ source' = "unavailable" /\ pending' = FALSE /\ url' = NoRow /\ StopBoth
              /\ Finish(l, IF wantPaused THEN Canceled(join) ELSE join)
              /\ UNCHANGED <<session, index, wantPaused, active>>
         ELSE Attempt(l, kind)
  /\ UNCHANGED <<world, local, events, ghosts>>

\* companionLoad. No generation is tested between the wait for the device and it.
GateOpens(l) ==
  /\ load[l].pc = "gate" /\ device = "armed"
  /\ comp' = [has |-> TRUE, paused |-> FALSE, known |-> FALSE]
  /\ dev' = [row |-> load[l].row, on |-> TRUE, open |-> FALSE]
  /\ chan' = [k \in DOMAIN chan |-> [chan[k] EXCEPT !.old = TRUE]]
  /\ load' = [load EXCEPT ![l].pc = "wait"]
  /\ raced' = (raced \/ ~load[l].cur)
  /\ UNCHANGED <<session, index, source, pending, wantPaused, join, active, url, htm, world,
                 local, events, wish, nudged, dropped>>

\* ensurePreferredDevice: no device within 1.5 s is a hard block; a companion
\* that was not there to begin with is to be tried again.
GateShuts(l) ==
  /\ load[l].pc = "gate" /\ load[l].cur /\ device # "armed"
  /\ \E hard \in BOOLEAN : /\ device = "unarmed" => hard
                           /\ Fails(l, hard, pending, join)
  /\ UNCHANGED <<world, events, ghosts>>

\* The sink has the track: canplay and play(), or the first duration.
Loaded(l) ==
  /\ load[l].pc = "wait" /\ load[l].cur
  /\ load[l].sink = "companion" => comp.known
  /\ pending' = FALSE
  /\ IF wantPaused
       THEN /\ Finish(l, Canceled(join))
            /\ IF active = "html" THEN /\ htm' = [htm EXCEPT !.told = FALSE]
                                      /\ UNCHANGED <<comp, dev, chan>>
                                 ELSE PauseSink
       ELSE /\ Finish(l, IF source \in {"streaming", "downloaded"} THEN Succeeded(join) ELSE join)
            /\ IF active = "html" THEN /\ htm' = [htm EXCEPT !.playing = TRUE]
                                      /\ UNCHANGED <<comp, dev, chan>>
                                 ELSE UNCHANGED sinks
  /\ UNCHANGED <<session, index, source, wantPaused, active, url, world, local, events, ghosts>>

\* The load timeout, or a play() that the browser rejects.
NotLoaded(l) ==
  /\ load[l].pc = "wait" /\ load[l].cur
  /\ load[l].sink = "companion" => ~comp.known
  /\ Fails(l, FALSE, pending, join)
  /\ UNCHANGED <<world, events, ghosts>>

\* A load that was overtaken comes back from its await and changes nothing.
Overtaken(l) ==
  /\ load[l].pc # "off" /\ ~load[l].cur
  /\ load[l].pc = "gate" => device # "armed"
  /\ Finish(l, join)
  /\ UNCHANGED <<session, index, source, pending, wantPaused, active, url, sinks, world, local,
                 events, ghosts>>

-----------------------------------------------------------------------------
(* The clocks                                                                  *)

HoldElapses ==
  /\ join.hold
  /\ join' = [join EXCEPT !.hold = FALSE]
  /\ UNCHANGED <<session, index, source, pending, wantPaused, load, active, url, sinks, world,
                 local, events, ghosts>>

\* The rejoin attempt; it plays whatever row is current by then, not paused. The
\* timer runs for 250 ms at least: what a sink had to tell has been told by then.
TimerFires ==
  /\ join.timer
  /\ htm.told /\ chan = << >>
  /\ LET j == [join EXCEPT !.timer = FALSE]
     IN IF InFlight \/ index = NoRow
          THEN /\ join' = IF InFlight THEN j ELSE [j EXCEPT !.after = FALSE]
               /\ UNCHANGED <<session, index, source, pending, wantPaused, load, active, url, htm>>
          ELSE PlayIndex(index, FALSE, TRUE, [j EXCEPT !.after = FALSE])
  /\ UNCHANGED <<comp, dev, chan, world, local, events, ghosts>>

-----------------------------------------------------------------------------
(* What the sinks report                                                       *)

\* onPauseState(true): the pause the listener made ends the join, one that
\* nobody made within the hold is a failed join.
Paused ==
  /\ join' = IF join.mark THEN Canceled(join) ELSE IF join.hold THEN Failed(join) ELSE join
  /\ pending' = (pending \/ (join.hold /\ ~join.mark))
  /\ dropped' = (dropped \/ (join.mark /\ pending))

Nudge == nudged' = (nudged \/ wish = "pause")

HtmlPauseTold ==
  /\ ~htm.told
  /\ htm' = [htm EXCEPT !.told = TRUE]
  /\ Paused
  /\ UNCHANGED <<session, index, source, wantPaused, load, active, url, comp, dev, chan, world,
                 local, events, wish, nudged, raced>>

\* The browser or the system pauses the element.
HtmlInterrupted ==
  /\ Event /\ htm.playing /\ htm.told
  /\ htm' = HtmlPaused(htm)
  /\ UNCHANGED <<session, index, source, pending, wantPaused, join, load, active, url, comp, dev,
                 chan, world, local, ghosts>>

\* An error of the element: onError, then the load that waits for it, if any.
HtmlError ==
  /\ Event /\ htm.row # NoRow /\ htm.told
  /\ Nudge
  /\ \/ \E l \in Loads : /\ load[l].pc = "wait" /\ load[l].cur /\ load[l].sink = "html"
                         /\ Fails(l, FALSE, TRUE, Failed(join))
     \/ /\ \A l \in Loads : ~(load[l].pc = "wait" /\ load[l].cur /\ load[l].sink = "html")
        /\ htm' = [htm EXCEPT !.playing = FALSE]
        /\ pending' = TRUE /\ join' = Failed(join)
        /\ UNCHANGED <<session, index, source, wantPaused, load, active, url, comp, dev, chan, local>>
  /\ UNCHANGED <<world, wish, dropped, raced>>

\* The rows after the current one, as stepNext meets them, and before it.
Ahead == [k \in 1..(IF Repeat = "all" THEN Rows ELSE Rows - index) |-> ((index + k - 1) % Rows) + 1]
Behind == IF Repeat = "all" THEN LET at == IF index = NoRow THEN 1 ELSE index
                                IN [k \in 1..Rows |-> ((at - k - 1) % Rows) + 1]
          ELSE IF index > 1 THEN [k \in 1..(index - 1) |-> index - k]
          ELSE IF index = 1 THEN <<1>> ELSE << >>

\* Without the server the rows that are not downloaded are skipped.
Reachable(path) ==
  LET fit == {k \in DOMAIN path : online \/ path[k] \in local}
  IN IF fit = {} THEN NoRow ELSE path[CHOOSE k \in fit : \A i \in fit : k <= i]

\* onSinkEnded: an end within the hold and far from the duration is a failed
\* join; any other advances. At the end of the queue the sink stays silent.
Ended(natural) ==
  LET to == Reachable(Ahead)
      j == IF natural THEN Canceled(join) ELSE join
  IN /\ dropped' = (dropped \/ (natural /\ to = NoRow /\ pending))
     /\ IF ~natural /\ join.hold
       THEN /\ pending' = TRUE /\ join' = Failed(join)
            /\ htm' = [htm EXCEPT !.playing = FALSE]
            /\ UNCHANGED <<session, index, source, wantPaused, load, active, url>>
       ELSE IF to # NoRow
              THEN PlayIndex(to, FALSE, FALSE, j)
              ELSE /\ join' = j
                   /\ htm' = [htm EXCEPT !.playing = FALSE]
                   /\ UNCHANGED <<session, index, source, pending, wantPaused, load, active, url>>

HtmlEnded ==
  /\ Event /\ htm.playing /\ htm.told
  /\ Nudge
  /\ \E natural \in BOOLEAN : Ended(natural)
  /\ UNCHANGED <<comp, dev, chan, world, local, wish, raced>>

\* What the companion does: it opens the track, plays to its end, gives up.
DevOpens ==
  /\ dev.row # NoRow /\ ~dev.open /\ Len(chan) < ChanMax
  /\ dev' = [dev EXCEPT !.open = TRUE]
  /\ chan' = Tell("time")
  /\ UNCHANGED <<session, index, source, pending, wantPaused, join, load, active, url, htm, comp,
                 world, local, events, ghosts>>

DevEnds(kind) ==
  /\ Event /\ dev.on /\ Len(chan) < ChanMax
  /\ kind = "eof" => dev.open
  /\ dev' = NoDev
  /\ chan' = Tell(kind)
  /\ UNCHANGED <<session, index, source, pending, wantPaused, join, load, active, url, htm, comp,
                 world, local, ghosts>>

\* onError with a reason that may be retried.
SoftError == /\ pending' = TRUE /\ join' = Failed(join)
             /\ UNCHANGED <<session, index, source, wantPaused, load, active, url, htm>>

\* The companion sink takes the next event; without a load it drops it.
Delivered ==
  /\ chan # << >>
  /\ chan' = Tail(chan)
  /\ LET e == Head(chan)
         heard == comp.has /\ (e.kind \in {"eof", "error"} => source # "none")
     IN /\ raced' = (raced \/ (heard /\ e.old /\ e.kind \in {"eof", "error"}))
        /\ comp' = IF ~comp.has \/ e.kind = "error" THEN comp
                   ELSE IF e.kind = "time" THEN [comp EXCEPT !.known = TRUE]
                   ELSE [comp EXCEPT !.paused = TRUE]
        /\ CASE heard /\ e.kind = "pause" ->
                  /\ Paused
                  /\ UNCHANGED <<session, index, source, wantPaused, load, active, url, htm, nudged>>
             [] heard /\ e.kind = "eof" ->
                  Nudge /\ \E natural \in BOOLEAN : Ended(natural)
             [] heard /\ e.kind = "error" ->
                  Nudge /\ SoftError /\ UNCHANGED dropped
             [] OTHER ->
                  UNCHANGED <<session, index, source, pending, wantPaused, join, load, active, url, htm,
                              nudged, dropped>>
  /\ UNCHANGED <<dev, world, local, events, wish>>

\* An error that may not be retried, such as a device that is no longer listed.
\* A load in flight knows nothing of it and goes on.
CompBlocked ==
  /\ Event /\ comp.has /\ source # "none" /\ device # "down"
  /\ pending' = FALSE /\ join' = Canceled(join) /\ source' = "unavailable"
  /\ comp' = NoComp /\ dev' = NoDev
  /\ raced' = (raced \/ \E l \in Loads : load[l].cur)
  /\ UNCHANGED <<session, index, wantPaused, load, active, url, htm, chan, world, local, wish,
                 nudged, dropped>>

-----------------------------------------------------------------------------
(* The link to the companion, its device, and the server                       *)

\* The socket closes; the companion frees the device and falls silent.
LinkDrops ==
  /\ Event /\ exclusive /\ device # "down"
  /\ device' = "down" /\ dev' = NoDev /\ chan' = << >>
  /\ IF comp.has /\ source # "none"
       THEN Nudge /\ SoftError
       ELSE UNCHANGED <<session, index, source, pending, wantPaused, join, load, active, url, htm, nudged>>
  /\ UNCHANGED <<comp, exclusive, online, local, wish, dropped, raced>>

\* The companion lets the device go (idle, or unplugged).
DeviceLost ==
  /\ Event /\ device = "armed"
  /\ device' = "unarmed" /\ dev' = NoDev
  /\ UNCHANGED <<session, index, source, pending, wantPaused, join, load, active, url, htm, comp,
                 chan, exclusive, online, local, ghosts>>

\* It connects again, and arms the device that is preferred.
DeviceComes ==
  /\ exclusive /\ device # "armed"
  /\ device' = IF device = "down" THEN "unarmed" ELSE "armed"
  /\ UNCHANGED <<session, index, source, pending, wantPaused, join, load, active, url, sinks,
                 exclusive, online, local, events, ghosts>>

ServerLost ==
  /\ Event /\ online
  /\ online' = FALSE
  /\ UNCHANGED <<session, index, source, pending, wantPaused, join, load, active, url, sinks,
                 device, exclusive, local, ghosts>>

\* onConnectivityRecovered: a join that has not settled is tried at once. While
\* an attempt is in flight kick only forgets the one that was due after it. The
\* other reason to kick, healOffline, is never set: it wants offline_no_local, which
\* resolvePlaySource gives only without probeRemote, and load.ts always passes that.
ServerBack ==
  /\ ~online
  /\ online' = TRUE
  /\ IF session = "queue" /\ ~wantPaused /\ (pending \/ join.hold \/ join.active)
       THEN /\ join' = Kicked(join)
            /\ dropped' = (dropped \/ (join.after /\ InFlight))
       ELSE UNCHANGED <<join, dropped>>
  /\ UNCHANGED <<session, index, source, pending, wantPaused, load, active, url, sinks, device,
                 exclusive, local, events, wish, nudged, raced>>

-----------------------------------------------------------------------------
(* The listener                                                                *)

Wish(w) == wish' = w /\ nudged' = FALSE
Asked == Wish("play") /\ UNCHANGED <<comp, dev, chan, world, local, dropped, raced>>

PlayRow(i) == Event /\ PlayIndex(i, FALSE, FALSE, join) /\ Asked

\* playNext and playPrev; past the end the sink is paused.
Skip(path) ==
  /\ Event /\ session # "other"
  /\ LET to == Reachable(path)
     IN IF to # NoRow
          THEN PlayIndex(to, FALSE, FALSE, join) /\ Asked
          ELSE /\ PauseSink
               /\ UNCHANGED <<session, index, source, pending, wantPaused, join, load, active, url,
                              world, local, ghosts>>

\* ensureAudible outside a load.
Audible ==
  /\ Wish("play")
  /\ IF source \in {"streaming", "downloaded"} /\ index # NoRow
       THEN /\ ResumeSink
            /\ UNCHANGED <<session, index, source, pending, wantPaused, join, load, active, url>>
       ELSE /\ PlayIndex(IF index = NoRow THEN 1 ELSE index, FALSE, FALSE, join)
            /\ UNCHANGED <<comp, dev, chan>>
  /\ UNCHANGED <<dropped, raced>>

\* A pause while a row is pending: the load, if there is one, will end paused;
\* if only the rejoin clock was running, nothing is left that would go on.
PausePending ==
  /\ Wish("pause")
  /\ wantPaused' = TRUE
  /\ join' = Canceled(join)
  /\ dropped' = (dropped \/ \A l \in Loads : ~load[l].cur)
  /\ UNCHANGED <<session, index, source, pending, load, active, url, sinks, raced>>

\* The mark is set, the sink paused; the rest follows with its event, and if the
\* sink was silent already no event follows.
PauseNow ==
  /\ wish' = "pause"
  /\ nudged' = IF active = "html" THEN ~htm.playing ELSE ~dev.on
  /\ join' = [join EXCEPT !.mark = TRUE]
  /\ PauseSink
  /\ UNCHANGED <<session, index, source, pending, wantPaused, load, active, url, dropped, raced>>

\* Only the wish of a load in flight is turned.
Flip(w) ==
  /\ Wish("play")
  /\ wantPaused' = w
  /\ UNCHANGED <<session, index, source, pending, join, load, active, url, sinks, dropped, raced>>

TogglePlay ==
  /\ Event /\ session # "other"
  /\ IF pending THEN IF wantPaused THEN Flip(FALSE) ELSE PausePending
     ELSE IF SinkPaused THEN Audible ELSE PauseNow
  /\ UNCHANGED <<world, local>>

\* The keys of the media session. Play turns the wish of a load, either way.
MediaPlay ==
  /\ Event /\ session # "other"
  /\ IF pending THEN Flip(~wantPaused) ELSE Audible
  /\ UNCHANGED <<world, local>>

MediaPause ==
  /\ Event /\ session # "other"
  /\ IF pending THEN PausePending ELSE PauseNow
  /\ UNCHANGED <<world, local>>

\* onLeaveQueue and the end of stopPlayback, or become("radio").
Leave(next, i) ==
  /\ Event
  /\ session' = next /\ index' = i
  /\ wantPaused' = IF next = "none" THEN FALSE ELSE wantPaused
  /\ Wish("pause")
  /\ IF session = "queue"
       THEN /\ source' = "none" /\ pending' = FALSE /\ url' = NoRow
            /\ load' = [l \in Loads |-> [load[l] EXCEPT !.cur = FALSE]]
            /\ StopBoth
       ELSE UNCHANGED <<source, pending, url, load, sinks>>
  /\ join' = IF session = "queue" \/ next = "none" THEN Canceled(join) ELSE join
  /\ UNCHANGED <<active, world, local, dropped, raced>>

StopPlayback == Leave("none", NoRow)
OtherSession == session # "other" /\ Leave("other", index)

\* reloadCurrentQueueTrack after a new stream codec: the row again, as the sink is.
Reload ==
  /\ Event /\ session = "queue" /\ index # NoRow
  /\ PlayIndex(index, SinkPaused, FALSE, join)
  /\ nudged' = (nudged \/ (wish = "pause" /\ pending))
  /\ UNCHANGED <<comp, dev, chan, world, local, wish, dropped, raced>>

\* Exclusive output on or off, and the same reload. Turned off while another
\* use keeps the socket, the sink is told first that it was released.
SetExclusive ==
  /\ Event
  /\ exclusive' = ~exclusive
  /\ device' = IF exclusive THEN "down" ELSE "unarmed"
  /\ \E released \in IF exclusive /\ comp.has THEN BOOLEAN ELSE {FALSE} :
       LET j == IF released /\ source # "none" THEN Failed(join) ELSE join
           silent == released /\ active = "companion"
       IN /\ nudged' = (nudged \/ (wish = "pause" /\ (pending \/ released)))
          /\ comp' = IF released THEN [comp EXCEPT !.has = FALSE, !.paused = TRUE] ELSE comp
          /\ IF session = "queue" /\ index # NoRow
               THEN PlayIndexOn(~exclusive, index, silent \/ SinkPaused, FALSE, j)
               ELSE UNCHANGED <<session, index, source, pending, wantPaused, join, load, active, url, htm>>
  /\ dev' = IF exclusive THEN NoDev ELSE dev
  /\ chan' = IF exclusive THEN << >> ELSE chan
  /\ UNCHANGED <<online, local, wish, dropped, raced>>

-----------------------------------------------------------------------------
Step(l) == Resolve(l) \/ GateOpens(l) \/ GateShuts(l) \/ Loaded(l) \/ NotLoaded(l) \/ Overtaken(l)
Clock == HoldElapses \/ TimerFires
Report == HtmlPauseTold \/ Delivered \/ DevOpens
Fault == \/ HtmlInterrupted \/ HtmlError \/ HtmlEnded \/ DevEnds("eof") \/ DevEnds("error")
         \/ CompBlocked \/ LinkDrops \/ DeviceLost \/ ServerLost
Listener == \/ \E i \in Row : PlayRow(i)
            \/ Skip(Ahead) \/ Skip(Behind)
            \/ TogglePlay \/ MediaPlay \/ MediaPause
            \/ StopPlayback \/ OtherSession \/ Reload \/ SetExclusive

Next == \/ \E l \in Loads : Step(l)
        \/ Clock \/ Report \/ Fault \/ Listener \/ DeviceComes \/ ServerBack

Spec == Init /\ [][Next]_vars

-----------------------------------------------------------------------------
(* Properties                                                                  *)

\* Whatever overtakes a load, what begins to sound is the row asked for last,
\* on one sink, after the other has stopped: the generation tests of load.ts
\* implement LatestWins, up to the one await they leave out (raced).
Latest == INSTANCE LatestWins
            WITH Thing <- Row, Output <- Sink, Nothing <- NoRow,
                 wanted <- IF session = "queue" THEN index ELSE NoRow,
                 sounding <- IF raced THEN {} ELSE Sounding
LatestRowWins == Latest!Spec

\* A row that shows as loading has something that goes on with it: a load in
\* flight, the rejoin timer, or an attempt after which the clock is armed.
Current == \E l \in Loads : load[l].pc # "off" /\ load[l].cur
WaitingHasCause ==
  pending /\ ~dropped /\ ~raced => Current \/ join.timer \/ (InFlight /\ join.after)

\* A pause, once the sink has told of it, is kept over loads, rejoins and the
\* return of the server, until the listener asks to play or an error or a new
\* setting restarts the row: the sinks are silent and nothing is under way
\* that would end in sound.
PauseKept ==
  wish = "pause" /\ ~nudged /\ ~raced =>
    /\ ~join.mark => ~join.timer /\ ~(join.after /\ InFlight)
    /\ Current => wantPaused
    /\ htm.playing => dropped
    /\ dev.on => Current \/ dropped

\* A blob that sounds is the one the player still holds and will revoke.
BlobHeld == htm.playing /\ htm.local => url = htm.row

\* docs/systems/playback.md: an intentional pause cancels the rejoin and stays
\* paused; once the sink has told of it no rejoin is armed.
PauseStays == wish = "pause" /\ ~join.mark => ~join.timer

-----------------------------------------------------------------------------
(* What these rest on                                                          *)

Heard == {"streaming", "downloaded"}

\* One load is current, and of the row that is asked for; one is the clock's, and
\* while it is in flight the timer is not armed.
LoadControl ==
  /\ \A l \in Loads : IF load[l].pc = "off" THEN load[l] = Idle ELSE load[l].row \in Row
  /\ \A k, l \in Loads : load[k].cur /\ load[l].cur => k = l
  /\ \A k, l \in Loads : load[k].clock /\ load[l].clock => k = l
  /\ \A l \in Loads : load[l].pc = "gate" => load[l].sink = "companion"
  /\ session = "queue" => index \in Row
  /\ InFlight => ~join.timer

\* What a current load has prepared: its sink, which is the one that exclusive
\* output asks for, and the source that shows.
CurrentControl ==
  \A l \in Loads : load[l].cur =>
    /\ session = "queue" /\ load[l].row = index
    /\ load[l].pc \in {"gate", "wait"} => active = load[l].sink /\ (raced \/ source \in Heard)
    /\ load[l].sink = "companion" <=> exclusive
    /\ load[l].sink = "html" => pending
    /\ load[l].sink = "companion" /\ load[l].pc = "resolve" =>
         active = "companion" \/ source \notin Heard
    /\ load[l].sink = "html" /\ load[l].pc = "wait" => htm.row = load[l].row

\* The element has the row that is asked for and is silent while a load is under
\* way; a blob in it is held until a load looks for another source. It is empty when
\* the companion is the sink; the companion has a track on an armed device.
Resolving == \E l \in Loads : load[l].cur /\ load[l].pc = "resolve"
SinkControl ==
  /\ htm.row # NoRow => session = "queue" /\ htm.row = index
  /\ htm.playing => htm.row # NoRow /\ active = "html" /\ ~Current
  /\ htm.local => htm.row # NoRow /\ (url = htm.row \/ Resolving)
  /\ active = "companion" => htm.row = NoRow
  /\ device # "down" => exclusive
  /\ dev.on => dev.row # NoRow
  /\ dev.row # NoRow => device = "armed"

\* As long as nothing acted behind the back of a load: the companion has the row
\* asked for or waits for a load to replace it, and is known to the page.
Replacing == \E l \in Loads : load[l].cur /\ load[l].pc \in {"resolve", "gate"}
CompanionControl ==
  ~raced =>
    /\ Current => pending
    /\ comp.has => active = "companion" /\ (source \in Heard \/ Current)
    /\ htm.playing => source \in Heard
    /\ dev.row # NoRow =>
         /\ comp.has /\ session = "queue"
         /\ dev.row = index \/ Replacing
    /\ session # "queue" => /\ source = "none" /\ ~pending /\ htm.told
                            /\ comp = NoComp /\ dev.row = NoRow
                            /\ ~join.timer /\ ~join.after /\ ~join.hold /\ ~join.active
    /\ ~pending /\ source \in Heard => ~join.after

\* A pause that is kept: what is under way ends paused, and a rejoin may only be
\* armed while the sink has yet to tell of the pause, which will cancel it.
TellsPause == ~htm.told \/ (comp.has /\ \E k \in DOMAIN chan : chan[k].kind = "pause")
PauseControl ==
  wish = "pause" /\ ~nudged /\ ~raced =>
    /\ wantPaused \/ ~pending
    /\ ~join.mark => ~join.timer /\ ~join.after /\ ~join.hold /\ (wantPaused \/ ~join.active)
    /\ join.mark => ~join.after /\ (session = "queue" => Current \/ TellsPause)
    /\ Current => wantPaused /\ ~join.timer
    /\ htm.playing => dropped /\ pending
    /\ dev.on => Current \/ (dropped /\ pending)
    /\ ~pending /\ active = "companion" => comp.paused

\* The invariant that the proofs show to be inductive.
IInv == /\ TypeOK
        /\ LoadControl /\ CurrentControl /\ SinkControl
        /\ CompanionControl /\ WaitingHasCause /\ PauseControl
=============================================================================
