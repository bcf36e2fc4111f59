---------------------------- MODULE PlayerLoadProofs ----------------------------
(***************************************************************************)
(* Proofs about PlayerLoad: what waits has a cause, a pause is kept, the   *)
(* blob that sounds is held and the row asked for last is the one that     *)
(* begins to sound, for any queue, any number of loads and any bounds.     *)
(***************************************************************************)
EXTENDS PlayerLoad, WellFoundedInduction, TLAPS

-----------------------------------------------------------------------------
(* The join, field by field.                                               *)

LEMMA CanceledSays ==
    ASSUME NEW j \in JoinRecord
    PROVE  Canceled(j) = Rest /\ Rest \in JoinRecord
PROOF
<1>1. Rest \in JoinRecord
  BY DEF Rest, JoinRecord
<1>2. /\ Canceled(j) \in JoinRecord
      /\ ~Canceled(j).hold /\ ~Canceled(j).timer /\ ~Canceled(j).after
      /\ ~Canceled(j).active /\ ~Canceled(j).mark
  BY DEF Canceled, Dropped, JoinRecord
<1> QED BY <1>1, <1>2 DEF Rest, JoinRecord

LEMMA SucceededSays ==
    ASSUME NEW j \in JoinRecord
    PROVE  /\ Succeeded(j) \in JoinRecord
           /\ Succeeded(j).hold /\ Succeeded(j).mark = j.mark
           /\ ~Succeeded(j).timer /\ ~Succeeded(j).after /\ ~Succeeded(j).active
BY DEF Succeeded, Dropped, JoinRecord

LEMMA FailedSays ==
    ASSUME NEW j \in JoinRecord
    PROVE  /\ Failed(j) \in JoinRecord
           /\ ~Failed(j).hold /\ Failed(j).active /\ Failed(j).mark = j.mark
           /\ Failed(j).timer <=> j.timer \/ ~InFlight
           /\ Failed(j).after <=> j.after \/ (InFlight /\ ~j.timer)
PROOF
<1> DEFINE timer == j.timer \/ ~InFlight
           after == j.after \/ (InFlight /\ ~j.timer)
<1>1. timer \in BOOLEAN /\ after \in BOOLEAN
  OBVIOUS
<1>2. Failed(j) = [[[[j EXCEPT !.hold = FALSE] EXCEPT !.active = TRUE] EXCEPT !.timer = timer]
                     EXCEPT !.after = after]
  BY DEF Failed
<1> HIDE DEF timer, after
<1>3. /\ Failed(j) \in JoinRecord
      /\ ~Failed(j).hold /\ Failed(j).active /\ Failed(j).mark = j.mark
      /\ Failed(j).timer = timer /\ Failed(j).after = after
  BY <1>1, <1>2 DEF JoinRecord
<1> QED BY <1>3 DEF timer, after

LEMMA KickedSays ==
    ASSUME NEW j \in JoinRecord
    PROVE  /\ Kicked(j) \in JoinRecord
           /\ Kicked(j).hold = j.hold /\ Kicked(j).active /\ Kicked(j).mark = j.mark
           /\ ~Kicked(j).after
           /\ Kicked(j).timer <=> ~InFlight
PROOF
<1> DEFINE timer == ~InFlight
<1>1. timer \in BOOLEAN
  OBVIOUS
<1>2. Kicked(j) = [[[j EXCEPT !.active = TRUE] EXCEPT !.after = FALSE] EXCEPT !.timer = timer]
  BY DEF Kicked
<1> HIDE DEF timer
<1>3. /\ Kicked(j) \in JoinRecord
      /\ Kicked(j).hold = j.hold /\ Kicked(j).active /\ Kicked(j).mark = j.mark
      /\ ~Kicked(j).after /\ Kicked(j).timer = timer
  BY <1>1, <1>2 DEF JoinRecord
<1> QED BY <1>3 DEF timer

LEMMA ReturnedSays ==
    ASSUME NEW j \in JoinRecord, NEW clock \in BOOLEAN
    PROVE  /\ Returned(j, clock) \in JoinRecord
           /\ Returned(j, clock).hold = j.hold /\ Returned(j, clock).active = j.active
           /\ Returned(j, clock).mark = j.mark /\ Returned(j, clock).after = j.after
           /\ Returned(j, clock).timer <=> j.timer \/ (clock /\ j.after)
PROOF
<1> DEFINE timer == j.timer \/ (clock /\ j.after)
<1>1. timer \in BOOLEAN
  OBVIOUS
<1>2. Returned(j, clock) = [j EXCEPT !.timer = timer]
  BY DEF Returned
<1> HIDE DEF timer
<1>3. /\ Returned(j, clock) \in JoinRecord
      /\ Returned(j, clock).hold = j.hold /\ Returned(j, clock).active = j.active
      /\ Returned(j, clock).mark = j.mark /\ Returned(j, clock).after = j.after
      /\ Returned(j, clock).timer = timer
  BY <1>1, <1>2 DEF JoinRecord
<1> QED BY <1>3 DEF timer

\* A pause the listener made ends the join, one nobody made within the hold fails it.
LEMMA PausedSays ==
    ASSUME TypeOK, Paused
    PROVE  /\ join' \in JoinRecord /\ pending' \in BOOLEAN /\ dropped' \in BOOLEAN
           /\ pending' <=> pending \/ (join.hold /\ ~join.mark)
           /\ dropped' <=> dropped \/ (join.mark /\ pending)
           /\ \/ join.mark /\ join' = Rest
              \/ ~join.mark /\ join.hold /\ join' = Failed(join)
              \/ ~join.mark /\ ~join.hold /\ join' = join
PROOF
<1>1. join \in JoinRecord /\ pending \in BOOLEAN /\ dropped \in BOOLEAN
  BY DEF TypeOK
<1>2. \/ join.mark /\ join' = Rest
      \/ ~join.mark /\ join.hold /\ join' = Failed(join)
      \/ ~join.mark /\ ~join.hold /\ join' = join
  BY <1>1, CanceledSays DEF Paused
<1>3. join' \in JoinRecord
  BY <1>1, <1>2, CanceledSays, FailedSays
<1>4. /\ pending' \in BOOLEAN /\ dropped' \in BOOLEAN
      /\ pending' <=> pending \/ (join.hold /\ ~join.mark)
      /\ dropped' <=> dropped \/ (join.mark /\ pending)
  BY <1>1 DEF Paused
<1> QED BY <1>2, <1>3, <1>4

LEMMA RestSays ==
    Rest \in JoinRecord /\ ~Rest.hold /\ ~Rest.timer /\ ~Rest.after /\ ~Rest.active /\ ~Rest.mark
BY DEF Rest, JoinRecord

\* The event that is taken was the only one that is gone.
LEMMA TailSays ==
    ASSUME chan \in Seq(ChanEvent), chan # << >>, chan' = Tail(chan)
    PROVE  /\ chan' \in Seq(ChanEvent) /\ Head(chan) \in ChanEvent
           /\ Head(chan).kind # "pause" /\ (\E k \in DOMAIN chan : chan[k].kind = "pause")
                => \E k \in DOMAIN chan' : chan'[k].kind = "pause"
PROOF
<1>1. /\ chan' \in Seq(ChanEvent) /\ Head(chan) = chan[1] /\ chan[1] \in ChanEvent
      /\ Len(chan) \in Nat \ {0} /\ Len(chan') = Len(chan) - 1
      /\ DOMAIN chan = 1..Len(chan) /\ DOMAIN chan' = 1..Len(chan')
      /\ \A k \in 1..Len(chan') : chan'[k] = chan[k + 1]
  OBVIOUS
<1>2. ASSUME Head(chan).kind # "pause", NEW k \in DOMAIN chan, chan[k].kind = "pause"
      PROVE  \E i \in DOMAIN chan' : chan'[i].kind = "pause"
  <2>1. k # 1 /\ k \in 1..Len(chan)
    BY <1>1, <1>2
  <2>2. k - 1 \in DOMAIN chan' /\ chan'[k - 1] = chan[k]
    BY <1>1, <2>1
  <2> QED BY <1>2, <2>2
<1> QED BY <1>1, <1>2

-----------------------------------------------------------------------------
(* The loads. A step that leaves them alone keeps what is said of them.    *)

LEMMA SameLoads ==
    ASSUME load' = load
    PROVE  /\ InFlight' <=> InFlight
           /\ Current' <=> Current
           /\ Replacing' <=> Replacing
           /\ Resolving' <=> Resolving
BY DEF InFlight, Current, Replacing, Resolving

-----------------------------------------------------------------------------
(* The sinks.                                                              *)

LEMMA EventSays ==
    ASSUME TypeOK, Event
    PROVE  events' \in 0..MaxEvents
BY BoundsAssumption DEF TypeOK, Event

LEMMA HtmlPausedSays ==
    ASSUME NEW h \in HtmRecord
    PROVE  /\ HtmlPaused(h) \in HtmRecord
           /\ HtmlPaused(h).row = h.row /\ HtmlPaused(h).local = h.local
           /\ ~HtmlPaused(h).playing
           /\ HtmlPaused(h).told <=> h.told /\ ~h.playing
PROOF
<1> DEFINE told == h.told /\ ~h.playing
<1>1. told \in BOOLEAN
  OBVIOUS
<1>2. HtmlPaused(h) = [[h EXCEPT !.playing = FALSE] EXCEPT !.told = told]
  BY DEF HtmlPaused
<1> HIDE DEF told
<1>3. /\ HtmlPaused(h) \in HtmRecord
      /\ HtmlPaused(h).row = h.row /\ HtmlPaused(h).local = h.local
      /\ ~HtmlPaused(h).playing /\ HtmlPaused(h).told = told
  BY <1>1, <1>2 DEF HtmRecord
<1> QED BY <1>3 DEF told

LEMMA SilentSays ==
    /\ Silent \in HtmRecord /\ Silent.row = NoRow
    /\ ~Silent.playing /\ ~Silent.local /\ Silent.told
    /\ NoDev \in DevRecord /\ NoDev.row = NoRow /\ ~NoDev.on
    /\ NoComp \in CompRecord /\ ~NoComp.has /\ NoComp.paused
BY DEF Silent, HtmRecord, NoDev, DevRecord, NoComp, CompRecord

\* The sink that is heard falls silent and, if it was playing, will tell so.
LEMMA PauseSinkSays ==
    ASSUME TypeOK, SinkControl, PauseSink
    PROVE  /\ htm' \in HtmRecord /\ comp' \in CompRecord /\ dev' \in DevRecord
           /\ chan' \in Seq(ChanEvent)
           /\ htm'.row = htm.row /\ htm'.local = htm.local
           /\ ~htm'.playing
           /\ htm'.told => htm.told
           /\ active = "html" => (htm'.told <=> htm.told /\ ~htm.playing)
           /\ active = "companion" => htm' = htm /\ comp'.paused
           /\ comp'.has = comp.has /\ comp'.known = comp.known
           /\ comp = NoComp => comp' = NoComp
           /\ comp.paused => comp'.paused
           /\ active = "html" => comp' = comp /\ dev' = dev /\ chan' = chan
           /\ dev'.row = dev.row
           /\ dev'.on <=> dev.on /\ active = "html"
           /\ (\E k \in DOMAIN chan : chan[k].kind = "pause")
                => \E k \in DOMAIN chan' : chan'[k].kind = "pause"
           /\ active = "companion" /\ dev.on => \E k \in DOMAIN chan' : chan'[k].kind = "pause"
PROOF
<1>1. htm \in HtmRecord /\ comp \in CompRecord /\ dev \in DevRecord /\ chan \in Seq(ChanEvent)
      /\ active \in {"html", "companion"}
  BY DEF TypeOK, Sink
<1>2. CASE active = "html"
  BY <1>1, <1>2, HtmlPausedSays DEF PauseSink
<1>3. CASE active = "companion"
  <2>1. /\ htm' = htm
        /\ comp' = [comp EXCEPT !.paused = TRUE] /\ dev' = [dev EXCEPT !.on = FALSE]
        /\ chan' = IF dev.on THEN Tell("pause") ELSE chan
    BY <1>3 DEF PauseSink
  <2>2. dev.on => device # "down"
    BY DEF SinkControl
  <2>3. /\ comp' \in CompRecord /\ comp'.paused
        /\ comp'.has = comp.has /\ comp'.known = comp.known
    BY <1>1, <2>1 DEF CompRecord
  <2>4. comp = NoComp => comp' = NoComp
    BY <1>1, <2>1, SilentSays DEF CompRecord
  <2>5. dev' \in DevRecord /\ dev'.row = dev.row /\ ~dev'.on
    BY <1>1, <2>1 DEF DevRecord
  <2>6. ~htm.playing
    BY <1>3 DEF SinkControl
  <2>7. CASE dev.on
    <3> DEFINE e == [kind |-> "pause", old |-> FALSE]
    <3>1. e \in ChanEvent /\ e.kind = "pause"
      BY DEF ChanEvent
    <3>2. chan' = Append(chan, e)
      BY <2>1, <2>2, <2>7 DEF Tell
    <3> HIDE DEF e
    <3>3. /\ chan' \in Seq(ChanEvent) /\ Len(chan') = Len(chan) + 1 /\ chan'[Len(chan) + 1] = e
          /\ \A k \in 1..Len(chan) : chan'[k] = chan[k]
          /\ DOMAIN chan = 1..Len(chan) /\ DOMAIN chan' = 1..(Len(chan) + 1)
          /\ Len(chan) \in Nat
      BY <1>1, <3>1, <3>2
    <3>4. \E k \in DOMAIN chan' : chan'[k].kind = "pause"
      BY <3>1, <3>3
    <3> QED BY <1>1, <1>3, <2>1, <2>3, <2>4, <2>5, <2>6, <3>3, <3>4
  <2>8. CASE ~dev.on
    BY <1>1, <1>3, <2>1, <2>3, <2>4, <2>5, <2>6, <2>8
  <2> QED BY <2>7, <2>8
<1> QED BY <1>1, <1>2, <1>3

LEMMA TellSays ==
    ASSUME chan \in Seq(ChanEvent), NEW kind \in {"time", "pause", "eof", "error"}, chan' = Tell(kind)
    PROVE  /\ chan' \in Seq(ChanEvent)
           /\ (\E k \in DOMAIN chan : chan[k].kind = "pause")
                => \E k \in DOMAIN chan' : chan'[k].kind = "pause"
PROOF
<1>1. CASE device = "down"
  BY <1>1 DEF Tell
<1>2. CASE device # "down"
  <2> DEFINE e == [kind |-> kind, old |-> FALSE]
  <2>1. e \in ChanEvent
    BY DEF ChanEvent
  <2>2. chan' = Append(chan, e)
    BY <1>2 DEF Tell
  <2> HIDE DEF e
  <2> QED BY <2>1, <2>2
<1> QED BY <1>1, <1>2

-----------------------------------------------------------------------------
(* One load steps on or returns, a new one begins.                         *)

LEMMA IdleSays == Idle \in LoadRecord /\ Idle.pc = "off" /\ ~Idle.cur /\ ~Idle.clock
BY DEF Idle, LoadRecord, Sink

\* A load that goes on: its row, generation and clock are what they were.
LEMMA GoesOn ==
    ASSUME TypeOK, LoadControl, NEW l \in Loads, NEW r \in LoadRecord,
           load[l].pc # "off", r.pc # "off",
           r.cur = load[l].cur, r.clock = load[l].clock,
           load' = [load EXCEPT ![l] = r]
    PROVE  /\ load' \in [Loads -> LoadRecord]
           /\ load'[l] = r
           /\ \A k \in Loads \ {l} : load'[k] = load[k]
           /\ InFlight' <=> InFlight
           /\ Current' <=> Current
PROOF
<1>1. /\ load' \in [Loads -> LoadRecord] /\ load'[l] = r
      /\ \A k \in Loads \ {l} : load'[k] = load[k]
  BY DEF TypeOK
<1>2. InFlight' <=> InFlight
  BY <1>1 DEF InFlight
<1>3. Current' <=> Current
  BY <1>1 DEF Current
<1> QED BY <1>1, <1>2, <1>3

\* A load that returns: if it was current none is, if it was the clock's the
\* clock is free.
LEMMA FinishSays ==
    ASSUME TypeOK, LoadControl, NEW l \in Loads, NEW j \in JoinRecord,
           load[l].pc # "off", Finish(l, j)
    PROVE  /\ load' \in [Loads -> LoadRecord]
           /\ load'[l] = Idle
           /\ \A k \in Loads \ {l} : load'[k] = load[k]
           /\ InFlight' <=> InFlight /\ ~load[l].clock
           /\ Current' <=> Current /\ ~load[l].cur
           /\ join' = Returned(j, load[l].clock)
           /\ load[l].clock \in BOOLEAN
PROOF
<1>1. /\ load' \in [Loads -> LoadRecord] /\ load'[l] = Idle
      /\ \A k \in Loads \ {l} : load'[k] = load[k]
  BY IdleSays DEF TypeOK, Finish
<1>2. InFlight' <=> InFlight /\ ~load[l].clock
  BY <1>1, IdleSays DEF InFlight, LoadControl
<1>3. Current' <=> Current /\ ~load[l].cur
  BY <1>1, IdleSays DEF Current, LoadControl
<1>4. join' = Returned(j, load[l].clock)
  BY DEF Finish
<1>5. load[l].clock \in BOOLEAN
  BY DEF TypeOK, LoadRecord
<1> QED BY <1>1, <1>2, <1>3, <1>4, <1>5

\* The loads among themselves, when one of them has ended, ...
LEMMA EndedLoads ==
    ASSUME LoadControl, NEW l \in Loads, load'[l] = Idle,
           \A k \in Loads \ {l} : load'[k] = load[k],
           session' = session, index' = index, InFlight' => ~join'.timer
    PROVE  LoadControl'
PROOF
<1>1. \A k \in Loads : load'[k].cur => load'[k] = load[k] /\ k # l
  BY IdleSays
<1>2. \A k \in Loads : load'[k].clock => load'[k] = load[k] /\ k # l
  BY IdleSays
<1>3. \A k \in Loads : load'[k].pc # "off" => load'[k] = load[k] /\ k # l
  BY IdleSays
<1> QED BY <1>1, <1>2, <1>3 DEF LoadControl

\* ... and when none of them moves.
LEMMA StayingLoads ==
    ASSUME LoadControl, load' = load, session' = "queue" => index' \in Row,
           InFlight' => ~join'.timer
    PROVE  LoadControl'
BY DEF LoadControl

\* playIndex: one new load, the only current one, that is still to resolve.
LEMMA PlayIndexSays ==
    ASSUME TypeOK, LoadControl, NEW on \in BOOLEAN, NEW i \in Row, NEW paused \in BOOLEAN,
           NEW clock \in BOOLEAN, NEW j, PlayIndexOn(on, i, paused, clock, j)
    PROVE  /\ load' \in [Loads -> LoadRecord]
           /\ \A k \in Loads : IF load'[k].pc = "off" THEN load'[k] = Idle ELSE load'[k].row \in Row
           /\ \A k \in Loads : load'[k].cur => load'[k].pc = "resolve" /\ load'[k].row = i
                                 /\ load'[k].sink = IF on THEN "companion" ELSE "html"
           /\ \A k, l \in Loads : load'[k].cur /\ load'[l].cur => k = l
           /\ (clock => ~InFlight) =>
                \A k, l \in Loads : load'[k].clock /\ load'[l].clock => k = l
           /\ \A k \in Loads : load'[k].pc = "gate" => load'[k].sink = "companion"
           /\ InFlight' <=> InFlight \/ clock
           /\ Current' /\ Replacing'
PROOF
<1>1. PICK n \in Loads :
        /\ load[n].pc = "off"
        /\ load' = [k \in Loads |->
                  IF k # n THEN [load[k] EXCEPT !.cur = FALSE]
                  ELSE [Idle EXCEPT !.pc = "resolve", !.cur = TRUE, !.row = i, !.clock = clock,
                                    !.sink = IF on THEN "companion" ELSE "html"]]
  BY DEF PlayIndexOn
<1> DEFINE sink == IF on THEN "companion" ELSE "html"
           new == [[[[[Idle EXCEPT !.pc = "resolve"] EXCEPT !.cur = TRUE] EXCEPT !.row = i]
                     EXCEPT !.clock = clock] EXCEPT !.sink = sink]
<1>2. sink \in Sink
  BY DEF Sink
<1>3. load'[n] = new /\ \A k \in Loads \ {n} : load'[k] = [load[k] EXCEPT !.cur = FALSE]
  BY <1>1
<1> HIDE DEF sink
<1>4. /\ new \in LoadRecord /\ new.pc = "resolve" /\ new.cur /\ new.row = i
      /\ new.clock = clock /\ new.sink = sink
  BY <1>2, IdleSays DEF LoadRecord
<1> HIDE DEF new
<1>5. \A k \in Loads \ {n} :
        /\ load'[k] \in LoadRecord /\ load'[k].pc = load[k].pc /\ ~load'[k].cur
        /\ load'[k].clock = load[k].clock /\ load'[k].sink = load[k].sink
        /\ load'[k].row = load[k].row
        /\ load[k] = Idle => load'[k] = Idle
  <2> TAKE k \in Loads \ {n}
  <2>1. load[k] \in LoadRecord /\ load'[k] = [load[k] EXCEPT !.cur = FALSE]
    BY <1>3 DEF TypeOK
  <2>2. /\ load'[k] \in LoadRecord /\ load'[k].pc = load[k].pc /\ ~load'[k].cur
        /\ load'[k].row = load[k].row
        /\ load'[k].clock = load[k].clock /\ load'[k].sink = load[k].sink
        /\ load'[k].row = load[k].row
    BY <2>1 DEF LoadRecord
  <2>3. load[k] = Idle => load'[k] = Idle
    <3> SUFFICES ASSUME load[k] = Idle PROVE load'[k] = Idle
      OBVIOUS
    <3>1. /\ load'[k].pc = Idle.pc /\ load'[k].cur = Idle.cur /\ load'[k].row = Idle.row
          /\ load'[k].sink = Idle.sink /\ load'[k].local = Idle.local
          /\ load'[k].broken = Idle.broken /\ load'[k].clock = Idle.clock
      BY <2>1, IdleSays DEF LoadRecord
    <3> QED BY <2>2, <3>1, IdleSays DEF LoadRecord
  <2> QED BY <2>1, <2>2, <2>3
<1>6. load[n] = Idle /\ ~load[n].clock
  BY <1>1, IdleSays DEF LoadControl
<1>7. load' \in [Loads -> LoadRecord]
  <2>1. \A k \in Loads : load'[k] \in LoadRecord
    BY <1>3, <1>4, <1>5
  <2>2. load' = [k \in Loads |-> load'[k]]
    BY <1>1
  <2> QED BY <2>1, <2>2
<1>8. \A k \in Loads : IF load'[k].pc = "off" THEN load'[k] = Idle ELSE load'[k].row \in Row
  BY <1>3, <1>4, <1>5 DEF LoadControl
<1>9. \A k \in Loads : load'[k].cur => load'[k].pc = "resolve" /\ load'[k].row = i
                                 /\ load'[k].sink = sink
  BY <1>3, <1>4, <1>5
<1>10. \A k, l \in Loads : load'[k].cur /\ load'[l].cur => k = l
  BY <1>3, <1>4, <1>5
<1>11. (clock => ~InFlight) =>
                \A k, l \in Loads : load'[k].clock /\ load'[l].clock => k = l
  BY <1>3, <1>4, <1>5, IdleSays DEF LoadControl, InFlight
<1>12. \A k \in Loads : load'[k].pc = "gate" => load'[k].sink = "companion"
  BY <1>3, <1>4, <1>5 DEF LoadControl
<1>13. InFlight' <=> InFlight \/ clock
  BY <1>3, <1>4, <1>5, <1>6 DEF InFlight
<1>14. Current' /\ Replacing'
  BY <1>3, <1>4 DEF Current, Replacing
<1> QED BY <1>7, <1>8, <1>9, <1>10, <1>11, <1>12, <1>13, <1>14 DEF sink

\* What a new load leaves, whoever asks for it: the row is current and the load
\* its cause. A kept pause must be told to the load, and the row be the queue's.
LEMMA PlayIndexInv ==
    ASSUME IInv, NEW i \in Row, NEW paused \in BOOLEAN, NEW clock \in BOOLEAN,
           NEW j \in JoinRecord, exclusive' \in BOOLEAN,
           PlayIndexOn(exclusive', i, paused, clock, j),
           clock => ~InFlight /\ ~j.timer /\ ~j.after,
           InFlight => ~j.timer,
           comp' \in CompRecord, comp'.has => comp.has,
           dev' = dev \/ dev' = NoDev,
           dev'.row # NoRow => device' = "armed" /\ (comp.has => comp'.has),
           chan' \in Seq(ChanEvent),
           device' \in {"down", "unarmed", "armed"}, device' # "down" => exclusive',
           online' \in BOOLEAN, local' \subseteq Row, events' \in 0..MaxEvents,
           wish' \in {"play", "pause"}, nudged' \in BOOLEAN, dropped' \in BOOLEAN,
           raced' \in BOOLEAN, raced => raced',
           wish' = "pause" /\ ~nudged' /\ ~raced' =>
             paused /\ j = join /\ wish = "pause" /\ ~nudged
    PROVE  IInv'
PROOF
<1>1. TypeOK /\ LoadControl /\ CurrentControl /\ SinkControl /\ CompanionControl /\ PauseControl
  BY DEF IInv
<1>2. /\ load' \in [Loads -> LoadRecord]
      /\ \A k \in Loads : IF load'[k].pc = "off" THEN load'[k] = Idle ELSE load'[k].row \in Row
      /\ \A k \in Loads : load'[k].cur =>
            load'[k].pc = "resolve" /\ load'[k].row = i
            /\ load'[k].sink = IF exclusive' THEN "companion" ELSE "html"
      /\ \A k, l \in Loads : load'[k].cur /\ load'[l].cur => k = l
      /\ \A k, l \in Loads : load'[k].clock /\ load'[l].clock => k = l
      /\ \A k \in Loads : load'[k].pc = "gate" => load'[k].sink = "companion"
      /\ InFlight' <=> InFlight \/ clock
      /\ Current' /\ Replacing'
  BY <1>1, PlayIndexSays
<1>3. /\ join' = IF clock \/ InFlight THEN j ELSE Rest
      /\ session' = "queue" /\ source' = "none" /\ pending' = TRUE
      /\ wantPaused' = paused /\ index' = i /\ url' = NoRow
      /\ htm' = Silent /\ active' = active
  BY CanceledSays DEF PlayIndexOn, HtmlStopped
<1>4. /\ Rest \in JoinRecord
      /\ ~Rest.hold /\ ~Rest.timer /\ ~Rest.after /\ ~Rest.active /\ ~Rest.mark
  BY CanceledSays DEF Rest
<1>5. dev' \in DevRecord
  BY <1>1, SilentSays DEF TypeOK
<1>6. TypeOK'
  BY <1>1, <1>2, <1>3, <1>4, SilentSays DEF TypeOK
<1>7. LoadControl'
  BY <1>2, <1>3, <1>4 DEF LoadControl
<1>8. CurrentControl'
  BY <1>2, <1>3 DEF CurrentControl, Heard
<1>9. SinkControl'
  BY <1>1, <1>3, SilentSays DEF SinkControl
<1>10. CompanionControl'
  BY <1>1, <1>2, <1>3, SilentSays DEF CompanionControl
<1>11. WaitingHasCause'
  BY <1>2 DEF WaitingHasCause
<1>12. PauseControl'
  BY <1>1, <1>2, <1>3, <1>4, SilentSays DEF PauseControl
<1> QED BY <1>6, <1>7, <1>8, <1>9, <1>10, <1>11, <1>12 DEF IInv

-----------------------------------------------------------------------------
(* The rows that can be reached.                                           *)

\* The row that is met first: a set of naturals has a least element.
LEMMA LeastExists ==
    ASSUME NEW S, S \subseteq Nat, S # {}
    PROVE  \E k \in S : \A i \in S : k <= i
PROOF
<1> DEFINE R == {p \in Nat \X Nat : p[1] < p[2]}
<1>1. IsWellFoundedOn(R, Nat)
  BY NatLessThanWellFounded DEF OpToRel
<1>2. \A i, k \in Nat : <<i, k>> \in R <=> i < k
  OBVIOUS
<1> HIDE DEF R
<1>3. PICK k \in S : \A i \in S : ~(<<i, k>> \in R)
  BY <1>1, WFMin
<1>4. \A i \in S : k <= i
  <2> TAKE i \in S
  <2>1. i \in Nat /\ k \in Nat /\ ~(<<i, k>> \in R)
    BY <1>3
  <2>2. ~(i < k)
    BY <1>2, <2>1
  <2> QED BY <2>1, <2>2
<1> QED BY <1>4

LEMMA ReachableSays ==
    ASSUME NEW n \in Nat, NEW path \in [1..n -> Row]
    PROVE  Reachable(path) \in Row \cup {NoRow}
PROOF
<1> DEFINE fit == {k \in DOMAIN path : online \/ path[k] \in local}
           least == CHOOSE k \in fit : \A i \in fit : k <= i
<1>1. CASE fit = {}
  BY <1>1 DEF Reachable
<1>2. CASE fit # {}
  <2>1. fit \subseteq Nat /\ fit \subseteq 1..n
    OBVIOUS
  <2>2. \E k \in fit : \A i \in fit : k <= i
    <3> HIDE DEF fit
    <3> QED BY <1>2, <2>1, LeastExists
  <2>3. least \in fit
    <3> HIDE DEF fit
    <3> QED BY <2>2
  <2>4. Reachable(path) = path[least]
    BY <1>2 DEF Reachable
  <2> HIDE DEF least, fit
  <2> QED BY <2>1, <2>3, <2>4
<1> QED BY <1>1, <1>2

LEMMA AheadSays ==
    ASSUME TypeOK
    PROVE  Reachable(Ahead) \in Row \cup {NoRow}
PROOF
<1> DEFINE n == IF Repeat = "all" THEN Rows ELSE Rows - index
<1>1. Rows \in Nat \ {0} /\ index \in 0..Rows /\ n \in Nat
  BY BoundsAssumption DEF TypeOK, Row, NoRow
<1>2. \A k \in 1..n : ((index + k - 1) % Rows) + 1 \in Row
  BY <1>1 DEF Row
<1>3. Ahead = [k \in 1..n |-> ((index + k - 1) % Rows) + 1]
  BY DEF Ahead
<1> HIDE DEF n
<1>4. Ahead \in [1..n -> Row]
  BY <1>2, <1>3
<1> QED BY <1>1, <1>4, ReachableSays

LEMMA BehindSays ==
    ASSUME TypeOK
    PROVE  Reachable(Behind) \in Row \cup {NoRow}
PROOF
<1> DEFINE at == IF index = NoRow THEN 1 ELSE index
<1>1. Rows \in Nat \ {0} /\ index \in 0..Rows /\ at \in 1..Rows
  BY BoundsAssumption DEF TypeOK, Row, NoRow
<1>2. CASE Repeat = "all"
  <2>1. Behind = [k \in 1..Rows |-> ((at - k - 1) % Rows) + 1]
    BY <1>2 DEF Behind
  <2>2. \A k \in 1..Rows : ((at - k - 1) % Rows) + 1 \in Row
    BY <1>1 DEF Row
  <2> HIDE DEF at
  <2>3. Behind \in [1..Rows -> Row]
    BY <2>1, <2>2
  <2> QED BY <1>1, <2>3, ReachableSays
<1>3. CASE Repeat # "all" /\ index > 1
  <2>1. Behind = [k \in 1..(index - 1) |-> index - k]
    BY <1>3 DEF Behind
  <2>2. index - 1 \in Nat /\ \A k \in 1..(index - 1) : index - k \in Row
    BY <1>1, <1>3 DEF Row
  <2>3. Behind \in [1..(index - 1) -> Row]
    BY <2>1, <2>2
  <2> QED BY <2>2, <2>3, ReachableSays
<1>4. CASE Repeat # "all" /\ index = 1
  <2>1. Behind = <<1>> /\ 1 \in Row
    BY <1>1, <1>4 DEF Behind, Row
  <2>2. Behind \in [1..1 -> Row]
    BY <2>1
  <2> QED BY <2>2, ReachableSays
<1>5. CASE Repeat # "all" /\ index = 0
  <2>1. Behind = << >>
    BY <1>5 DEF Behind
  <2>2. Behind \in [1..0 -> Row]
    BY <2>1
  <2> QED BY <2>2, ReachableSays
<1> QED BY <1>1, <1>2, <1>3, <1>4, <1>5

-----------------------------------------------------------------------------
(* A load that is current steps on, gives up or falls back.                *)

\* failCurrentLoad: the row shows as unavailable and both sinks are silent.
LEMMA GivesUp ==
    ASSUME IInv, NEW l \in Loads, load[l].cur,
           source' = "unavailable", pending' = FALSE, url' \in {url, NoRow}, StopBoth,
           Finish(l, IF wantPaused THEN Canceled(join) ELSE join),
           local' \subseteq Row, events' \in 0..MaxEvents,
           nudged' \in BOOLEAN, nudged => nudged',
           UNCHANGED <<session, index, wantPaused, active, world, wish, dropped, raced>>
    PROVE  IInv'
PROOF
<1>1. /\ TypeOK /\ LoadControl /\ CurrentControl /\ SinkControl
      /\ CompanionControl /\ WaitingHasCause /\ PauseControl
  BY DEF IInv
<1>2. /\ load \in [Loads -> LoadRecord] /\ join \in JoinRecord
      /\ htm \in HtmRecord /\ comp \in CompRecord /\ dev \in DevRecord /\ chan \in Seq(ChanEvent)
      /\ active \in {"html", "companion"} /\ wantPaused \in BOOLEAN
      /\ load[l] \in LoadRecord
  BY <1>1 DEF TypeOK, Sink
<1>3. /\ Current /\ session = "queue" /\ load[l].row = index /\ index \in Row
      /\ (load[l].sink = "companion" <=> exclusive)
      /\ (load[l].sink = "html" => pending)
      /\ load[l].sink \in {"html", "companion"} /\ load[l].pc # "off"
      /\ \A k \in Loads : load[k].cur => k = l
      /\ InFlight => ~join.timer
      /\ ~htm.playing
  BY <1>1, <1>2, IdleSays DEF CurrentControl, LoadControl, SinkControl, Current, LoadRecord,
     Sink
<1> DEFINE j == IF wantPaused THEN Rest ELSE join
<1>4. j \in JoinRecord /\ Finish(l, j)
  BY <1>2, CanceledSays
<1>5. /\ join' = Returned(j, load[l].clock)
      /\ load' \in [Loads -> LoadRecord]
      /\ load'[l] = Idle
      /\ \A k \in Loads \ {l} : load'[k] = load[k]
      /\ InFlight' <=> InFlight /\ ~load[l].clock
      /\ load[l].clock \in BOOLEAN
      /\ load[l].clock => InFlight
  BY <1>1, <1>3, <1>4, FinishSays DEF InFlight
<1>6. /\ htm' = Silent /\ comp' = NoComp /\ dev' = NoDev /\ chan' = chan
      /\ join' \in JoinRecord
      /\ join'.hold = j.hold /\ join'.active = j.active
      /\ join'.mark = j.mark /\ join'.after = j.after
      /\ join'.timer <=> j.timer \/ (load[l].clock /\ j.after)
  BY <1>4, <1>5, ReturnedSays DEF StopBoth, HtmlStopped, CompStopped
<1>7. ~Current' /\ ~Resolving' /\ ~Replacing' /\ \A k \in Loads : ~load'[k].cur
  BY <1>3, <1>5, IdleSays DEF Current, Resolving, Replacing
<1>8. TypeOK'
  BY <1>1, <1>2, <1>3, <1>5, <1>7, <1>6, IdleSays, RestSays, SilentSays DEF TypeOK, world, NoRow
<1>9. LoadControl'
  BY <1>1, <1>2, <1>3, <1>5, <1>7, <1>6, IdleSays, RestSays, SilentSays DEF LoadControl, world,
     NoRow
<1>10. CurrentControl'
  BY <1>1, <1>2, <1>3, <1>5, <1>7 DEF CurrentControl, Heard, world, NoRow
<1>11. SinkControl'
  BY <1>1, <1>2, <1>3, <1>5, <1>7, <1>6, IdleSays, RestSays, SilentSays DEF SinkControl, world,
     NoRow
<1>12. CompanionControl'
  BY <1>1, <1>2, <1>3, <1>5, <1>7, <1>6, IdleSays, RestSays, SilentSays DEF CompanionControl,
     Heard, SinkControl, world, NoRow
<1>13. WaitingHasCause'
  BY <1>1 DEF WaitingHasCause, CompanionControl, world, NoRow
<1>14. PauseControl'
  BY <1>1, <1>2, <1>3, <1>5, <1>7, <1>6, IdleSays, RestSays, SilentSays DEF PauseControl,
     TellsPause
<1> QED BY <1>8, <1>9, <1>10, <1>11, <1>12, <1>13, <1>14 DEF IInv

\* retryOrFail: the rejoin clock goes on, or the wish to pause is met.
LEMMA Retries ==
    ASSUME IInv, NEW l \in Loads, load[l].cur, load[l].pc \in {"gate", "wait"},
           load[l].pc = "gate" => device # "armed",
           NEW i \in JoinRecord, InFlight => ~i.timer, Retry(l, i),
           events' \in 0..MaxEvents,
           nudged' \in BOOLEAN, nudged => nudged',
           UNCHANGED <<world, wish, dropped, raced>>
    PROVE  IInv'
PROOF
<1>1. /\ TypeOK /\ LoadControl /\ CurrentControl /\ SinkControl
      /\ CompanionControl /\ WaitingHasCause /\ PauseControl
  BY DEF IInv
<1>2. /\ load \in [Loads -> LoadRecord] /\ join \in JoinRecord
      /\ htm \in HtmRecord /\ comp \in CompRecord /\ dev \in DevRecord /\ chan \in Seq(ChanEvent)
      /\ active \in {"html", "companion"} /\ wantPaused \in BOOLEAN
      /\ load[l] \in LoadRecord
  BY <1>1 DEF TypeOK, Sink
<1>3. /\ Current /\ session = "queue" /\ load[l].row = index /\ index \in Row
      /\ (load[l].sink = "companion" <=> exclusive)
      /\ (load[l].sink = "html" => pending)
      /\ load[l].sink \in {"html", "companion"} /\ load[l].pc # "off"
      /\ \A k \in Loads : load[k].cur => k = l
      /\ InFlight => ~join.timer
      /\ ~htm.playing
  BY <1>1, <1>2, IdleSays DEF CurrentControl, LoadControl, SinkControl, Current, LoadRecord,
     Sink
<1> DEFINE j == IF wantPaused THEN Rest ELSE Failed(i)
<1>4. j \in JoinRecord /\ Finish(l, j)
  BY <1>2, CanceledSays, FailedSays DEF Retry
<1>5. /\ join' = Returned(j, load[l].clock)
      /\ load' \in [Loads -> LoadRecord]
      /\ load'[l] = Idle
      /\ \A k \in Loads \ {l} : load'[k] = load[k]
      /\ InFlight' <=> InFlight /\ ~load[l].clock
      /\ load[l].clock \in BOOLEAN
      /\ load[l].clock => InFlight
  BY <1>1, <1>3, <1>4, FinishSays DEF InFlight
<1>6. IF wantPaused THEN /\ ~j.hold /\ ~j.active /\ ~j.mark /\ ~j.after /\ ~j.timer
                    ELSE /\ j.timer <=> ~InFlight
                         /\ j.after <=> i.after \/ InFlight
  BY FailedSays, RestSays
<1> HIDE DEF j
<1>7. /\ UNCHANGED <<session, index, source, wantPaused, active, url, local>>
      /\ pending' = ~wantPaused
      /\ IF wantPaused THEN PauseSink ELSE UNCHANGED sinks
      /\ join' \in JoinRecord
      /\ join'.hold = j.hold /\ join'.active = j.active
      /\ join'.mark = j.mark /\ join'.after = j.after
      /\ join'.timer <=> j.timer \/ (load[l].clock /\ j.after)
  BY <1>4, <1>5, ReturnedSays DEF Retry
<1>8. /\ htm' \in HtmRecord /\ comp' \in CompRecord /\ dev' \in DevRecord
      /\ chan' \in Seq(ChanEvent)
      /\ htm'.row = htm.row /\ htm'.local = htm.local /\ ~htm'.playing
      /\ comp'.has = comp.has
      /\ dev'.row = dev.row /\ (dev'.on => dev.on)
      /\ wantPaused /\ active = "companion" => comp'.paused /\ ~dev'.on
  BY <1>1, <1>2, <1>3, <1>7, PauseSinkSays DEF sinks
<1>9. ~Current' /\ ~Resolving' /\ ~Replacing' /\ \A k \in Loads : ~load'[k].cur
  BY <1>3, <1>5, IdleSays DEF Current, Resolving, Replacing
<1>10. ~raced /\ dev.row # NoRow => dev.row = index
  BY <1>1, <1>2, <1>3 DEF CompanionControl, SinkControl, Replacing
<1>11. ~Resolving
  BY <1>3 DEF Resolving
<1>12. TypeOK'
  BY <1>1, <1>2, <1>3, <1>5, <1>9, <1>6, <1>7, <1>8, <1>10, <1>11, IdleSays DEF TypeOK, world,
     NoRow
<1>13. LoadControl'
  <2>1. InFlight' => ~join'.timer
    BY <1>5, <1>6, <1>7
  <2> QED BY <1>1, <1>5, <1>7, <2>1, EndedLoads
<1>14. CurrentControl'
  BY <1>1, <1>2, <1>3, <1>5, <1>9, <1>6, <1>7 DEF CurrentControl, Heard, world, NoRow
<1>15. SinkControl'
  BY <1>1, <1>2, <1>7, <1>8, <1>10, <1>11, IdleSays DEF SinkControl, world, NoRow
<1>16. CompanionControl'
  BY <1>1, <1>2, <1>3, <1>5, <1>9, <1>6, <1>7, <1>8, <1>10, <1>11, IdleSays
       DEF CompanionControl, Heard, SinkControl, CurrentControl, world, NoRow
<1>17. WaitingHasCause'
  BY <1>1, <1>2, <1>3, <1>5, <1>9, <1>6, <1>7 DEF WaitingHasCause, CompanionControl, world,
     NoRow
<1>18. PauseControl'
  BY <1>1, <1>2, <1>3, <1>5, <1>9, <1>6, <1>7, <1>8, <1>10, <1>11, IdleSays DEF PauseControl,
     TellsPause, CompanionControl, SinkControl, world, NoRow
<1> QED BY <1>12, <1>13, <1>14, <1>15, <1>16, <1>17, <1>18 DEF IInv

\* A download that did not play: the load resolves again without it.
LEMMA FallsBack ==
    ASSUME IInv, NEW l \in Loads, load[l].cur, load[l].pc \in {"gate", "wait"},
           NEW j \in JoinRecord, InFlight => ~j.timer, FallBack(l, j),
           pending' \in {pending, TRUE}, events' \in 0..MaxEvents,
           nudged' \in BOOLEAN, nudged => nudged',
           UNCHANGED <<world, wish, dropped, raced>>,
           wish = "pause" /\ ~nudged' => j = join /\ pending' = pending
    PROVE  IInv'
PROOF
<1>1. /\ TypeOK /\ LoadControl /\ CurrentControl /\ SinkControl
      /\ CompanionControl /\ WaitingHasCause /\ PauseControl
  BY DEF IInv
<1>2. /\ load \in [Loads -> LoadRecord] /\ join \in JoinRecord
      /\ htm \in HtmRecord /\ comp \in CompRecord /\ dev \in DevRecord /\ chan \in Seq(ChanEvent)
      /\ active \in {"html", "companion"} /\ wantPaused \in BOOLEAN
      /\ load[l] \in LoadRecord
  BY <1>1 DEF TypeOK, Sink
<1>3. /\ Current /\ session = "queue" /\ load[l].row = index /\ index \in Row
      /\ (load[l].sink = "companion" <=> exclusive)
      /\ (load[l].sink = "html" => pending)
      /\ load[l].sink \in {"html", "companion"} /\ load[l].pc # "off"
      /\ \A k \in Loads : load[k].cur => k = l
      /\ InFlight => ~join.timer
      /\ ~htm.playing
  BY <1>1, <1>2, IdleSays DEF CurrentControl, LoadControl, SinkControl, Current, LoadRecord,
     Sink
<1> DEFINE sink == IF exclusive THEN "companion" ELSE "html"
           r == [[[[load[l] EXCEPT !.pc = "resolve"] EXCEPT !.local = FALSE] EXCEPT !.broken = TRUE]
                   EXCEPT !.sink = sink]
<1>4. sink \in Sink /\ (sink = "companion" <=> exclusive)
  BY DEF Sink
<1>5. load' = [load EXCEPT ![l] = r]
  BY DEF FallBack
<1> HIDE DEF sink
<1>6. /\ r \in LoadRecord /\ r.pc = "resolve" /\ r.cur = load[l].cur /\ r.row = load[l].row
      /\ r.clock = load[l].clock /\ r.sink = sink
  BY <1>2, <1>4 DEF LoadRecord
<1> HIDE DEF r
<1>7. /\ load' \in [Loads -> LoadRecord] /\ load'[l] = r
      /\ \A k \in Loads \ {l} : load'[k] = load[k]
      /\ InFlight' <=> InFlight
      /\ Current' <=> Current
  BY <1>1, <1>3, <1>5, <1>6, GoesOn
<1>8. Resolving' /\ Replacing'
  BY <1>6, <1>7 DEF Resolving, Replacing
<1>9. UNCHANGED <<session, index, source, wantPaused, active, sinks>>
      /\ url' = NoRow /\ local' \subseteq Row /\ join' = j /\ pending' \in BOOLEAN
  BY <1>1 DEF FallBack, TypeOK
<1>10. TypeOK'
  BY <1>1, <1>2, <1>3, <1>4, <1>6, <1>7, <1>8, <1>9 DEF TypeOK, world, NoRow, sinks
<1>11. LoadControl'
  BY <1>1, <1>2, <1>3, <1>4, <1>6, <1>7, <1>8, <1>9 DEF LoadControl
<1>12. CurrentControl'
  BY <1>1, <1>2, <1>3, <1>4, <1>6, <1>7, <1>8, <1>9 DEF CurrentControl, Heard, world, NoRow,
     sinks
<1>13. SinkControl'
  BY <1>1, <1>2, <1>3, <1>8, <1>9 DEF SinkControl, world, NoRow, sinks
<1>14. CompanionControl'
  BY <1>1, <1>2, <1>3, <1>4, <1>6, <1>7, <1>8, <1>9 DEF CompanionControl, Heard, SinkControl,
     world, NoRow, sinks
<1>15. WaitingHasCause'
  BY <1>1, <1>2, <1>3, <1>4, <1>6, <1>7, <1>8, <1>9 DEF WaitingHasCause
<1>16. PauseControl'
  BY <1>1, <1>2, <1>3, <1>4, <1>6, <1>7, <1>8, <1>9 DEF PauseControl, TellsPause,
     CompanionControl, SinkControl, world, NoRow, sinks
<1> QED BY <1>10, <1>11, <1>12, <1>13, <1>14, <1>15, <1>16 DEF IInv

LEMMA FailsInv ==
    ASSUME IInv, NEW l \in Loads, load[l].cur, load[l].pc \in {"gate", "wait"},
           load[l].pc = "gate" => device # "armed",
           NEW hard \in BOOLEAN, NEW p \in {pending, TRUE}, NEW j \in {join, Failed(join)},
           Fails(l, hard, p, j), hard => j = join,
           events' \in 0..MaxEvents, nudged' \in BOOLEAN, nudged => nudged',
           UNCHANGED <<world, wish, dropped, raced>>,
           wish = "pause" /\ ~nudged' => j = join /\ p = pending
    PROVE  IInv'
PROOF
<1>1. /\ TypeOK /\ LoadControl /\ join \in JoinRecord /\ local \subseteq Row
  BY DEF IInv, TypeOK
<1>2. j \in JoinRecord /\ (InFlight => ~j.timer)
  BY <1>1, FailedSays DEF LoadControl
<1>3. CASE load[l].local /\ ~load[l].broken
  <2>1. FallBack(l, j) /\ pending' = p
    BY <1>3 DEF Fails
  <2> QED BY <1>2, <2>1, FallsBack
<1>4. CASE ~(load[l].local /\ ~load[l].broken) /\ hard
  <2>1. GiveUp(l, join)
    BY <1>4 DEF Fails
  <2>2. /\ source' = "unavailable" /\ pending' = FALSE /\ url' \in {url, NoRow} /\ StopBoth
        /\ Finish(l, IF wantPaused THEN Canceled(join) ELSE join)
        /\ local' \subseteq Row
        /\ UNCHANGED <<session, index, wantPaused, active>>
    BY <1>1, <2>1 DEF GiveUp
  <2> QED BY <2>2, GivesUp DEF world
<1>5. CASE ~(load[l].local /\ ~load[l].broken) /\ ~hard
  <2>1. Retry(l, j)
    BY <1>5 DEF Fails
  <2> QED BY <1>2, <2>1, Retries
<1> QED BY <1>3, <1>4, <1>5

\* The intent is known: the element loads at once, the companion asks for its device.
LEMMA AttemptInv ==
    ASSUME IInv, NEW l \in Loads, load[l].cur, load[l].pc = "resolve",
           NEW kind \in Heard, Attempt(l, kind), UNCHANGED <<world, local, events, ghosts>>
    PROVE  IInv'
PROOF
<1>1. /\ TypeOK /\ LoadControl /\ CurrentControl /\ SinkControl
      /\ CompanionControl /\ WaitingHasCause /\ PauseControl
  BY DEF IInv
<1>2. /\ load \in [Loads -> LoadRecord] /\ join \in JoinRecord
      /\ htm \in HtmRecord /\ comp \in CompRecord /\ dev \in DevRecord /\ chan \in Seq(ChanEvent)
      /\ active \in {"html", "companion"} /\ wantPaused \in BOOLEAN
      /\ load[l] \in LoadRecord
  BY <1>1 DEF TypeOK, Sink
<1>3. /\ Current /\ session = "queue" /\ load[l].row = index /\ index \in Row
      /\ (load[l].sink = "companion" <=> exclusive)
      /\ (load[l].sink = "html" => pending)
      /\ load[l].sink \in {"html", "companion"} /\ load[l].pc # "off"
      /\ \A k \in Loads : load[k].cur => k = l
      /\ InFlight => ~join.timer
      /\ ~htm.playing
  BY <1>1, <1>2, IdleSays DEF CurrentControl, LoadControl, SinkControl, Current, LoadRecord, Sink
<1>4. index # NoRow
  BY <1>3, BoundsAssumption DEF Row, NoRow
<1> DEFINE here == kind = "downloaded"
           pc == IF load[l].sink = "html" THEN "wait" ELSE "gate"
           r == [[load[l] EXCEPT !.local = here] EXCEPT !.pc = pc]
<1>5. load' = [load EXCEPT ![l] = r]
  BY <1>3 DEF Attempt
<1>6. here \in BOOLEAN /\ pc \in {"gate", "wait"} /\ (pc = "wait" <=> load[l].sink = "html")
  OBVIOUS
<1> HIDE DEF here, pc
<1>7. /\ r \in LoadRecord /\ r.pc = pc /\ r.cur = load[l].cur /\ r.row = load[l].row
      /\ r.clock = load[l].clock /\ r.sink = load[l].sink
  BY <1>2, <1>6 DEF LoadRecord
<1> HIDE DEF r
<1>8. /\ load' \in [Loads -> LoadRecord] /\ load'[l] = r
      /\ \A k \in Loads \ {l} : load'[k] = load[k]
      /\ InFlight' <=> InFlight
      /\ Current' <=> Current
  BY <1>1, <1>3, <1>5, <1>6, <1>7, GoesOn
<1>9. Replacing' <=> pc = "gate"
  BY <1>3, <1>6, <1>7, <1>8 DEF Replacing
<1>10. /\ source' = kind /\ active' = load[l].sink
       /\ url' \in Row \cup {NoRow}
       /\ UNCHANGED <<session, index, pending, wantPaused, join>>
  BY <1>1, <1>3 DEF Attempt, TypeOK
<1>11. [Silent EXCEPT !.row = load[l].row, !.local = here] \in HtmRecord
       /\ [Silent EXCEPT !.row = load[l].row, !.local = here].row = load[l].row
       /\ [Silent EXCEPT !.row = load[l].row, !.local = here].local = here
       /\ ~[Silent EXCEPT !.row = load[l].row, !.local = here].playing
  BY <1>3, <1>6 DEF Silent, HtmRecord
<1>12. CASE load[l].sink = "html"
  <2>1. /\ htm' \in HtmRecord /\ htm'.row = load[l].row /\ ~htm'.playing
        /\ htm'.local => url' = load[l].row
        /\ \/ comp' = NoComp /\ dev' = NoDev /\ chan' = chan
           \/ active = "html" /\ UNCHANGED <<comp, dev, chan>>
    BY <1>2, <1>11, <1>12 DEF Attempt, CompStopped, here
  <2>2. comp' \in CompRecord /\ dev' \in DevRecord /\ chan' \in Seq(ChanEvent)
    BY <1>2, <2>1, SilentSays
  <2>3. TypeOK'
    BY <1>1, <1>2, <1>3, <1>6, <1>7, <1>8, <1>9, <1>10, <1>12, <1>4, <2>1, <2>2, SilentSays
       DEF TypeOK, Heard, Sink, world, NoRow, ghosts
  <2>4. LoadControl'
    BY <1>1, <1>2, <1>3, <1>6, <1>7, <1>8, <1>9, <1>10, <1>12, <1>4, <2>1, <2>2, SilentSays
       DEF LoadControl, world, NoRow, ghosts
  <2>5. CurrentControl'
    BY <1>1, <1>2, <1>3, <1>6, <1>7, <1>8, <1>9, <1>10, <1>12, <1>4, <2>1, <2>2, SilentSays
       DEF CurrentControl, Heard, LoadControl, world, NoRow, ghosts
  <2>6. SinkControl'
    BY <1>1, <1>2, <1>3, <1>6, <1>7, <1>8, <1>9, <1>10, <1>12, <1>4, <2>1, <2>2, SilentSays
       DEF SinkControl, world, NoRow, ghosts
  <2>7. CompanionControl'
    BY <1>1, <1>2, <1>3, <1>6, <1>7, <1>8, <1>9, <1>10, <1>12, <1>4, <2>1, <2>2, SilentSays
       DEF CompanionControl, Heard, SinkControl, world, NoRow, ghosts
  <2>8. WaitingHasCause'
    BY <1>1, <1>2, <1>3, <1>6, <1>7, <1>8, <1>9, <1>10, <1>12, <1>4, <2>1, <2>2, SilentSays
       DEF WaitingHasCause, CompanionControl, world, NoRow, ghosts
  <2>9. PauseControl'
    BY <1>1, <1>2, <1>3, <1>6, <1>7, <1>8, <1>9, <1>10, <1>12, <1>4, <2>1, <2>2, SilentSays
       DEF PauseControl, TellsPause, CompanionControl, SinkControl, world, NoRow, ghosts
  <2> QED BY <2>3, <2>4, <2>5, <2>6, <2>7, <2>8, <2>9 DEF IInv
<1>13. CASE load[l].sink = "companion"
  <2>1. /\ htm' \in HtmRecord /\ ~htm'.playing /\ ~htm'.local /\ htm'.row = NoRow
        /\ \/ htm' = Silent /\ comp' = NoComp /\ dev' = NoDev /\ chan' = chan
           \/ active = "companion" /\ UNCHANGED <<htm, comp, dev, chan>>
    BY <1>1, <1>2, <1>3, <1>13, SilentSays DEF Attempt, CompStopped, HtmlStopped, SinkControl
  <2>2. comp' \in CompRecord /\ dev' \in DevRecord /\ chan' \in Seq(ChanEvent)
    BY <1>2, <2>1, SilentSays
  <2>3. TypeOK'
    BY <1>1, <1>2, <1>3, <1>6, <1>7, <1>8, <1>9, <1>10, <1>13, <2>1, <2>2, SilentSays DEF TypeOK,
       Heard, Sink, world, NoRow, ghosts
  <2>4. LoadControl'
    BY <1>1, <1>2, <1>3, <1>6, <1>7, <1>8, <1>9, <1>10, <1>13, <2>1, <2>2, SilentSays
       DEF LoadControl, world, NoRow, ghosts
  <2>5. CurrentControl'
    BY <1>1, <1>2, <1>3, <1>6, <1>7, <1>8, <1>9, <1>10, <1>13, <2>1, <2>2, SilentSays
       DEF CurrentControl, Heard, LoadControl, world, NoRow, ghosts
  <2>6. SinkControl'
    BY <1>1, <1>2, <1>3, <1>6, <1>7, <1>8, <1>9, <1>10, <1>13, <2>1, <2>2, SilentSays
       DEF SinkControl, world, NoRow, ghosts
  <2>7. CompanionControl'
    BY <1>1, <1>2, <1>3, <1>6, <1>7, <1>8, <1>9, <1>10, <1>13, <2>1, <2>2, SilentSays
       DEF CompanionControl, Heard, SinkControl, world, NoRow, ghosts
  <2>8. WaitingHasCause'
    BY <1>1, <1>2, <1>3, <1>6, <1>7, <1>8, <1>9, <1>10, <1>13, <2>1, <2>2, SilentSays
       DEF WaitingHasCause, CompanionControl, world, NoRow, ghosts
  <2>9. PauseControl'
    BY <1>1, <1>2, <1>3, <1>6, <1>7, <1>8, <1>9, <1>10, <1>13, <2>1, <2>2, SilentSays
       DEF PauseControl, TellsPause, CompanionControl, SinkControl, world, NoRow, ghosts
  <2> QED BY <2>3, <2>4, <2>5, <2>6, <2>7, <2>8, <2>9 DEF IInv
<1> QED BY <1>3, <1>12, <1>13

LEMMA ResolveInv ==
    ASSUME IInv, NEW l \in Loads, Resolve(l)
    PROVE  IInv'
PROOF
<1>1. events \in 0..MaxEvents /\ nudged \in BOOLEAN /\ local \subseteq Row
  BY DEF IInv, TypeOK
<1>2. PICK kind \in Intents(l) :
         IF kind = "unavailable"
         THEN /\ source' = "unavailable" /\ pending' = FALSE /\ url' = NoRow /\ StopBoth
              /\ Finish(l, IF wantPaused THEN Canceled(join) ELSE join)
              /\ UNCHANGED <<session, index, wantPaused, active>>
         ELSE Attempt(l, kind)
  BY DEF Resolve
<1>3. load[l].pc = "resolve" /\ load[l].cur /\ UNCHANGED <<world, local, events, ghosts>>
  BY DEF Resolve
<1>4. kind = "unavailable" \/ kind \in Heard
  BY DEF Intents, HtmlIntents, HtmlSources, CompanionIntents, Heard
<1>5. CASE kind = "unavailable"
  BY <1>1, <1>2, <1>3, <1>5, GivesUp DEF ghosts
<1>6. CASE kind # "unavailable"
  BY <1>2, <1>3, <1>4, <1>6, AttemptInv
<1> QED BY <1>5, <1>6

\* companionLoad: the companion gets the row, maybe for a load that was overtaken.
LEMMA GateOpensInv ==
    ASSUME IInv, NEW l \in Loads, GateOpens(l)
    PROVE  IInv'
PROOF
<1>1. /\ TypeOK /\ LoadControl /\ CurrentControl /\ SinkControl
      /\ CompanionControl /\ WaitingHasCause /\ PauseControl
  BY DEF IInv
<1>2. /\ load \in [Loads -> LoadRecord] /\ join \in JoinRecord
      /\ htm \in HtmRecord /\ comp \in CompRecord /\ dev \in DevRecord /\ chan \in Seq(ChanEvent)
      /\ active \in {"html", "companion"} /\ wantPaused \in BOOLEAN
      /\ load[l] \in LoadRecord
  BY <1>1 DEF TypeOK, Sink
<1> DEFINE r == [load[l] EXCEPT !.pc = "wait"]
<1>3. load[l].pc = "gate" /\ load[l].row \in Row /\ device = "armed"
      /\ (~raced' => ~raced /\ load[l].cur)
      /\ load[l].row # NoRow
  <2>1. load[l].pc = "gate" /\ load[l].row \in Row /\ device = "armed"
        /\ (~raced' => ~raced /\ load[l].cur)
    BY <1>1 DEF GateOpens, LoadControl, TypeOK
  <2> QED BY <2>1, BoundsAssumption DEF Row, NoRow
<1>4. /\ r \in LoadRecord /\ r.pc = "wait" /\ r.cur = load[l].cur /\ r.row = load[l].row
      /\ r.clock = load[l].clock /\ r.sink = load[l].sink
  BY <1>2 DEF LoadRecord
<1>5. load' = [load EXCEPT ![l] = r]
  BY DEF GateOpens
<1> HIDE DEF r
<1>6. /\ load' \in [Loads -> LoadRecord] /\ load'[l] = r
      /\ \A k \in Loads \ {l} : load'[k] = load[k]
      /\ InFlight' <=> InFlight
      /\ Current' <=> Current
  BY <1>1, <1>3, <1>4, <1>5, GoesOn
<1>7. Resolving' <=> Resolving
  BY <1>3, <1>4, <1>6 DEF Resolving
<1>8. /\ comp' \in CompRecord /\ comp'.has
      /\ dev' \in DevRecord /\ dev'.row = load[l].row /\ dev'.on
  BY <1>3 DEF GateOpens, CompRecord, DevRecord
<1>9. /\ chan' \in Seq(ChanEvent)
      /\ raced' \in BOOLEAN
      /\ UNCHANGED <<session, index, source, pending, wantPaused, join, active, url, htm, world,
                     local, events, wish, nudged, dropped>>
  <2>1. chan' \in Seq(ChanEvent)
    <3>1. chan' = [k \in 1..Len(chan) |-> [chan[k] EXCEPT !.old = TRUE]] /\ Len(chan) \in Nat
      BY <1>2 DEF GateOpens
    <3>2. \A k \in 1..Len(chan) : [chan[k] EXCEPT !.old = TRUE] \in ChanEvent
      <4> TAKE k \in 1..Len(chan)
      <4>1. chan[k] \in ChanEvent
        BY <1>2
      <4> QED BY <4>1 DEF ChanEvent
    <3> QED BY <3>1, <3>2
  <2> QED BY <1>1, <2>1 DEF GateOpens, TypeOK
<1>10. load[l].cur => Current
  BY <1>3 DEF Current
<1>11. load[l].cur => \A k \in Loads : load[k].cur => k = l
  BY <1>1 DEF LoadControl
<1>12. TypeOK'
  BY <1>1, <1>2, <1>3, <1>4, <1>6, <1>7, <1>8, <1>9, <1>10, <1>11 DEF TypeOK, world, NoRow
<1>13. LoadControl'
  BY <1>1, <1>2, <1>3, <1>4, <1>6, <1>7, <1>8, <1>9, <1>10, <1>11 DEF LoadControl, world, NoRow
<1>14. CurrentControl'
  BY <1>1, <1>2, <1>3, <1>4, <1>6, <1>7, <1>8, <1>9, <1>10, <1>11 DEF CurrentControl, Heard,
     LoadControl, world, NoRow
<1>15. SinkControl'
  BY <1>1, <1>2, <1>3, <1>4, <1>6, <1>7, <1>8, <1>9, <1>10, <1>11 DEF SinkControl, world, NoRow
<1>16. CompanionControl'
  BY <1>1, <1>2, <1>3, <1>4, <1>6, <1>7, <1>8, <1>9, <1>10, <1>11 DEF CompanionControl, Heard,
     SinkControl, CurrentControl, world, NoRow
<1>17. WaitingHasCause'
  BY <1>1, <1>2, <1>3, <1>4, <1>6, <1>7, <1>8, <1>9, <1>10, <1>11 DEF WaitingHasCause,
     CompanionControl, world, NoRow
<1>18. PauseControl'
  BY <1>1, <1>2, <1>3, <1>4, <1>6, <1>7, <1>8, <1>9, <1>10, <1>11 DEF PauseControl, TellsPause,
     CompanionControl, SinkControl, world, NoRow
<1> QED BY <1>12, <1>13, <1>14, <1>15, <1>16, <1>17, <1>18 DEF IInv

LEMMA GateShutsInv ==
    ASSUME IInv, NEW l \in Loads, GateShuts(l)
    PROVE  IInv'
PROOF
<1>1. events \in 0..MaxEvents /\ nudged \in BOOLEAN
  BY DEF IInv, TypeOK
<1>2. PICK hard \in BOOLEAN : Fails(l, hard, pending, join)
  BY DEF GateShuts
<1>3. /\ load[l].cur /\ load[l].pc = "gate" /\ device # "armed"
      /\ UNCHANGED <<world, wish, dropped, raced, events, nudged>>
  BY DEF GateShuts, ghosts
<1> QED BY <1>1, <1>2, <1>3, FailsInv

LEMMA LoadedInv ==
    ASSUME IInv, NEW l \in Loads, Loaded(l)
    PROVE  IInv'
PROOF
<1>1. /\ TypeOK /\ LoadControl /\ CurrentControl /\ SinkControl
      /\ CompanionControl /\ WaitingHasCause /\ PauseControl
  BY DEF IInv
<1>2. /\ load \in [Loads -> LoadRecord] /\ join \in JoinRecord
      /\ htm \in HtmRecord /\ comp \in CompRecord /\ dev \in DevRecord /\ chan \in Seq(ChanEvent)
      /\ active \in {"html", "companion"} /\ wantPaused \in BOOLEAN
      /\ load[l] \in LoadRecord
  BY <1>1 DEF TypeOK, Sink
<1>3. load[l].cur /\ load[l].pc = "wait"
  BY DEF Loaded
<1>4. /\ Current /\ session = "queue" /\ load[l].row = index /\ index \in Row
      /\ (load[l].sink = "companion" <=> exclusive)
      /\ (load[l].sink = "html" => pending)
      /\ load[l].sink \in {"html", "companion"} /\ load[l].pc # "off"
      /\ \A k \in Loads : load[k].cur => k = l
      /\ InFlight => ~join.timer
      /\ ~htm.playing
  BY <1>1, <1>2, <1>3, IdleSays DEF CurrentControl, LoadControl, SinkControl, Current, LoadRecord,
     Sink
<1> DEFINE heard == source \in {"streaming", "downloaded"}
           j == IF wantPaused THEN Rest ELSE IF heard THEN Succeeded(join) ELSE join
<1>5. j \in JoinRecord /\ Finish(l, j)
  BY <1>2, CanceledSays, SucceededSays DEF Loaded
<1>6. /\ join' = Returned(j, load[l].clock)
      /\ load' \in [Loads -> LoadRecord]
      /\ load'[l] = Idle
      /\ \A k \in Loads \ {l} : load'[k] = load[k]
      /\ InFlight' <=> InFlight /\ ~load[l].clock
      /\ load[l].clock \in BOOLEAN
      /\ load[l].clock => InFlight
  BY <1>1, <1>4, <1>5, FinishSays DEF InFlight
<1>7. /\ wantPaused => ~j.hold /\ ~j.active /\ ~j.mark /\ ~j.after /\ ~j.timer
      /\ heard => ~j.after /\ ~j.timer
      /\ InFlight => ~j.timer
  BY <1>2, <1>4, RestSays, SucceededSays
<1> HIDE DEF j
<1>8. /\ UNCHANGED <<session, index, source, wantPaused, active, url, world, local, events, ghosts>>
      /\ pending' = FALSE
      /\ join' \in JoinRecord
      /\ join'.hold = j.hold /\ join'.active = j.active
      /\ join'.mark = j.mark /\ join'.after = j.after
      /\ join'.timer <=> j.timer \/ (load[l].clock /\ j.after)
  BY <1>5, <1>6, ReturnedSays DEF Loaded
<1>9. active = load[l].sink /\ (load[l].sink = "html" => htm.row = load[l].row)
  BY <1>1, <1>2, <1>3 DEF CurrentControl
<1>10. /\ htm' \in HtmRecord /\ comp' \in CompRecord /\ dev' \in DevRecord
       /\ chan' \in Seq(ChanEvent)
       /\ htm'.row = htm.row /\ htm'.local = htm.local
       /\ (htm'.playing => ~wantPaused /\ active = "html" /\ htm.row \in Row)
       /\ comp'.has = comp.has
       /\ dev'.row = dev.row /\ (dev'.on => dev.on)
       /\ wantPaused /\ active = "companion" => comp'.paused /\ ~dev'.on
  <2>1. CASE active = "html"
    <3>1. comp' = comp /\ dev' = dev /\ chan' = chan
          /\ htm' = IF wantPaused THEN [htm EXCEPT !.told = FALSE] ELSE [htm EXCEPT !.playing = TRUE]
      BY <2>1 DEF Loaded
    <3>2. /\ htm' \in HtmRecord /\ htm'.row = htm.row /\ htm'.local = htm.local
          /\ wantPaused => htm'.playing = htm.playing
      BY <1>2, <3>1 DEF HtmRecord
    <3> QED BY <1>2, <1>4, <1>9, <2>1, <3>1, <3>2
  <2>2. CASE active = "companion" /\ wantPaused
    BY <1>1, <1>2, <1>4, <2>2, PauseSinkSays DEF Loaded
  <2>3. CASE active = "companion" /\ ~wantPaused
    BY <1>2, <1>4, <2>3 DEF Loaded, sinks
  <2> QED BY <1>2, <2>1, <2>2, <2>3
<1>11. ~Current' /\ ~Resolving' /\ ~Replacing' /\ \A k \in Loads : ~load'[k].cur
  BY <1>4, <1>3, <1>6, IdleSays DEF Current, Resolving, Replacing
<1>12. ~raced /\ dev.row # NoRow => dev.row = index
  BY <1>1, <1>2, <1>4, <1>3 DEF CompanionControl, SinkControl, Replacing
<1>13. ~Resolving
  BY <1>4, <1>3 DEF Resolving
<1>14. ~raced => heard
  BY <1>1, <1>3 DEF CurrentControl, Heard
<1>15. TypeOK'
  <2>1. /\ session' = session /\ index' = index /\ source' = source /\ wantPaused' = wantPaused
        /\ active' = active /\ url' = url /\ local' = local /\ events' = events
        /\ wish' = wish /\ nudged' = nudged /\ dropped' = dropped /\ raced' = raced
        /\ device' = device /\ exclusive' = exclusive /\ online' = online
    BY <1>8 DEF world, ghosts
  <2>2. pending' \in BOOLEAN /\ join' \in JoinRecord /\ load' \in [Loads -> LoadRecord]
    BY <1>6, <1>8
  <2>3. /\ htm' \in HtmRecord /\ comp' \in CompRecord /\ dev' \in DevRecord
        /\ chan' \in Seq(ChanEvent)
    BY <1>10
  <2> QED BY <1>1, <2>1, <2>2, <2>3 DEF TypeOK
<1>16. LoadControl'
  <2>1. InFlight' => ~join'.timer
    BY <1>6, <1>7, <1>8
  <2>2. session' = session /\ index' = index
    BY <1>8
  <2> QED BY <1>1, <1>6, <2>1, <2>2, EndedLoads
<1>17. CurrentControl'
  BY <1>1, <1>2, <1>4, <1>6, <1>11, <1>7, <1>8, <1>10, <1>12, <1>13, <1>3, <1>9, <1>14, IdleSays
     DEF CurrentControl, Heard, world, NoRow, ghosts
<1>18. SinkControl'
  BY <1>1, <1>2, <1>4, <1>6, <1>11, <1>7, <1>8, <1>10, <1>12, <1>13, <1>3, <1>9, <1>14, IdleSays
     DEF SinkControl, Row, world, NoRow, ghosts
<1>19. CompanionControl'
  BY <1>1, <1>2, <1>4, <1>6, <1>11, <1>7, <1>8, <1>10, <1>12, <1>13, <1>3, <1>9, <1>14, IdleSays
     DEF CompanionControl, Heard, SinkControl, CurrentControl, world, NoRow, ghosts
<1>20. WaitingHasCause'
  BY <1>1, <1>2, <1>4, <1>6, <1>11, <1>7, <1>8, <1>10, <1>12, <1>13, <1>3, <1>9, <1>14, IdleSays
     DEF WaitingHasCause, CompanionControl, world, NoRow, ghosts
<1>21. PauseControl'
  BY <1>1, <1>2, <1>4, <1>6, <1>11, <1>7, <1>8, <1>10, <1>12, <1>13, <1>3, <1>9, <1>14, IdleSays
     DEF PauseControl, TellsPause, CompanionControl, SinkControl, world, NoRow, ghosts
<1> QED BY <1>15, <1>16, <1>17, <1>18, <1>19, <1>20, <1>21 DEF IInv

LEMMA NotLoadedInv ==
    ASSUME IInv, NEW l \in Loads, NotLoaded(l)
    PROVE  IInv'
PROOF
<1>1. events \in 0..MaxEvents /\ nudged \in BOOLEAN
  BY DEF IInv, TypeOK
<1>2. /\ Fails(l, FALSE, pending, join)
      /\ load[l].cur /\ load[l].pc = "wait"
      /\ UNCHANGED <<world, wish, dropped, raced, events, nudged>>
  BY DEF NotLoaded, ghosts
<1> QED BY <1>1, <1>2, FailsInv

LEMMA OvertakenInv ==
    ASSUME IInv, NEW l \in Loads, Overtaken(l)
    PROVE  IInv'
PROOF
<1>1. /\ TypeOK /\ LoadControl /\ CurrentControl /\ SinkControl
      /\ CompanionControl /\ WaitingHasCause /\ PauseControl
  BY DEF IInv
<1>2. /\ load \in [Loads -> LoadRecord] /\ join \in JoinRecord
      /\ htm \in HtmRecord /\ comp \in CompRecord /\ dev \in DevRecord /\ chan \in Seq(ChanEvent)
      /\ active \in {"html", "companion"} /\ wantPaused \in BOOLEAN
      /\ load[l] \in LoadRecord
  BY <1>1 DEF TypeOK, Sink
<1>3. ~load[l].cur /\ load[l].pc # "off" /\ Finish(l, join)
      /\ UNCHANGED <<session, index, source, pending, wantPaused, active, url, sinks, world,
              local, events, ghosts>>
  BY DEF Overtaken
<1>4. /\ join' = Returned(join, load[l].clock)
      /\ Current' <=> Current
      /\ load' \in [Loads -> LoadRecord]
      /\ load'[l] = Idle
      /\ \A k \in Loads \ {l} : load'[k] = load[k]
      /\ InFlight' <=> InFlight /\ ~load[l].clock
      /\ load[l].clock \in BOOLEAN
      /\ load[l].clock => InFlight
  BY <1>1, <1>2, <1>3, FinishSays DEF InFlight
<1>5. (Resolving' <=> Resolving) /\ (Replacing' <=> Replacing)
  BY <1>3, <1>4, IdleSays DEF Resolving, Replacing
<1>6. /\ join' \in JoinRecord
      /\ join'.hold = join.hold /\ join'.active = join.active
      /\ join'.mark = join.mark /\ join'.after = join.after
      /\ join'.timer <=> join.timer \/ (load[l].clock /\ join.after)
  BY <1>2, <1>4, ReturnedSays
<1>7. TypeOK'
  BY <1>1, <1>2, <1>3, <1>4, <1>5, <1>6, IdleSays DEF TypeOK, world, NoRow, sinks, ghosts
<1>8. LoadControl'
  BY <1>1, <1>2, <1>3, <1>4, <1>5, <1>6, IdleSays DEF LoadControl, world
<1>9. CurrentControl'
  BY <1>1, <1>2, <1>3, <1>4, <1>5, <1>6, IdleSays DEF CurrentControl, Heard, world, NoRow,
     sinks, ghosts
<1>10. SinkControl'
  BY <1>1, <1>2, <1>3, <1>4, <1>5, <1>6, IdleSays DEF SinkControl, world, NoRow, sinks, ghosts
<1>11. CompanionControl'
  BY <1>1, <1>2, <1>3, <1>4, <1>5, <1>6, IdleSays DEF CompanionControl, Heard, SinkControl,
     world, NoRow, sinks, ghosts
<1>12. WaitingHasCause'
  BY <1>1, <1>2, <1>3, <1>4, <1>5, <1>6, IdleSays DEF WaitingHasCause, CompanionControl, world,
     NoRow, sinks, ghosts
<1>13. PauseControl'
  BY <1>1, <1>2, <1>3, <1>4, <1>5, <1>6, IdleSays DEF PauseControl, TellsPause,
     CompanionControl, SinkControl, world, NoRow, sinks, ghosts
<1> QED BY <1>7, <1>8, <1>9, <1>10, <1>11, <1>12, <1>13 DEF IInv

-----------------------------------------------------------------------------
(* The clocks, what the sinks report, and what fails.                      *)

LEMMA HoldElapsesInv ==
    ASSUME IInv, HoldElapses
    PROVE  IInv'
PROOF
<1>1. /\ TypeOK /\ LoadControl /\ CurrentControl /\ SinkControl
      /\ CompanionControl /\ WaitingHasCause /\ PauseControl
  BY DEF IInv
<1>2. load' = load
  BY DEF HoldElapses, world
<1>3. (InFlight' <=> InFlight) /\ (Current' <=> Current) /\ (Replacing' <=> Replacing)
      /\ (Resolving' <=> Resolving)
  BY <1>2, SameLoads
<1>4. /\ htm \in HtmRecord /\ comp \in CompRecord /\ dev \in DevRecord
      /\ chan \in Seq(ChanEvent) /\ join \in JoinRecord /\ htm.told \in BOOLEAN /\ htm.playing \in BOOLEAN
      /\ active \in {"html", "companion"} /\ wantPaused \in BOOLEAN
  BY <1>1 DEF TypeOK, HtmRecord, Sink
<1>5. /\ join' \in JoinRecord /\ ~join'.hold
      /\ join'.timer = join.timer /\ join'.after = join.after
      /\ join'.active = join.active /\ join'.mark = join.mark
  BY <1>4 DEF HoldElapses, JoinRecord
<1>6. TypeOK'
  BY <1>1, <1>2, <1>3, <1>4, <1>5 DEF TypeOK, HoldElapses, world, sinks, ghosts, NoRow
<1>7. LoadControl'
  BY <1>1, <1>2, <1>3, <1>4, <1>5 DEF LoadControl, HoldElapses, world
<1>8. CurrentControl'
  BY <1>1 DEF CurrentControl, Heard, SinkControl, HoldElapses, world, sinks, ghosts, NoRow
<1>9. SinkControl'
  BY <1>1, <1>2, <1>3, <1>4, <1>5 DEF SinkControl, CurrentControl, Heard, Current, Idle,
     HoldElapses, world, sinks, ghosts, NoRow
<1>10. CompanionControl'
  BY <1>1, <1>2, <1>3, <1>4, <1>5 DEF CompanionControl, SinkControl, LoadControl,
     CurrentControl, CompanionControl, Heard, Current, Idle, HoldElapses, world, sinks, ghosts,
     NoRow
<1>11. WaitingHasCause'
  BY <1>1, <1>2, <1>3, <1>4, <1>5 DEF WaitingHasCause, LoadControl, CompanionControl, Current,
     Idle, HoldElapses, world, sinks, ghosts, NoRow
<1>12. PauseControl'
  BY <1>1, <1>2, <1>3, <1>4, <1>5 DEF PauseControl, TellsPause, SinkControl, LoadControl,
     HoldElapses, world, sinks, ghosts, NoRow
<1> QED BY <1>6, <1>7, <1>8, <1>9, <1>10, <1>11, <1>12 DEF IInv

LEMMA TimerStaleInv ==
    ASSUME IInv, TimerFires, index = NoRow, UNCHANGED load
    PROVE  IInv'
PROOF
<1>1. /\ TypeOK /\ LoadControl /\ CurrentControl /\ SinkControl
      /\ CompanionControl /\ WaitingHasCause /\ PauseControl
  BY DEF IInv
<1>2. load' = load
  BY DEF TimerFires, world
<1>3. (InFlight' <=> InFlight) /\ (Current' <=> Current) /\ (Replacing' <=> Replacing)
      /\ (Resolving' <=> Resolving)
  BY <1>2, SameLoads
<1>4. /\ htm \in HtmRecord /\ comp \in CompRecord /\ dev \in DevRecord
      /\ chan \in Seq(ChanEvent) /\ join \in JoinRecord /\ htm.told \in BOOLEAN /\ htm.playing \in BOOLEAN
      /\ active \in {"html", "companion"} /\ wantPaused \in BOOLEAN
  BY <1>1 DEF TypeOK, HtmRecord, Sink
<1>5. ~InFlight
  BY <1>1 DEF TimerFires, LoadControl
<1>6. /\ join' \in JoinRecord /\ ~join'.timer /\ ~join'.after /\ join'.hold = join.hold
      /\ join'.active = join.active /\ join'.mark = join.mark
      /\ UNCHANGED <<session, index, source, pending, wantPaused, load, active, url, htm>>
      /\ session # "queue"
  <2>1. join' = [[join EXCEPT !.timer = FALSE] EXCEPT !.after = FALSE]
    BY <1>5 DEF TimerFires
  <2>2. session # "queue"
    BY <1>1, BoundsAssumption DEF LoadControl, Row, NoRow
  <2> QED BY <1>4, <1>5, <2>1, <2>2 DEF TimerFires, JoinRecord
<1>7. TypeOK'
  BY <1>1, <1>2, <1>3, <1>4, <1>6, <1>5 DEF TypeOK, TimerFires, world, sinks, ghosts, NoRow
<1>8. LoadControl'
  BY <1>1, <1>2, <1>3 DEF LoadControl, TimerFires, world
<1>9. CurrentControl'
  BY <1>1, <1>2, <1>3, <1>4, <1>6, <1>5 DEF CurrentControl, Heard, SinkControl, TimerFires
<1>10. SinkControl'
  BY <1>1, <1>2, <1>3, <1>4, <1>6, <1>5 DEF SinkControl, CurrentControl, Heard, Current, Idle,
     TimerFires, world, sinks, ghosts, NoRow
<1>11. CompanionControl'
  BY <1>1, <1>2, <1>3, <1>4, <1>6, <1>5 DEF CompanionControl, SinkControl, LoadControl,
     CurrentControl, CompanionControl, Heard, Current, Idle, TimerFires, world, sinks, ghosts,
     NoRow
<1>12. WaitingHasCause'
  BY <1>1, <1>2, <1>3, <1>4, <1>6, <1>5 DEF WaitingHasCause, LoadControl, CompanionControl,
     Current, Idle, TimerFires, world, sinks, ghosts, NoRow
<1>13. PauseControl'
  BY <1>1, <1>2, <1>3, <1>4, <1>6, <1>5 DEF PauseControl, TellsPause, SinkControl, LoadControl,
     TimerFires, world, sinks, ghosts, NoRow
<1> QED BY <1>7, <1>8, <1>9, <1>10, <1>11, <1>12, <1>13 DEF IInv

LEMMA TimerFiresInv ==
    ASSUME IInv, TimerFires
    PROVE  IInv'
PROOF
<1>1. /\ TypeOK /\ LoadControl /\ CompanionControl /\ PauseControl
  BY DEF IInv
<1>2. ~InFlight /\ join.timer
  BY <1>1 DEF TimerFires, LoadControl
<1>3. CASE index = NoRow
  BY <1>3, <1>2, TimerStaleInv DEF TimerFires
<1>4. CASE index # NoRow
  <2> DEFINE j == [[join EXCEPT !.timer = FALSE] EXCEPT !.after = FALSE]
  <2>1. PlayIndex(index, FALSE, TRUE, j)
    BY <1>2, <1>4 DEF TimerFires
  <2>2. j \in JoinRecord /\ ~j.timer /\ ~j.after
    BY <1>1 DEF TypeOK, JoinRecord
  <2> HIDE DEF j
  <2>3. UNCHANGED <<comp, dev, chan, world, local, events, ghosts>>
    BY DEF TimerFires
  <2>4. index \in Row
    BY <1>1, <1>4 DEF TypeOK
  <2>5. wish = "pause" /\ ~nudged => raced
    <3>1. htm.told /\ chan = << >>
      BY DEF TimerFires
    <3>2. ~TellsPause
      BY <3>1 DEF TellsPause
    <3> QED BY <1>1, <1>2, <3>2 DEF PauseControl, CompanionControl
  <2>6. comp \in CompRecord /\ dev \in DevRecord /\ chan \in Seq(ChanEvent)
        /\ device \in {"down", "unarmed", "armed"} /\ online \in BOOLEAN /\ exclusive \in BOOLEAN
        /\ local \subseteq Row /\ events \in 0..MaxEvents /\ wish \in {"play", "pause"}
        /\ nudged \in BOOLEAN /\ dropped \in BOOLEAN /\ raced \in BOOLEAN
    BY <1>1 DEF TypeOK
  <2>7. (device # "down" => exclusive) /\ (dev.row # NoRow => device = "armed")
    BY DEF IInv, SinkControl
  <2> QED BY <1>2, <2>1, <2>2, <2>3, <2>4, <2>5, <2>6, <2>7, PlayIndexInv DEF PlayIndex, world,
             ghosts
<1> QED BY <1>3, <1>4

LEMMA HtmlPauseToldInv ==
    ASSUME IInv, HtmlPauseTold
    PROVE  IInv'
PROOF
<1>1. /\ TypeOK /\ LoadControl /\ CurrentControl /\ SinkControl
      /\ CompanionControl /\ WaitingHasCause /\ PauseControl
  BY DEF IInv
<1>2. load' = load
  BY DEF HtmlPauseTold, world
<1>3. (InFlight' <=> InFlight) /\ (Current' <=> Current) /\ (Replacing' <=> Replacing)
      /\ (Resolving' <=> Resolving)
  BY <1>2, SameLoads
<1>4. /\ htm \in HtmRecord /\ comp \in CompRecord /\ dev \in DevRecord
      /\ chan \in Seq(ChanEvent) /\ join \in JoinRecord /\ htm.told \in BOOLEAN /\ htm.playing \in BOOLEAN
      /\ active \in {"html", "companion"} /\ wantPaused \in BOOLEAN
  BY <1>1 DEF TypeOK, HtmRecord, Sink
<1>5. /\ Failed(join) \in JoinRecord
      /\ ~Failed(join).hold /\ Failed(join).active /\ Failed(join).mark = join.mark
      /\ Failed(join).timer <=> join.timer \/ ~InFlight
      /\ Failed(join).after <=> join.after \/ (InFlight /\ ~join.timer)
  BY <1>4, FailedSays
<1>6. /\ htm' \in HtmRecord /\ htm'.row = htm.row /\ htm'.local = htm.local
      /\ htm'.playing = htm.playing /\ htm'.told
  BY <1>4 DEF HtmlPauseTold, HtmRecord
<1>7. /\ join' \in JoinRecord /\ pending' \in BOOLEAN /\ dropped' \in BOOLEAN
      /\ pending' <=> pending \/ (join.hold /\ ~join.mark)
      /\ dropped' <=> dropped \/ (join.mark /\ pending)
      /\ \/ join.mark /\ join' = Rest
         \/ ~join.mark /\ join.hold /\ join' = Failed(join)
         \/ ~join.mark /\ ~join.hold /\ join' = join
  BY <1>1, PausedSays DEF HtmlPauseTold
<1>8. TypeOK'
  BY <1>1, <1>2, <1>3, <1>4, <1>5, <1>6, <1>7, RestSays DEF TypeOK, HtmlPauseTold, world, sinks,
     ghosts, NoRow
<1>9. LoadControl'
  BY <1>1, <1>2, <1>3, <1>4, <1>5, <1>6, <1>7, RestSays DEF LoadControl, HtmlPauseTold
<1>10. CurrentControl'
  BY <1>1, <1>2, <1>3, <1>4, <1>5, <1>6, <1>7, RestSays DEF CurrentControl, Heard, SinkControl,
     HtmlPauseTold, world, sinks, ghosts, NoRow
<1>11. SinkControl'
  BY <1>1, <1>2, <1>3 DEF SinkControl, CurrentControl, Heard, Current, Idle, HtmlPauseTold,
     world, sinks, ghosts, NoRow
<1>12. CompanionControl'
  BY <1>1, <1>2, <1>3, <1>4, <1>5, <1>6, <1>7, RestSays DEF CompanionControl, SinkControl,
     LoadControl, CurrentControl, CompanionControl, Heard, Current, Idle, HtmlPauseTold, world,
     sinks, ghosts, NoRow
<1>13. WaitingHasCause'
  BY <1>1, <1>2, <1>3, <1>4, <1>5, <1>6, <1>7, RestSays DEF WaitingHasCause, LoadControl,
     CompanionControl, Current, Idle, HtmlPauseTold, world, sinks, ghosts, NoRow
<1>14. PauseControl'
  BY <1>1, <1>2, <1>3, <1>4, <1>5, <1>6, <1>7, RestSays DEF PauseControl, TellsPause, Idle,
     HtmlPauseTold, world, sinks, ghosts, NoRow
<1> QED BY <1>8, <1>9, <1>10, <1>11, <1>12, <1>13, <1>14 DEF IInv

LEMMA NudgeSays ==
    ASSUME TypeOK, Nudge
    PROVE  /\ nudged' \in BOOLEAN /\ (nudged => nudged')
           /\ wish = "pause" => nudged'
BY DEF TypeOK, Nudge

\* An error or an end that restarts the row, or ends the queue, with the loads as
\* they are; a pause is no longer kept.
LEMMA NudgedInv ==
    ASSUME IInv, UNCHANGED <<session, index, source, wantPaused, load, active, url, exclusive,
            online, local, wish>>,
           htm' \in HtmRecord, htm'.row = htm.row, htm'.local = htm.local, htm'.told = htm.told,
           htm'.playing => htm.playing,
           comp' \in CompRecord, comp'.has = comp.has,
           dev' = dev \/ dev' = NoDev, dev'.row # NoRow => device' = device,
           chan' \in Seq(ChanEvent), device' = device \/ device' = "down",
           nudged' \in BOOLEAN, wish = "pause" => nudged',
           dropped' \in BOOLEAN, dropped => dropped', raced' \in BOOLEAN, raced => raced',
           raced' \/ session = "queue", events' \in 0..MaxEvents,
           \/ pending' = TRUE /\ join' = Failed(join)
           \/ pending' = pending /\ join' = join
           \/ pending' = pending /\ join' = Rest /\ (pending => dropped')
    PROVE  IInv'
PROOF
<1>1. /\ TypeOK /\ LoadControl /\ CurrentControl /\ SinkControl
      /\ CompanionControl /\ WaitingHasCause /\ PauseControl
  BY DEF IInv
<1>2. load' = load
  BY DEF NoRow
<1>3. (InFlight' <=> InFlight) /\ (Current' <=> Current) /\ (Replacing' <=> Replacing)
      /\ (Resolving' <=> Resolving)
  BY <1>2, SameLoads
<1>4. /\ htm \in HtmRecord /\ comp \in CompRecord /\ dev \in DevRecord
      /\ chan \in Seq(ChanEvent) /\ join \in JoinRecord /\ htm.told \in BOOLEAN /\ htm.playing \in BOOLEAN
      /\ active \in {"html", "companion"} /\ wantPaused \in BOOLEAN
  BY <1>1 DEF TypeOK, HtmRecord, Sink
<1>5. /\ Failed(join) \in JoinRecord
      /\ ~Failed(join).hold /\ Failed(join).active /\ Failed(join).mark = join.mark
      /\ Failed(join).timer <=> join.timer \/ ~InFlight
      /\ Failed(join).after <=> join.after \/ (InFlight /\ ~join.timer)
  BY <1>4, FailedSays
<1>6. join' \in JoinRecord /\ dev' \in DevRecord /\ pending' \in BOOLEAN
      /\ device' \in {"down", "unarmed", "armed"}
  BY <1>1, <1>4, <1>5, RestSays, SilentSays DEF TypeOK
<1>7. TypeOK'
  BY <1>1, <1>5, <1>6, RestSays, SilentSays DEF TypeOK, NoRow
<1>8. LoadControl'
  BY <1>1, <1>2, <1>3, <1>4, <1>5, <1>6, RestSays, SilentSays DEF LoadControl, NoRow
<1>9. CurrentControl'
  BY <1>1, <1>2, <1>3, RestSays, SilentSays DEF CurrentControl
<1>10. SinkControl'
  BY <1>1, <1>2, <1>3, <1>4, <1>5, <1>6, RestSays, SilentSays DEF SinkControl, CurrentControl
<1>11. CompanionControl'
  BY <1>1, <1>2, <1>3, <1>4, <1>5, <1>6, RestSays, SilentSays DEF CompanionControl, SinkControl,
     LoadControl, CurrentControl, CompanionControl, Heard, Current, Idle, NoRow
<1>12. WaitingHasCause'
  BY <1>1, <1>2, <1>3, <1>4, <1>5, <1>6, RestSays, SilentSays DEF WaitingHasCause, LoadControl
<1>13. PauseControl'
  BY <1>1, <1>2, <1>3 DEF PauseControl, TellsPause, SinkControl, LoadControl, CurrentControl
<1> QED BY <1>7, <1>8, <1>9, <1>10, <1>11, <1>12, <1>13 DEF IInv

\* companion, its link and the server as they were.
LEMMA AskedInv ==
    ASSUME IInv, NEW i \in Row, NEW paused \in BOOLEAN, NEW j \in {join, Rest},
           PlayIndex(i, paused, FALSE, j),
           comp' \in CompRecord, comp'.has = comp.has, dev' = dev, chan' \in Seq(ChanEvent),
           UNCHANGED <<world, local>>, events' \in 0..MaxEvents,
           wish' \in {"play", "pause"}, nudged' \in BOOLEAN, dropped' \in BOOLEAN,
           raced' \in BOOLEAN, raced => raced',
           wish' = "pause" /\ ~nudged' /\ ~raced' => paused /\ j = join /\ wish = "pause" /\ ~nudged
    PROVE  IInv'
PROOF
<1>1. /\ device \in {"down", "unarmed", "armed"} /\ online \in BOOLEAN /\ exclusive \in BOOLEAN
      /\ local \subseteq Row /\ join \in JoinRecord /\ (InFlight => ~join.timer)
      /\ (device # "down" => exclusive) /\ (dev.row # NoRow => device = "armed")
  BY DEF IInv, TypeOK, SinkControl, LoadControl
<1> QED BY <1>1, RestSays, PlayIndexInv DEF PlayIndex, world

\* What follows on an end, when it is told.
LEMMA EndedInv ==
    ASSUME IInv, NEW natural \in BOOLEAN, Ended(natural),
           UNCHANGED <<dev, world, local, wish>>,
           comp' \in CompRecord, comp'.has = comp.has, chan' \in Seq(ChanEvent),
           nudged' \in BOOLEAN, wish = "pause" => nudged',
           raced' \in BOOLEAN, raced => raced', raced' \/ session = "queue",
           events' \in 0..MaxEvents
    PROVE  IInv'
PROOF
<1>1. /\ TypeOK /\ join \in JoinRecord /\ htm \in HtmRecord /\ dropped \in BOOLEAN
      /\ pending \in BOOLEAN /\ wish \in {"play", "pause"}
      /\ Reachable(Ahead) \in Row \cup {NoRow}
  BY AheadSays DEF IInv, TypeOK
<1> DEFINE to == Reachable(Ahead)
           j == IF natural THEN Rest ELSE join
<1>2. /\ dropped' = (dropped \/ (natural /\ to = NoRow /\ pending))
      /\ IF ~natural /\ join.hold
       THEN /\ pending' = TRUE /\ join' = Failed(join)
            /\ htm' = [htm EXCEPT !.playing = FALSE]
            /\ UNCHANGED <<session, index, source, wantPaused, load, active, url>>
       ELSE IF to # NoRow
              THEN PlayIndex(to, FALSE, FALSE, j)
              ELSE /\ join' = j
                   /\ htm' = [htm EXCEPT !.playing = FALSE]
                   /\ UNCHANGED <<session, index, source, pending, wantPaused, load, active, url>>
  BY <1>1, CanceledSays DEF Ended
<1>3. /\ dropped' \in BOOLEAN /\ (dropped => dropped')
      /\ natural /\ to = NoRow /\ pending => dropped'
  BY <1>1, <1>2
<1> HIDE DEF to
<1>4. CASE ~(~natural /\ join.hold) /\ to # NoRow
  <2>1. PlayIndex(to, FALSE, FALSE, j) /\ to \in Row
    BY <1>1, <1>2, <1>4 DEF to
  <2> HIDE DEF j
  <2>2. j \in {join, Rest}
    BY DEF j
  <2> QED BY <1>1, <1>3, <2>1, <2>2, AskedInv
<1>5. CASE (~natural /\ join.hold) \/ to = NoRow
  <2>1. /\ htm' = [htm EXCEPT !.playing = FALSE]
        /\ UNCHANGED <<session, index, source, wantPaused, load, active, url>>
        /\ \/ pending' = TRUE /\ join' = Failed(join)
           \/ pending' = pending /\ join' = join
           \/ pending' = pending /\ join' = Rest /\ (pending => dropped')
    BY <1>2, <1>3, <1>5
  <2>2. /\ htm' \in HtmRecord /\ htm'.row = htm.row /\ htm'.local = htm.local
        /\ htm'.told = htm.told /\ ~htm'.playing
    BY <1>1, <2>1 DEF HtmRecord
  <2> QED BY <1>3, <2>1, <2>2, NudgedInv DEF world
<1> QED BY <1>4, <1>5

LEMMA HtmlInterruptedInv ==
    ASSUME IInv, HtmlInterrupted
    PROVE  IInv'
PROOF
<1>1. /\ TypeOK /\ LoadControl /\ CurrentControl /\ SinkControl
      /\ CompanionControl /\ WaitingHasCause /\ PauseControl
  BY DEF IInv
<1>2. load' = load
  BY DEF HtmlInterrupted, Event, world
<1>3. (InFlight' <=> InFlight) /\ (Current' <=> Current) /\ (Replacing' <=> Replacing)
      /\ (Resolving' <=> Resolving)
  BY <1>2, SameLoads
<1>4. /\ htm \in HtmRecord /\ comp \in CompRecord /\ dev \in DevRecord
      /\ chan \in Seq(ChanEvent) /\ join \in JoinRecord /\ htm.told \in BOOLEAN /\ htm.playing \in BOOLEAN
      /\ active \in {"html", "companion"} /\ wantPaused \in BOOLEAN
  BY <1>1 DEF TypeOK, HtmRecord, Sink
<1>5. /\ htm' \in HtmRecord /\ htm'.row = htm.row /\ htm'.local = htm.local
      /\ ~htm'.playing /\ ~htm'.told
  BY <1>4, HtmlPausedSays DEF HtmlInterrupted
<1>6. TypeOK'
  BY <1>1, <1>2, <1>3, <1>4, <1>5, EventSays DEF TypeOK, HtmlInterrupted, Event, world, sinks,
     ghosts, NoRow
<1>7. LoadControl'
  BY <1>1, <1>2, <1>3, <1>4, <1>5, EventSays DEF LoadControl, HtmlInterrupted, Event
<1>8. CurrentControl'
  BY <1>1, <1>2, <1>3, <1>4, <1>5, EventSays DEF CurrentControl, Heard, SinkControl,
     HtmlInterrupted, Event, world, sinks, ghosts, NoRow
<1>9. SinkControl'
  BY <1>1, <1>2, <1>3, <1>4, <1>5, EventSays DEF SinkControl, CurrentControl, Heard, Current,
     Idle, HtmlInterrupted, Event, world, sinks, ghosts, NoRow
<1>10. CompanionControl'
  BY <1>1, <1>2, <1>3, <1>4, <1>5, EventSays DEF CompanionControl, SinkControl, LoadControl,
     CurrentControl, CompanionControl, Heard, Current, Idle, HtmlInterrupted, Event, world,
     sinks, ghosts, NoRow
<1>11. WaitingHasCause'
  BY <1>1, <1>2, <1>3, <1>4, <1>5, EventSays DEF WaitingHasCause, LoadControl, CompanionControl,
     Current, Idle, HtmlInterrupted, Event, world, sinks, ghosts, NoRow
<1>12. PauseControl'
  BY <1>1, <1>2, <1>3, <1>4, <1>5, EventSays DEF PauseControl, TellsPause, SinkControl,
     HtmlInterrupted, Event, world, sinks, ghosts, NoRow
<1> QED BY <1>6, <1>7, <1>8, <1>9, <1>10, <1>11, <1>12 DEF IInv

LEMMA HtmlErrorInv ==
    ASSUME IInv, HtmlError
    PROVE  IInv'
PROOF
<1>1. /\ TypeOK /\ SinkControl /\ htm \in HtmRecord
      /\ comp \in CompRecord /\ chan \in Seq(ChanEvent) /\ dropped \in BOOLEAN /\ raced \in BOOLEAN
  BY DEF IInv, TypeOK
<1>2. /\ events' \in 0..MaxEvents
      /\ nudged' \in BOOLEAN /\ (nudged => nudged') /\ (wish = "pause" => nudged')
      /\ session = "queue"
      /\ UNCHANGED <<world, wish, dropped, raced>>
  BY <1>1, EventSays, NudgeSays DEF HtmlError, SinkControl
<1>3. CASE \E l \in Loads : /\ load[l].pc = "wait" /\ load[l].cur /\ load[l].sink = "html"
                            /\ Fails(l, FALSE, TRUE, Failed(join))
  BY <1>2, <1>3, FailsInv
<1>4. CASE /\ htm' = [htm EXCEPT !.playing = FALSE]
           /\ pending' = TRUE /\ join' = Failed(join)
           /\ UNCHANGED <<session, index, source, wantPaused, load, active, url, comp, dev, chan,
                   local>>
  <2>1. /\ htm' \in HtmRecord /\ htm'.row = htm.row /\ htm'.local = htm.local
        /\ htm'.told = htm.told /\ ~htm'.playing
    BY <1>1, <1>4 DEF HtmRecord
  <2> QED BY <1>1, <1>2, <1>4, <2>1, NudgedInv DEF world
<1> QED BY <1>3, <1>4 DEF HtmlError

LEMMA HtmlEndedInv ==
    ASSUME IInv, HtmlEnded
    PROVE  IInv'
PROOF
<1>1. /\ TypeOK /\ comp \in CompRecord /\ chan \in Seq(ChanEvent) /\ raced \in BOOLEAN
  BY DEF IInv, TypeOK
<1>2. /\ events' \in 0..MaxEvents
      /\ nudged' \in BOOLEAN /\ (wish = "pause" => nudged')
      /\ UNCHANGED <<comp, dev, chan, world, local, wish, raced>>
  BY <1>1, EventSays, NudgeSays DEF HtmlEnded
<1>3. session = "queue"
  BY DEF IInv, SinkControl, HtmlEnded
<1>4. PICK natural \in BOOLEAN : Ended(natural)
  BY DEF HtmlEnded
<1> QED BY <1>1, <1>2, <1>3, <1>4, EndedInv

LEMMA DevOpensInv ==
    ASSUME IInv, DevOpens
    PROVE  IInv'
PROOF
<1>1. /\ TypeOK /\ LoadControl /\ CurrentControl /\ SinkControl
      /\ CompanionControl /\ WaitingHasCause /\ PauseControl
  BY DEF IInv
<1>2. load' = load
  BY DEF DevOpens, world
<1>3. (InFlight' <=> InFlight) /\ (Current' <=> Current) /\ (Replacing' <=> Replacing)
      /\ (Resolving' <=> Resolving)
  BY <1>2, SameLoads
<1>4. /\ htm \in HtmRecord /\ comp \in CompRecord /\ dev \in DevRecord
      /\ chan \in Seq(ChanEvent) /\ join \in JoinRecord /\ htm.told \in BOOLEAN /\ htm.playing \in BOOLEAN
      /\ active \in {"html", "companion"} /\ wantPaused \in BOOLEAN
  BY <1>1 DEF TypeOK, HtmRecord, Sink
<1>5. /\ dev' \in DevRecord /\ dev'.row = dev.row /\ dev'.on = dev.on
  BY <1>4 DEF DevOpens, DevRecord
<1>6. TypeOK'
  BY <1>1, <1>2, <1>3, <1>4, <1>5, TellSays DEF TypeOK, DevOpens, world, sinks, ghosts, NoRow
<1>7. LoadControl'
  BY <1>1, <1>2, <1>3 DEF LoadControl, DevOpens, world
<1>8. CurrentControl'
  BY <1>1, <1>2 DEF CurrentControl, Heard, SinkControl, DevOpens, world, sinks, ghosts, NoRow
<1>9. SinkControl'
  BY <1>1, <1>2, <1>3, <1>4, <1>5, TellSays DEF SinkControl, CurrentControl, Heard, Current,
     Idle, DevOpens, world, sinks, ghosts, NoRow
<1>10. CompanionControl'
  BY <1>1, <1>2, <1>3, <1>4, <1>5, TellSays DEF CompanionControl, SinkControl, LoadControl,
     CurrentControl, CompanionControl, Heard, Current, Idle, DevOpens, world, sinks, ghosts,
     NoRow
<1>11. WaitingHasCause'
  BY <1>1, <1>2, <1>3, <1>4, <1>5, TellSays DEF WaitingHasCause, LoadControl, CompanionControl,
     Current, Idle, DevOpens, world, sinks, ghosts, NoRow
<1>12. PauseControl'
  BY <1>1, <1>2, <1>3, <1>4, <1>5, TellSays DEF PauseControl, TellsPause, SinkControl,
     LoadControl, DevOpens, world, sinks, ghosts, NoRow
<1> QED BY <1>6, <1>7, <1>8, <1>9, <1>10, <1>11, <1>12 DEF IInv

LEMMA DevEndsInv ==
    ASSUME IInv, NEW kind \in {"eof", "error"}, DevEnds(kind)
    PROVE  IInv'
PROOF
<1>1. /\ TypeOK /\ LoadControl /\ CurrentControl /\ SinkControl
      /\ CompanionControl /\ WaitingHasCause /\ PauseControl
  BY DEF IInv
<1>2. load' = load
  BY DEF DevEnds, Event, world
<1>3. (InFlight' <=> InFlight) /\ (Current' <=> Current) /\ (Replacing' <=> Replacing)
      /\ (Resolving' <=> Resolving)
  BY <1>2, SameLoads
<1>4. /\ htm \in HtmRecord /\ comp \in CompRecord /\ dev \in DevRecord
      /\ chan \in Seq(ChanEvent) /\ join \in JoinRecord /\ htm.told \in BOOLEAN /\ htm.playing \in BOOLEAN
      /\ active \in {"html", "companion"} /\ wantPaused \in BOOLEAN
  BY <1>1 DEF TypeOK, HtmRecord, Sink
<1>5. TypeOK'
  BY <1>1, <1>2, <1>3, <1>4, TellSays, SilentSays, EventSays DEF TypeOK, DevEnds, Event, world,
     sinks, ghosts, NoRow
<1>6. LoadControl'
  BY <1>1, <1>2, <1>3, <1>4, TellSays, SilentSays, EventSays DEF LoadControl, DevEnds, Event
<1>7. CurrentControl'
  BY <1>1, <1>2, <1>3, <1>4, TellSays, SilentSays, EventSays DEF CurrentControl, Heard,
     SinkControl, DevEnds, Event, world, sinks, ghosts, NoRow
<1>8. SinkControl'
  BY <1>1, <1>2, <1>3, <1>4, TellSays, SilentSays, EventSays DEF SinkControl, CurrentControl,
     Heard, Current, Idle, DevEnds, Event, world, sinks, ghosts, NoRow
<1>9. CompanionControl'
  BY <1>1, <1>2, <1>3, <1>4, TellSays, SilentSays, EventSays DEF CompanionControl, SinkControl,
     LoadControl, CurrentControl, CompanionControl, Heard, Current, Idle, DevEnds, Event, world,
     sinks, ghosts, NoRow
<1>10. WaitingHasCause'
  BY <1>1, <1>2, <1>3, <1>4, TellSays, SilentSays, EventSays DEF WaitingHasCause, LoadControl,
     CompanionControl, Current, Idle, DevEnds, Event, world, sinks, ghosts, NoRow
<1>11. PauseControl'
  BY <1>1, <1>2, <1>3, <1>4, TellSays, SilentSays, EventSays DEF PauseControl, TellsPause,
     SinkControl, DevEnds, Event, world, sinks, ghosts, NoRow
<1> QED BY <1>5, <1>6, <1>7, <1>8, <1>9, <1>10, <1>11 DEF IInv

LEMMA DeliveredPauseInv ==
    ASSUME IInv, chan # << >>, chan' = Tail(chan), Paused, comp.has,
           comp' = [comp EXCEPT !.paused = TRUE],
           UNCHANGED <<session, index, source, wantPaused, load, active, url, htm, nudged, raced,
                   dev, world, local, events, wish>>
    PROVE  IInv'
PROOF
<1>1. /\ TypeOK /\ LoadControl /\ CurrentControl /\ SinkControl
      /\ CompanionControl /\ WaitingHasCause /\ PauseControl
  BY DEF IInv
<1>2. load' = load
  BY DEF world, NoRow
<1>3. (InFlight' <=> InFlight) /\ (Current' <=> Current) /\ (Replacing' <=> Replacing)
      /\ (Resolving' <=> Resolving)
  BY <1>2, SameLoads
<1>4. /\ htm \in HtmRecord /\ comp \in CompRecord /\ dev \in DevRecord
      /\ chan \in Seq(ChanEvent) /\ join \in JoinRecord /\ htm.told \in BOOLEAN /\ htm.playing \in BOOLEAN
      /\ active \in {"html", "companion"} /\ wantPaused \in BOOLEAN
  BY <1>1 DEF TypeOK, HtmRecord, Sink
<1>5. /\ Failed(join) \in JoinRecord
      /\ ~Failed(join).hold /\ Failed(join).active /\ Failed(join).mark = join.mark
      /\ Failed(join).timer <=> join.timer \/ ~InFlight
      /\ Failed(join).after <=> join.after \/ (InFlight /\ ~join.timer)
  BY <1>4, FailedSays
<1>6. /\ comp' \in CompRecord /\ comp'.has /\ comp'.paused
      /\ chan' \in Seq(ChanEvent)
  BY <1>4, TailSays DEF CompRecord
<1>7. /\ join' \in JoinRecord /\ pending' \in BOOLEAN /\ dropped' \in BOOLEAN
      /\ pending' <=> pending \/ (join.hold /\ ~join.mark)
      /\ dropped' <=> dropped \/ (join.mark /\ pending)
      /\ \/ join.mark /\ join' = Rest
         \/ ~join.mark /\ join.hold /\ join' = Failed(join)
         \/ ~join.mark /\ ~join.hold /\ join' = join
  BY <1>1, PausedSays
<1>8. TypeOK'
  BY <1>1, <1>2, <1>6, <1>7, RestSays DEF TypeOK, world, NoRow
<1>9. LoadControl'
  BY <1>1, <1>2, <1>3, <1>4, <1>5, <1>6, <1>7, RestSays DEF LoadControl, world, NoRow
<1>10. CurrentControl'
  BY <1>1, <1>6, <1>7, RestSays DEF CurrentControl, Heard, SinkControl, world, NoRow
<1>11. SinkControl'
  BY <1>1, <1>2, <1>3, RestSays DEF SinkControl, CurrentControl, Heard, Current, Idle, world,
     NoRow
<1>12. CompanionControl'
  BY <1>1, <1>2, <1>3, <1>4, <1>5, <1>6, <1>7, RestSays DEF CompanionControl, SinkControl,
     LoadControl, CurrentControl, CompanionControl, Heard, Current, Idle, world, NoRow
<1>13. WaitingHasCause'
  BY <1>1, <1>2, <1>3, <1>4, <1>5, <1>6, <1>7, RestSays DEF WaitingHasCause, LoadControl,
     CompanionControl
<1>14. PauseControl'
  BY <1>1, <1>2, <1>3, <1>4, <1>5, <1>6, <1>7, RestSays DEF PauseControl
<1> QED BY <1>8, <1>9, <1>10, <1>11, <1>12, <1>13, <1>14 DEF IInv

LEMMA DeliveredInVainInv ==
    ASSUME IInv, chan # << >>, chan' = Tail(chan), comp.has => Head(chan).kind # "pause",
           comp' \in CompRecord, comp'.has = comp.has, comp.paused => comp'.paused,
           ~comp.has => comp' = comp,
           UNCHANGED <<session, index, source, pending, wantPaused, join, load, active, url, htm,
                   nudged, dropped, dev, world, local, events, wish>>,
           raced' \in BOOLEAN, raced => raced'
           
    PROVE  IInv'
PROOF
<1>1. /\ TypeOK /\ LoadControl /\ CurrentControl /\ SinkControl
      /\ CompanionControl /\ WaitingHasCause /\ PauseControl
  BY DEF IInv
<1>2. load' = load
  BY DEF world, NoRow
<1>3. (InFlight' <=> InFlight) /\ (Current' <=> Current) /\ (Replacing' <=> Replacing)
      /\ (Resolving' <=> Resolving)
  BY <1>2, SameLoads
<1>4. /\ htm \in HtmRecord /\ comp \in CompRecord /\ dev \in DevRecord
      /\ chan \in Seq(ChanEvent) /\ join \in JoinRecord /\ htm.told \in BOOLEAN /\ htm.playing \in BOOLEAN
      /\ active \in {"html", "companion"} /\ wantPaused \in BOOLEAN
  BY <1>1 DEF TypeOK, HtmRecord, Sink
<1>5. TypeOK'
  BY <1>1, <1>2, <1>3 DEF TypeOK, world, NoRow
<1>6. LoadControl'
  BY <1>1, <1>2, <1>3 DEF LoadControl, world, NoRow
<1>7. CurrentControl'
  BY <1>1, <1>2, SilentSays DEF CurrentControl, Heard, SinkControl, world, NoRow
<1>8. SinkControl'
  BY <1>1, <1>2, <1>3, <1>4, TailSays, SilentSays DEF SinkControl, CurrentControl, Heard,
     Current, Idle, world, NoRow
<1>9. CompanionControl'
  BY <1>1, <1>2, <1>3, <1>4, TailSays, SilentSays DEF CompanionControl, SinkControl,
     LoadControl, CurrentControl, CompanionControl, Heard
<1>10. WaitingHasCause'
  BY <1>1, <1>2, <1>3, <1>4, TailSays, SilentSays DEF WaitingHasCause, LoadControl,
     CompanionControl
<1>11. PauseControl'
  BY <1>1, <1>2, <1>3, <1>4, TailSays, SilentSays DEF PauseControl, TellsPause, SinkControl,
     LoadControl, CurrentControl, CompanionControl
<1> QED BY <1>5, <1>6, <1>7, <1>8, <1>9, <1>10, <1>11 DEF IInv

LEMMA DeliveredInv ==
    ASSUME IInv, Delivered
    PROVE  IInv'
PROOF
<1> DEFINE e == Head(chan)
           heard == comp.has /\ (e.kind \in {"eof", "error"} => source # "none")
<1>1. /\ TypeOK /\ htm \in HtmRecord /\ comp \in CompRecord /\ chan \in Seq(ChanEvent)
      /\ raced \in BOOLEAN /\ dropped \in BOOLEAN /\ events \in 0..MaxEvents
      /\ CompanionControl
  BY DEF IInv, TypeOK
<1>2. /\ chan # << >> /\ chan' = Tail(chan)
      /\ UNCHANGED <<dev, world, local, events, wish>>
  BY DEF Delivered
<1>3. /\ chan' \in Seq(ChanEvent) /\ e \in ChanEvent
      /\ e.kind \in {"time", "pause", "eof", "error"} /\ e.old \in BOOLEAN
  BY <1>1, <1>2, TailSays DEF ChanEvent
<1>4. /\ comp' \in CompRecord /\ comp'.has = comp.has /\ (comp.paused => comp'.paused)
      /\ ~comp.has => comp' = comp
  <2>1. comp' = IF ~comp.has \/ e.kind = "error" THEN comp
                ELSE IF e.kind = "time" THEN [comp EXCEPT !.known = TRUE]
                ELSE [comp EXCEPT !.paused = TRUE]
    BY DEF Delivered
  <2> HIDE DEF e
  <2>2. \/ comp' = comp
        \/ comp' = [comp EXCEPT !.known = TRUE] /\ comp.has
        \/ comp' = [comp EXCEPT !.paused = TRUE] /\ comp.has
    BY <2>1
  <2> QED BY <1>1, <2>2 DEF CompRecord
<1>5. raced' \in BOOLEAN /\ (raced => raced')
  BY <1>1, <1>3 DEF Delivered
<1>6. heard => raced \/ session = "queue"
  BY <1>1, SilentSays DEF CompanionControl
<1>7. CASE heard /\ e.kind = "pause"
  <2>1. /\ Paused /\ comp' = [comp EXCEPT !.paused = TRUE]
        /\ UNCHANGED <<session, index, source, wantPaused, load, active, url, htm, nudged>>
    BY <1>7 DEF Delivered
  <2>2. raced' = raced
    BY <1>1, <1>7 DEF Delivered
  <2> QED BY <1>2, <1>7, <2>1, <2>2, DeliveredPauseInv
<1>8. CASE heard /\ e.kind = "eof"
  <2>1. PICK natural \in BOOLEAN : Ended(natural)
    BY <1>8 DEF Delivered
  <2>2. nudged' \in BOOLEAN /\ (wish = "pause" => nudged')
    BY <1>1, <1>8, NudgeSays DEF Delivered
  <2> QED BY <1>1, <1>2, <1>3, <1>4, <1>5, <1>6, <1>8, <2>1, <2>2, EndedInv
<1>9. CASE heard /\ e.kind = "error"
  <2>1. SoftError /\ dropped' = dropped /\ Nudge
    BY <1>9 DEF Delivered
  <2>2. nudged' \in BOOLEAN /\ (wish = "pause" => nudged')
    BY <1>1, <2>1, NudgeSays
  <2> QED BY <1>1, <1>2, <1>3, <1>4, <1>5, <1>6, <1>9, <2>1, <2>2, NudgedInv DEF SoftError,
             world
<1>10. CASE ~(heard /\ e.kind \in {"pause", "eof", "error"})
  <2>1. UNCHANGED <<session, index, source, pending, wantPaused, join, load, active, url, htm,
                    nudged, dropped>>
    BY <1>10 DEF Delivered
  <2>2. comp.has => e.kind # "pause"
    BY <1>10
  <2> QED BY <1>1, <1>2, <1>4, <1>5, <2>1, <2>2, DeliveredInVainInv
<1> QED BY <1>7, <1>8, <1>9, <1>10

LEMMA CompBlockedInv ==
    ASSUME IInv, CompBlocked
    PROVE  IInv'
PROOF
<1>1. /\ TypeOK /\ LoadControl /\ CurrentControl /\ SinkControl
      /\ CompanionControl /\ WaitingHasCause /\ PauseControl
  BY DEF IInv
<1>2. load' = load
  BY DEF CompBlocked, world
<1>3. (InFlight' <=> InFlight) /\ (Current' <=> Current) /\ (Replacing' <=> Replacing)
      /\ (Resolving' <=> Resolving)
  BY <1>2, SameLoads
<1>4. /\ htm \in HtmRecord /\ comp \in CompRecord /\ dev \in DevRecord
      /\ chan \in Seq(ChanEvent) /\ join \in JoinRecord /\ htm.told \in BOOLEAN /\ htm.playing \in BOOLEAN
      /\ active \in {"html", "companion"} /\ wantPaused \in BOOLEAN
  BY <1>1 DEF TypeOK, HtmRecord, Sink
<1>5. /\ events' \in 0..MaxEvents /\ join' = Rest /\ raced' \in BOOLEAN
      /\ ~raced' => ~raced /\ \A l \in Loads : ~load[l].cur
  BY <1>1, <1>4, EventSays, CanceledSays DEF CompBlocked
<1>6. TypeOK'
  <2>1. /\ session' = session /\ index' = index /\ wantPaused' = wantPaused
        /\ active' = active /\ url' = url /\ htm' = htm /\ chan' = chan /\ local' = local
        /\ wish' = wish /\ nudged' = nudged /\ dropped' = dropped
        /\ device' = device /\ exclusive' = exclusive /\ online' = online
    BY DEF CompBlocked, world
  <2>2. /\ pending' \in BOOLEAN /\ join' \in JoinRecord /\ raced' \in BOOLEAN
        /\ source' \in {"none", "streaming", "downloaded", "unavailable"}
        /\ comp' \in CompRecord /\ dev' \in DevRecord /\ events' \in 0..MaxEvents
    BY <1>5, RestSays, SilentSays DEF CompBlocked
  <2> QED BY <1>1, <1>2, <2>1, <2>2 DEF TypeOK
<1>7. LoadControl'
  <2>1. session' = session /\ index' = index /\ ~join'.timer
    BY <1>5, RestSays DEF CompBlocked
  <2> QED BY <1>1, <1>2, <2>1, StayingLoads DEF LoadControl
<1>8. CurrentControl'
  BY <1>1, <1>2, <1>3 DEF CurrentControl, Heard, SinkControl, CompBlocked, world, sinks, ghosts,
     NoRow
<1>9. SinkControl'
  BY <1>1, <1>2, <1>3, <1>4, <1>5, RestSays, SilentSays DEF SinkControl, CurrentControl, Heard,
     Current, Idle, CompBlocked, world, sinks, ghosts, NoRow
<1>10. CompanionControl'
  BY <1>1, <1>2, <1>3, <1>4, <1>5, RestSays, SilentSays DEF CompanionControl, SinkControl,
     LoadControl, CurrentControl, CompanionControl, Heard, Current, Idle, CompBlocked, world,
     sinks, ghosts, NoRow
<1>11. WaitingHasCause'
  BY <1>1, <1>2 DEF WaitingHasCause, LoadControl, CompanionControl, Current, Idle, CompBlocked,
     world, sinks, ghosts, NoRow
<1>12. PauseControl'
  BY <1>1, <1>2, <1>3, <1>4, <1>5, RestSays, SilentSays DEF PauseControl, TellsPause,
     SinkControl, LoadControl, CurrentControl, CompanionControl, Heard, Current, Idle,
     CompBlocked, world, sinks, ghosts, NoRow
<1> QED BY <1>6, <1>7, <1>8, <1>9, <1>10, <1>11, <1>12 DEF IInv

LEMMA LinkDropsNInv ==
    ASSUME IInv, LinkDrops, ~(comp.has /\ source # "none")
    PROVE  IInv'
PROOF
<1>1. /\ TypeOK /\ LoadControl /\ CurrentControl /\ SinkControl
      /\ CompanionControl /\ WaitingHasCause /\ PauseControl
  BY DEF IInv
<1>2. load' = load
  BY DEF LinkDrops, world
<1>3. (InFlight' <=> InFlight) /\ (Current' <=> Current) /\ (Replacing' <=> Replacing)
      /\ (Resolving' <=> Resolving)
  BY <1>2, SameLoads
<1>4. /\ htm \in HtmRecord /\ comp \in CompRecord /\ dev \in DevRecord
      /\ chan \in Seq(ChanEvent) /\ join \in JoinRecord /\ htm.told \in BOOLEAN /\ htm.playing \in BOOLEAN
      /\ active \in {"html", "companion"} /\ wantPaused \in BOOLEAN
  BY <1>1 DEF TypeOK, HtmRecord, Sink
<1>5. << >> \in Seq(ChanEvent)
  OBVIOUS
<1>6. events' \in 0..MaxEvents
      /\ UNCHANGED <<session, index, source, pending, wantPaused, join, load, active, url, htm,
              nudged>>
  BY <1>1, EventSays DEF LinkDrops, TypeOK
<1>7. TypeOK'
  BY <1>1, <1>6, SilentSays DEF TypeOK, LinkDrops
<1>8. LoadControl'
  BY <1>1, <1>2, <1>3, <1>4, <1>5, <1>6, SilentSays DEF LoadControl, LinkDrops
<1>9. CurrentControl'
  BY <1>1, <1>2, <1>3 DEF CurrentControl, Heard, SinkControl, LinkDrops
<1>10. SinkControl'
  BY <1>1, <1>2, <1>3, <1>4, <1>5, <1>6, SilentSays DEF SinkControl, CurrentControl, Heard,
     Current, Idle, LinkDrops, world, sinks, ghosts, NoRow
<1>11. CompanionControl'
  BY <1>1, <1>2, <1>3, <1>4, <1>5, <1>6, SilentSays DEF CompanionControl, SinkControl,
     LoadControl, CurrentControl, CompanionControl, Heard, Current, Idle, LinkDrops, world,
     sinks, ghosts, NoRow
<1>12. WaitingHasCause'
  BY <1>1, <1>2, <1>3, <1>4, <1>5, <1>6, SilentSays DEF WaitingHasCause, LoadControl,
     CompanionControl, Current, Idle, LinkDrops, world, sinks, ghosts, NoRow
<1>13. PauseControl'
  BY <1>1, <1>2, <1>3, <1>4, <1>5, <1>6, SilentSays DEF PauseControl, TellsPause, SinkControl,
     LoadControl, CurrentControl, CompanionControl, Heard, Current, Idle, LinkDrops, world,
     sinks, ghosts, NoRow
<1> QED BY <1>7, <1>8, <1>9, <1>10, <1>11, <1>12, <1>13 DEF IInv

LEMMA LinkDropsInv ==
    ASSUME IInv, LinkDrops
    PROVE  IInv'
PROOF
<1>1. /\ TypeOK /\ CompanionControl /\ htm \in HtmRecord /\ comp \in CompRecord
      /\ raced \in BOOLEAN /\ dropped \in BOOLEAN
  BY DEF IInv, TypeOK
<1>2. CASE comp.has /\ source # "none"
  <2>1. /\ events' \in 0..MaxEvents
        /\ nudged' \in BOOLEAN /\ (wish = "pause" => nudged')
        /\ raced \/ session = "queue"
    BY <1>1, <1>2, EventSays, NudgeSays DEF LinkDrops, CompanionControl
  <2>2. << >> \in Seq(ChanEvent) /\ NoDev.row = NoRow
    BY SilentSays
  <2> QED BY <1>1, <1>2, <2>1, <2>2, NudgedInv DEF LinkDrops, SoftError
<1>3. CASE ~(comp.has /\ source # "none")
  BY <1>3, LinkDropsNInv
<1> QED BY <1>2, <1>3

LEMMA DeviceLostInv ==
    ASSUME IInv, DeviceLost
    PROVE  IInv'
PROOF
<1>1. /\ TypeOK /\ LoadControl /\ CurrentControl /\ SinkControl
      /\ CompanionControl /\ WaitingHasCause /\ PauseControl
  BY DEF IInv
<1>2. load' = load
  BY DEF DeviceLost, Event, world
<1>3. (InFlight' <=> InFlight) /\ (Current' <=> Current) /\ (Replacing' <=> Replacing)
      /\ (Resolving' <=> Resolving)
  BY <1>2, SameLoads
<1>4. /\ htm \in HtmRecord /\ comp \in CompRecord /\ dev \in DevRecord
      /\ chan \in Seq(ChanEvent) /\ join \in JoinRecord /\ htm.told \in BOOLEAN /\ htm.playing \in BOOLEAN
      /\ active \in {"html", "companion"} /\ wantPaused \in BOOLEAN
  BY <1>1 DEF TypeOK, HtmRecord, Sink
<1>5. TypeOK'
  BY <1>1, <1>2, <1>3, <1>4, SilentSays, EventSays DEF TypeOK, DeviceLost, Event, world, sinks,
     ghosts, NoRow
<1>6. LoadControl'
  BY <1>1, <1>2, <1>3, <1>4, SilentSays, EventSays DEF LoadControl, DeviceLost, Event
<1>7. CurrentControl'
  BY <1>1, <1>2, <1>3, <1>4, SilentSays, EventSays DEF CurrentControl, Heard, SinkControl,
     DeviceLost, Event, world, sinks, ghosts, NoRow
<1>8. SinkControl'
  BY <1>1, <1>2, <1>3, <1>4, SilentSays, EventSays DEF SinkControl, CurrentControl, Heard,
     Current, Idle, DeviceLost
<1>9. CompanionControl'
  BY <1>1, <1>2, <1>3, <1>4, SilentSays, EventSays DEF CompanionControl, SinkControl,
     LoadControl, CurrentControl, CompanionControl, Heard, Current, Idle, DeviceLost, Event,
     world, sinks, ghosts, NoRow
<1>10. WaitingHasCause'
  BY <1>1, <1>2, <1>3, <1>4, SilentSays, EventSays DEF WaitingHasCause, LoadControl,
     CompanionControl, Current, Idle, DeviceLost, Event, world, sinks, ghosts, NoRow
<1>11. PauseControl'
  BY <1>1, <1>2, <1>3, <1>4, SilentSays, EventSays DEF PauseControl, TellsPause, SinkControl,
     DeviceLost, Event, world, sinks, ghosts, NoRow
<1> QED BY <1>5, <1>6, <1>7, <1>8, <1>9, <1>10, <1>11 DEF IInv

LEMMA DeviceComesInv ==
    ASSUME IInv, DeviceComes
    PROVE  IInv'
PROOF
<1>1. /\ TypeOK /\ LoadControl /\ CurrentControl /\ SinkControl
      /\ CompanionControl /\ WaitingHasCause /\ PauseControl
  BY DEF IInv
<1>2. load' = load
  BY DEF DeviceComes, world
<1>3. (InFlight' <=> InFlight) /\ (Current' <=> Current) /\ (Replacing' <=> Replacing)
      /\ (Resolving' <=> Resolving)
  BY <1>2, SameLoads
<1>4. /\ htm \in HtmRecord /\ comp \in CompRecord /\ dev \in DevRecord
      /\ chan \in Seq(ChanEvent) /\ join \in JoinRecord /\ htm.told \in BOOLEAN /\ htm.playing \in BOOLEAN
      /\ active \in {"html", "companion"} /\ wantPaused \in BOOLEAN
  BY <1>1 DEF TypeOK, HtmRecord, Sink
<1>5. TypeOK'
  BY <1>1 DEF TypeOK, DeviceComes, world, sinks, ghosts, NoRow
<1>6. LoadControl'
  BY <1>1, <1>2, <1>3, <1>4 DEF LoadControl, DeviceComes, world
<1>7. CurrentControl'
  BY <1>1, <1>2, <1>3, <1>4 DEF CurrentControl, Heard, SinkControl, DeviceComes, world, sinks,
     ghosts, NoRow
<1>8. SinkControl'
  BY <1>1, <1>2, <1>3, <1>4 DEF SinkControl, CurrentControl, Heard, Current, Idle, DeviceComes,
     world, sinks, ghosts, NoRow
<1>9. CompanionControl'
  BY <1>1, <1>2, <1>3, <1>4 DEF CompanionControl, SinkControl, LoadControl, CurrentControl,
     CompanionControl, Heard, Current, Idle, DeviceComes, world, sinks, ghosts, NoRow
<1>10. WaitingHasCause'
  BY <1>1, <1>2, <1>3, <1>4 DEF WaitingHasCause, LoadControl, CompanionControl, Current, Idle,
     DeviceComes, world, sinks, ghosts, NoRow
<1>11. PauseControl'
  BY <1>1, <1>2, <1>3, <1>4 DEF PauseControl, TellsPause, SinkControl, LoadControl, DeviceComes,
     world, sinks, ghosts, NoRow
<1> QED BY <1>5, <1>6, <1>7, <1>8, <1>9, <1>10, <1>11 DEF IInv

LEMMA ServerLostInv ==
    ASSUME IInv, ServerLost
    PROVE  IInv'
PROOF
<1>1. /\ TypeOK /\ LoadControl /\ CurrentControl /\ SinkControl
      /\ CompanionControl /\ WaitingHasCause /\ PauseControl
  BY DEF IInv
<1>2. load' = load
  BY DEF ServerLost, Event, world
<1>3. (InFlight' <=> InFlight) /\ (Current' <=> Current) /\ (Replacing' <=> Replacing)
      /\ (Resolving' <=> Resolving)
  BY <1>2, SameLoads
<1>4. /\ htm \in HtmRecord /\ comp \in CompRecord /\ dev \in DevRecord
      /\ chan \in Seq(ChanEvent) /\ join \in JoinRecord /\ htm.told \in BOOLEAN /\ htm.playing \in BOOLEAN
      /\ active \in {"html", "companion"} /\ wantPaused \in BOOLEAN
  BY <1>1 DEF TypeOK, HtmRecord, Sink
<1>5. online' \in BOOLEAN /\ events' \in 0..MaxEvents
  BY <1>1, EventSays DEF ServerLost
<1>6. TypeOK'
  BY <1>1, <1>2, <1>3, <1>4, <1>5 DEF TypeOK, ServerLost, Event, world, sinks, ghosts, NoRow
<1>7. LoadControl'
  BY <1>1, <1>2, <1>3, <1>4, <1>5 DEF LoadControl, ServerLost, Event, world
<1>8. CurrentControl'
  BY <1>1, <1>2, <1>3, <1>4, <1>5 DEF CurrentControl, Heard, SinkControl, ServerLost, Event,
     world, sinks, ghosts, NoRow
<1>9. SinkControl'
  BY <1>1, <1>2, <1>3, <1>4, <1>5 DEF SinkControl, CurrentControl, Heard, Current, Idle,
     ServerLost, Event, world, sinks, ghosts, NoRow
<1>10. CompanionControl'
  BY <1>1, <1>2, <1>3, <1>4, <1>5 DEF CompanionControl, SinkControl, LoadControl,
     CurrentControl, CompanionControl, Heard, Current, Idle, ServerLost, Event, world, sinks,
     ghosts, NoRow
<1>11. WaitingHasCause'
  BY <1>1, <1>2, <1>3, <1>4, <1>5 DEF WaitingHasCause, LoadControl, CompanionControl, Current,
     Idle, ServerLost, Event, world, sinks, ghosts, NoRow
<1>12. PauseControl'
  BY <1>1, <1>2, <1>3, <1>4, <1>5 DEF PauseControl, TellsPause, SinkControl, LoadControl,
     CurrentControl, CompanionControl, Heard, Current, Idle, ServerLost, Event, world, sinks,
     ghosts, NoRow
<1> QED BY <1>6, <1>7, <1>8, <1>9, <1>10, <1>11, <1>12 DEF IInv

LEMMA ServerBackInv ==
    ASSUME IInv, ServerBack
    PROVE  IInv'
PROOF
<1>1. /\ TypeOK /\ LoadControl /\ CurrentControl /\ SinkControl
      /\ CompanionControl /\ WaitingHasCause /\ PauseControl
  BY DEF IInv
<1>2. load' = load
  BY DEF ServerBack, world
<1>3. (InFlight' <=> InFlight) /\ (Current' <=> Current) /\ (Replacing' <=> Replacing)
      /\ (Resolving' <=> Resolving)
  BY <1>2, SameLoads
<1>4. /\ htm \in HtmRecord /\ comp \in CompRecord /\ dev \in DevRecord
      /\ chan \in Seq(ChanEvent) /\ join \in JoinRecord /\ htm.told \in BOOLEAN /\ htm.playing \in BOOLEAN
      /\ active \in {"html", "companion"} /\ wantPaused \in BOOLEAN
  BY <1>1 DEF TypeOK, HtmRecord, Sink
<1>5. /\ Kicked(join) \in JoinRecord
      /\ Kicked(join).hold = join.hold /\ Kicked(join).active /\ Kicked(join).mark = join.mark
      /\ ~Kicked(join).after
      /\ Kicked(join).timer <=> ~InFlight
  BY <1>4, KickedSays
<1>6. \/ /\ session = "queue" /\ ~wantPaused
         /\ join' \in JoinRecord
         /\ join'.hold = join.hold /\ join'.active /\ join'.mark = join.mark
         /\ ~join'.after
         /\ join'.timer <=> ~InFlight
         /\ dropped' \in BOOLEAN
         /\ dropped' <=> dropped \/ (join.after /\ InFlight)
      \/ join' = join /\ dropped' = dropped
  BY <1>5 DEF ServerBack
<1>7. TypeOK'
  BY <1>1, <1>2, <1>3, <1>4, <1>6 DEF TypeOK, ServerBack, world, sinks, ghosts, NoRow
<1>8. LoadControl'
  BY <1>1, <1>2, <1>3, <1>4, <1>6 DEF LoadControl, ServerBack, world
<1>9. CurrentControl'
  BY <1>1 DEF CurrentControl, Heard, SinkControl, ServerBack, world, sinks, ghosts, NoRow
<1>10. SinkControl'
  BY <1>1, <1>2, <1>3, <1>4, <1>6 DEF SinkControl, CurrentControl, Heard, Current, Idle,
     ServerBack, world, sinks, ghosts, NoRow
<1>11. CompanionControl'
  BY <1>1, <1>2, <1>3, <1>4, <1>6 DEF CompanionControl, SinkControl, LoadControl,
     CurrentControl, CompanionControl, Heard, Current, Idle, ServerBack, world, sinks, ghosts,
     NoRow
<1>12. WaitingHasCause'
  BY <1>1, <1>2, <1>3, <1>4, <1>6 DEF WaitingHasCause, LoadControl, CompanionControl, Current,
     Idle, ServerBack
<1>13. PauseControl'
  BY <1>1, <1>2, <1>3, <1>4, <1>6 DEF PauseControl, TellsPause, SinkControl, LoadControl,
     ServerBack, world, sinks, ghosts, NoRow
<1> QED BY <1>7, <1>8, <1>9, <1>10, <1>11, <1>12, <1>13 DEF IInv

-----------------------------------------------------------------------------
(* The listener.                                                           *)

LEMMA PlayRowInv ==
    ASSUME IInv, NEW i \in Row, PlayRow(i)
    PROVE  IInv'
PROOF
<1>1. /\ TypeOK /\ comp \in CompRecord /\ chan \in Seq(ChanEvent)
      /\ dropped \in BOOLEAN /\ raced \in BOOLEAN
  BY DEF IInv, TypeOK
<1>2. events' \in 0..MaxEvents
  BY <1>1, EventSays DEF PlayRow
<1> QED BY <1>1, <1>2, AskedInv DEF PlayRow, Asked, Wish

LEMMA SkipPauseInv ==
    ASSUME IInv, PauseSink, UNCHANGED <<session, index, source, pending, wantPaused, join, load,
            active, url, world, local, ghosts>>, events' \in 0..MaxEvents
    PROVE  IInv'
PROOF
<1>1. /\ TypeOK /\ LoadControl /\ CurrentControl /\ SinkControl
      /\ CompanionControl /\ WaitingHasCause /\ PauseControl
  BY DEF IInv
<1>2. load' = load
  BY DEF world, sinks, ghosts, NoRow
<1>3. (InFlight' <=> InFlight) /\ (Current' <=> Current) /\ (Replacing' <=> Replacing)
      /\ (Resolving' <=> Resolving)
  BY <1>2, SameLoads
<1>4. /\ htm \in HtmRecord /\ comp \in CompRecord /\ dev \in DevRecord
      /\ chan \in Seq(ChanEvent) /\ join \in JoinRecord /\ htm.told \in BOOLEAN /\ htm.playing \in BOOLEAN
      /\ active \in {"html", "companion"} /\ wantPaused \in BOOLEAN
  BY <1>1 DEF TypeOK, HtmRecord, Sink
<1>5. /\ htm' \in HtmRecord /\ comp' \in CompRecord /\ dev' \in DevRecord
      /\ chan' \in Seq(ChanEvent)
      /\ htm'.row = htm.row /\ htm'.local = htm.local
      /\ ~htm'.playing
      /\ htm'.told => htm.told
      /\ active = "html" => (htm'.told <=> htm.told /\ ~htm.playing)
      /\ active = "companion" => htm' = htm /\ comp'.paused
      /\ comp'.has = comp.has /\ comp'.known = comp.known /\ (comp = NoComp => comp' = NoComp)
      /\ comp.paused => comp'.paused
      /\ active = "html" => comp' = comp /\ dev' = dev /\ chan' = chan
      /\ dev'.row = dev.row
      /\ dev'.on <=> dev.on /\ active = "html"
      /\ (\E k \in DOMAIN chan : chan[k].kind = "pause")
             => \E k \in DOMAIN chan' : chan'[k].kind = "pause"
      /\ active = "companion" /\ dev.on => \E k \in DOMAIN chan' : chan'[k].kind = "pause"
  BY <1>1, PauseSinkSays
<1>6. TypeOK'
  BY <1>1, <1>5 DEF TypeOK, world, sinks, ghosts, NoRow
<1>7. LoadControl'
  BY <1>1, <1>2, <1>3, <1>4, <1>5 DEF LoadControl, world
<1>8. CurrentControl'
  BY <1>1, <1>2, <1>3, <1>4, <1>5 DEF CurrentControl, Heard, SinkControl, world, sinks, ghosts,
     NoRow
<1>9. SinkControl'
  BY <1>1, <1>2, <1>3, <1>4, <1>5 DEF SinkControl, world, sinks, ghosts, NoRow
<1>10. CompanionControl'
  BY <1>1, <1>2, <1>3, <1>4, <1>5 DEF CompanionControl, SinkControl, LoadControl,
     CurrentControl, CompanionControl, Heard, Current, Idle, world, sinks, ghosts, NoRow
<1>11. WaitingHasCause'
  BY <1>1, <1>2, <1>3, <1>4, <1>5 DEF WaitingHasCause, world, sinks, ghosts, NoRow
<1>12. PauseControl'
  BY <1>1, <1>2, <1>3, <1>4, <1>5 DEF PauseControl, TellsPause, SinkControl, Idle, world, sinks,
     ghosts, NoRow
<1> QED BY <1>6, <1>7, <1>8, <1>9, <1>10, <1>11, <1>12 DEF IInv

LEMMA SkipInv ==
    ASSUME IInv, NEW n \in Nat, NEW path, Reachable(path) \in Row \cup {NoRow}, Skip(path)
    PROVE  IInv'
PROOF
<1>1. /\ TypeOK /\ comp \in CompRecord /\ chan \in Seq(ChanEvent)
      /\ dropped \in BOOLEAN /\ raced \in BOOLEAN
  BY DEF IInv, TypeOK
<1>2. events' \in 0..MaxEvents
  BY <1>1, EventSays DEF Skip
<1>3. CASE Reachable(path) # NoRow
  <2>1. PlayIndex(Reachable(path), FALSE, FALSE, join) /\ Asked
    BY <1>3 DEF Skip
  <2> QED BY <1>1, <1>2, <1>3, <2>1, AskedInv DEF Asked, Wish
<1>4. CASE Reachable(path) = NoRow
  BY <1>2, <1>4, SkipPauseInv DEF Skip
<1> QED BY <1>3, <1>4

LEMMA ResumeInv ==
    ASSUME IInv, ResumeSink, wish' = "play", nudged' = FALSE, UNCHANGED <<session, index, source,
            pending, wantPaused, join, load, active, url, dropped, raced, world, local>>,
                    source \in Heard, ~pending, events' \in 0..MaxEvents
    PROVE  IInv'
PROOF
<1>1. /\ TypeOK /\ LoadControl /\ CurrentControl /\ SinkControl
      /\ CompanionControl /\ WaitingHasCause /\ PauseControl
  BY DEF IInv
<1>2. load' = load
  BY DEF world, sinks, ghosts, NoRow
<1>3. (InFlight' <=> InFlight) /\ (Current' <=> Current) /\ (Replacing' <=> Replacing)
      /\ (Resolving' <=> Resolving)
  BY <1>2, SameLoads
<1>4. /\ htm \in HtmRecord /\ comp \in CompRecord /\ dev \in DevRecord
      /\ chan \in Seq(ChanEvent) /\ join \in JoinRecord /\ htm.told \in BOOLEAN /\ htm.playing \in BOOLEAN
      /\ active \in {"html", "companion"} /\ wantPaused \in BOOLEAN
  BY <1>1 DEF TypeOK, HtmRecord, Sink
<1>5. /\ htm' \in HtmRecord /\ comp' \in CompRecord /\ dev' \in DevRecord /\ chan' = chan
      /\ htm'.row = htm.row /\ htm'.local = htm.local /\ htm'.told = htm.told
      /\ htm'.playing => htm.row # NoRow /\ active = "html"
      /\ comp'.has = comp.has /\ dev'.row = dev.row
      /\ dev'.on => dev.row # NoRow
      /\ comp = NoComp => comp' = NoComp \/ active = "companion"
  <2>1. CASE active = "html"
    <3> DEFINE on == htm.row # NoRow
    <3>1. on \in BOOLEAN
      OBVIOUS
    <3>2. htm' = [htm EXCEPT !.playing = on] /\ comp' = comp /\ dev' = dev /\ chan' = chan
      BY <2>1 DEF ResumeSink
    <3> HIDE DEF on
    <3>3. /\ htm' \in HtmRecord /\ htm'.playing = on
          /\ htm'.row = htm.row /\ htm'.local = htm.local /\ htm'.told = htm.told
      BY <1>4, <3>1, <3>2 DEF HtmRecord
    <3> QED BY <1>1, <1>4, <2>1, <3>2, <3>3 DEF on, SinkControl
  <2>2. CASE active = "companion"
    <3> DEFINE on == dev.row # NoRow
    <3>1. on \in BOOLEAN
      OBVIOUS
    <3>2. /\ htm' = htm /\ chan' = chan
          /\ comp' = [comp EXCEPT !.paused = FALSE] /\ dev' = [dev EXCEPT !.on = on]
      BY <2>2 DEF ResumeSink
    <3> HIDE DEF on
    <3>3. dev' \in DevRecord /\ dev'.row = dev.row /\ dev'.on = on
      BY <1>4, <3>1, <3>2 DEF DevRecord
    <3>4. comp' \in CompRecord /\ comp'.has = comp.has
      BY <1>4, <3>2 DEF CompRecord
    <3>5. ~htm.playing
      BY <1>1, <2>2 DEF SinkControl
    <3> QED BY <1>4, <2>2, <3>2, <3>3, <3>4, <3>5 DEF on
  <2> QED BY <1>4, <2>1, <2>2
<1>6. active = "html" => ~Current
  BY <1>1 DEF Current, CurrentControl, TypeOK, LoadRecord, Sink
<1>7. TypeOK'
  <2>1. /\ session' = session /\ index' = index /\ source' = source /\ pending' = pending
        /\ wantPaused' = wantPaused /\ join' = join /\ load' = load /\ active' = active
        /\ url' = url /\ dropped' = dropped /\ raced' = raced /\ local' = local
        /\ device' = device /\ exclusive' = exclusive /\ online' = online
    BY DEF world
  <2>2. /\ htm' \in HtmRecord /\ comp' \in CompRecord /\ dev' \in DevRecord
        /\ chan' \in Seq(ChanEvent)
    BY <1>4, <1>5
  <2>3. wish' \in {"play", "pause"} /\ nudged' \in BOOLEAN
    OBVIOUS
  <2> QED BY <1>1, <2>1, <2>2, <2>3 DEF TypeOK
<1>8. LoadControl'
  <2>1. session' = session /\ index' = index /\ join' = join
    OBVIOUS
  <2> QED BY <1>1, <1>2, <1>3, <2>1, StayingLoads DEF LoadControl
<1>9. CurrentControl'
  BY <1>1, <1>6 DEF CurrentControl, Heard, SinkControl, world, sinks, ghosts, NoRow
<1>10. SinkControl'
  BY <1>1, <1>2, <1>3, <1>4, <1>5, <1>6 DEF SinkControl, world, sinks, ghosts, NoRow
<1>11. CompanionControl'
  BY <1>1, <1>2, <1>3, <1>4, <1>5, <1>6 DEF CompanionControl, SinkControl, LoadControl,
     CurrentControl, CompanionControl, Heard, Current
<1>12. WaitingHasCause'
  BY <1>1, <1>2, <1>3, <1>4, <1>5, <1>6 DEF WaitingHasCause
<1>13. PauseControl'
  BY <1>1, <1>2, <1>3, <1>4, <1>5, <1>6 DEF PauseControl, TellsPause, SinkControl
<1> QED BY <1>7, <1>8, <1>9, <1>10, <1>11, <1>12, <1>13 DEF IInv

LEMMA AudibleInv ==
    ASSUME IInv, Audible, ~pending, events' \in 0..MaxEvents, UNCHANGED <<world, local>>
    PROVE  IInv'
PROOF
<1>1. /\ TypeOK /\ comp \in CompRecord /\ chan \in Seq(ChanEvent)
      /\ dropped \in BOOLEAN /\ raced \in BOOLEAN /\ index \in Row \cup {NoRow}
  BY DEF IInv, TypeOK
<1>2. /\ wish' = "play" /\ nudged' = FALSE /\ UNCHANGED <<dropped, raced>>
  BY DEF Audible, Wish
<1>3. CASE source \in Heard /\ index # NoRow
  BY <1>2, <1>3, ResumeInv DEF Audible, Heard
<1>4. CASE ~(source \in Heard /\ index # NoRow)
  <2> DEFINE i == IF index = NoRow THEN 1 ELSE index
  <2>1. i \in Row
    BY <1>1, BoundsAssumption DEF Row
  <2>2. PlayIndex(i, FALSE, FALSE, join) /\ UNCHANGED <<comp, dev, chan>>
    BY <1>4 DEF Audible, Heard
  <2> HIDE DEF i
  <2> QED BY <1>1, <1>2, <2>1, <2>2, AskedInv
<1> QED BY <1>3, <1>4

LEMMA FlipInv ==
    ASSUME IInv, NEW w \in BOOLEAN, Flip(w), UNCHANGED <<world, local>>, events' \in 0..MaxEvents
    PROVE  IInv'
PROOF
<1>1. /\ TypeOK /\ LoadControl /\ CurrentControl /\ SinkControl
      /\ CompanionControl /\ WaitingHasCause /\ PauseControl
  BY DEF IInv
<1>2. load' = load
  BY DEF Flip, Wish, world
<1>3. (InFlight' <=> InFlight) /\ (Current' <=> Current) /\ (Replacing' <=> Replacing)
      /\ (Resolving' <=> Resolving)
  BY <1>2, SameLoads
<1>4. /\ htm \in HtmRecord /\ comp \in CompRecord /\ dev \in DevRecord
      /\ chan \in Seq(ChanEvent) /\ join \in JoinRecord /\ htm.told \in BOOLEAN /\ htm.playing \in BOOLEAN
      /\ active \in {"html", "companion"} /\ wantPaused \in BOOLEAN
  BY <1>1 DEF TypeOK, HtmRecord, Sink
<1>5. wantPaused' \in BOOLEAN /\ wish' = "play" /\ nudged' = FALSE
  BY DEF Flip, Wish
<1>6. TypeOK'
  <2>1. /\ session' = session /\ index' = index /\ source' = source /\ pending' = pending
        /\ join' = join /\ load' = load /\ active' = active /\ url' = url /\ htm' = htm
        /\ comp' = comp /\ dev' = dev /\ chan' = chan /\ dropped' = dropped /\ raced' = raced
        /\ device' = device /\ exclusive' = exclusive /\ online' = online /\ local' = local
    BY DEF Flip, sinks, world
  <2>2. wantPaused' \in BOOLEAN /\ nudged' \in BOOLEAN /\ wish' \in {"play", "pause"}
    BY <1>5
  <2> QED BY <1>1, <2>1, <2>2 DEF TypeOK
<1>7. LoadControl'
  <2>1. session' = session /\ index' = index /\ join' = join
    BY DEF Flip
  <2> QED BY <1>1, <1>2, <1>3, <2>1, StayingLoads DEF LoadControl
<1>8. CurrentControl'
  BY <1>1, <1>2, <1>3, <1>4, <1>5 DEF CurrentControl, Heard, SinkControl, Flip, Wish, world,
     sinks, ghosts, NoRow
<1>9. SinkControl'
  BY <1>1, <1>2, <1>3, <1>4, <1>5 DEF SinkControl, CurrentControl, Heard, Current, Idle, Flip,
     Wish, world, sinks, ghosts, NoRow
<1>10. CompanionControl'
  BY <1>1, <1>2, <1>3, <1>4, <1>5 DEF CompanionControl, SinkControl, LoadControl,
     CurrentControl, CompanionControl, Heard, Current, Idle, Flip, Wish, world, sinks, ghosts,
     NoRow
<1>11. WaitingHasCause'
  BY <1>1, <1>2, <1>3, <1>4, <1>5 DEF WaitingHasCause, LoadControl, CompanionControl, Current,
     Idle, Flip, Wish
<1>12. PauseControl'
  BY <1>1, <1>2, <1>3, <1>4, <1>5 DEF PauseControl, TellsPause, SinkControl, LoadControl,
     CurrentControl
<1> QED BY <1>6, <1>7, <1>8, <1>9, <1>10, <1>11, <1>12 DEF IInv

LEMMA PausePendingInv ==
    ASSUME IInv, PausePending, UNCHANGED <<world, local>>, events' \in 0..MaxEvents, pending
    PROVE  IInv'
PROOF
<1>1. /\ TypeOK /\ LoadControl /\ CurrentControl /\ SinkControl
      /\ CompanionControl /\ WaitingHasCause /\ PauseControl
  BY DEF IInv
<1>2. load' = load
  BY DEF PausePending, Wish, world
<1>3. (InFlight' <=> InFlight) /\ (Current' <=> Current) /\ (Replacing' <=> Replacing)
      /\ (Resolving' <=> Resolving)
  BY <1>2, SameLoads
<1>4. /\ htm \in HtmRecord /\ comp \in CompRecord /\ dev \in DevRecord
      /\ chan \in Seq(ChanEvent) /\ join \in JoinRecord /\ htm.told \in BOOLEAN /\ htm.playing \in BOOLEAN
      /\ active \in {"html", "companion"} /\ wantPaused \in BOOLEAN
  BY <1>1 DEF TypeOK, HtmRecord, Sink
<1>5. /\ join' = Rest /\ dropped' \in BOOLEAN
      /\ dropped' <=> dropped \/ \A l \in Loads : ~load[l].cur
  BY <1>1, <1>4, CanceledSays DEF PausePending
<1>6. TypeOK'
  <2>1. /\ session' = session /\ index' = index /\ source' = source /\ load' = load
        /\ active' = active /\ url' = url /\ htm' = htm /\ comp' = comp /\ dev' = dev
        /\ chan' = chan /\ raced' = raced /\ local' = local
        /\ device' = device /\ exclusive' = exclusive /\ online' = online
    BY DEF PausePending, sinks, world
  <2>2. /\ pending' \in BOOLEAN /\ wantPaused' \in BOOLEAN /\ join' \in JoinRecord
        /\ wish' \in {"play", "pause"} /\ nudged' \in BOOLEAN
    BY <1>1, <1>4, <1>5, RestSays DEF PausePending, Wish, TypeOK
  <2> QED BY <1>1, <1>5, <2>1, <2>2 DEF TypeOK
<1>7. LoadControl'
  BY <1>1, <1>2, <1>3, <1>4, <1>5, RestSays DEF LoadControl, PausePending, Wish
<1>8. CurrentControl'
  BY <1>1, <1>2, <1>3, <1>4, <1>5, RestSays DEF CurrentControl, Heard, SinkControl,
     PausePending, Wish, world, sinks, ghosts, NoRow
<1>9. SinkControl'
  BY <1>1, <1>2, <1>3, <1>4, <1>5, RestSays DEF SinkControl, CurrentControl, Heard, Current,
     Idle, PausePending, Wish, world, sinks, ghosts, NoRow
<1>10. CompanionControl'
  BY <1>1, <1>2, <1>3, <1>4, <1>5, RestSays DEF CompanionControl, SinkControl, LoadControl,
     CurrentControl, CompanionControl, Heard, Current, Idle, PausePending, Wish, world, sinks,
     ghosts, NoRow
<1>11. WaitingHasCause'
  BY <1>1, <1>2, <1>3, <1>4, <1>5, RestSays DEF WaitingHasCause, LoadControl, CompanionControl,
     Current, Idle, PausePending
<1>12. PauseControl'
  BY <1>1, <1>2, <1>3, <1>4, <1>5, RestSays DEF PauseControl, TellsPause, SinkControl,
     LoadControl, CurrentControl, CompanionControl, Heard, Current, Idle, PausePending, Wish,
     world, sinks, ghosts, NoRow
<1> QED BY <1>6, <1>7, <1>8, <1>9, <1>10, <1>11, <1>12 DEF IInv

LEMMA PauseNowInv ==
    ASSUME IInv, PauseNow, UNCHANGED <<world, local>>, events' \in 0..MaxEvents, ~pending
    PROVE  IInv'
PROOF
<1>1. /\ TypeOK /\ LoadControl /\ CurrentControl /\ SinkControl
      /\ CompanionControl /\ WaitingHasCause /\ PauseControl
  BY DEF IInv
<1>2. load' = load
  BY DEF PauseNow, world
<1>3. (InFlight' <=> InFlight) /\ (Current' <=> Current) /\ (Replacing' <=> Replacing)
      /\ (Resolving' <=> Resolving)
  BY <1>2, SameLoads
<1>4. /\ htm \in HtmRecord /\ comp \in CompRecord /\ dev \in DevRecord
      /\ chan \in Seq(ChanEvent) /\ join \in JoinRecord /\ htm.told \in BOOLEAN /\ htm.playing \in BOOLEAN
      /\ active \in {"html", "companion"} /\ wantPaused \in BOOLEAN
  BY <1>1 DEF TypeOK, HtmRecord, Sink
<1>5. /\ htm' \in HtmRecord /\ comp' \in CompRecord /\ dev' \in DevRecord
      /\ chan' \in Seq(ChanEvent)
      /\ htm'.row = htm.row /\ htm'.local = htm.local
      /\ ~htm'.playing
      /\ htm'.told => htm.told
      /\ active = "html" => (htm'.told <=> htm.told /\ ~htm.playing)
      /\ active = "companion" => htm' = htm /\ comp'.paused
      /\ comp'.has = comp.has /\ comp'.known = comp.known /\ (comp = NoComp => comp' = NoComp)
      /\ comp.paused => comp'.paused
      /\ active = "html" => comp' = comp /\ dev' = dev /\ chan' = chan
      /\ dev'.row = dev.row
      /\ dev'.on <=> dev.on /\ active = "html"
      /\ (\E k \in DOMAIN chan : chan[k].kind = "pause")
             => \E k \in DOMAIN chan' : chan'[k].kind = "pause"
      /\ active = "companion" /\ dev.on => \E k \in DOMAIN chan' : chan'[k].kind = "pause"
  BY <1>1, PauseSinkSays DEF PauseNow
<1>6. /\ join' \in JoinRecord /\ join'.mark /\ join'.hold = join.hold /\ join'.timer = join.timer
      /\ join'.after = join.after /\ join'.active = join.active
  BY <1>4 DEF PauseNow, JoinRecord
<1>7. /\ nudged' \in BOOLEAN
      /\ ~nudged' => IF active = "html" THEN htm.playing ELSE dev.on
  BY <1>4 DEF PauseNow, DevRecord, TypeOK
<1>8. TypeOK'
  BY <1>1, <1>2, <1>3, <1>4, <1>5, <1>6, <1>7 DEF TypeOK, PauseNow, world, sinks, ghosts, NoRow
<1>9. LoadControl'
  BY <1>1, <1>2, <1>3, <1>4, <1>5, <1>6, <1>7 DEF LoadControl, PauseNow
<1>10. CurrentControl'
  BY <1>1, <1>2, <1>3 DEF CurrentControl, Heard, SinkControl, PauseNow, world, sinks, ghosts,
     NoRow
<1>11. SinkControl'
  BY <1>1, <1>2, <1>3, <1>4, <1>5, <1>6, <1>7 DEF SinkControl, CurrentControl, Heard, Current,
     Idle, PauseNow, world, sinks, ghosts, NoRow
<1>12. CompanionControl'
  BY <1>1, <1>2, <1>3, <1>4, <1>5, <1>6, <1>7 DEF CompanionControl, SinkControl, LoadControl,
     CurrentControl, CompanionControl, Heard, Current, Idle, PauseNow, world, sinks, ghosts,
     NoRow
<1>13. WaitingHasCause'
  BY <1>1, <1>2 DEF WaitingHasCause, LoadControl, CompanionControl, Current, Idle, PauseNow,
     world, sinks, ghosts, NoRow
<1>14. PauseControl'
  BY <1>1, <1>2, <1>3, <1>4, <1>5, <1>6, <1>7 DEF PauseControl, TellsPause, SinkControl,
     LoadControl, CurrentControl, CompanionControl, Heard, Current, Idle, PauseNow, world,
     sinks, ghosts, NoRow
<1> QED BY <1>8, <1>9, <1>10, <1>11, <1>12, <1>13, <1>14 DEF IInv

LEMMA TogglePlayInv ==
    ASSUME IInv, TogglePlay
    PROVE  IInv'
PROOF
<1>1. events' \in 0..MaxEvents /\ UNCHANGED <<world, local>>
  BY EventSays DEF IInv, TogglePlay
<1>2. CASE pending /\ wantPaused
  BY <1>1, <1>2, FlipInv DEF TogglePlay
<1>3. CASE pending /\ ~wantPaused
  BY <1>1, <1>3, PausePendingInv DEF TogglePlay
<1>4. CASE ~pending /\ SinkPaused
  BY <1>1, <1>4, AudibleInv DEF TogglePlay
<1>5. CASE ~pending /\ ~SinkPaused
  BY <1>1, <1>5, PauseNowInv DEF TogglePlay
<1> QED BY <1>2, <1>3, <1>4, <1>5

LEMMA MediaPlayInv ==
    ASSUME IInv, MediaPlay
    PROVE  IInv'
PROOF
<1>1. events' \in 0..MaxEvents /\ UNCHANGED <<world, local>>
  BY EventSays DEF IInv, MediaPlay
<1>2. CASE pending
  BY <1>1, <1>2, FlipInv DEF MediaPlay
<1>3. CASE ~pending
  BY <1>1, <1>3, AudibleInv DEF MediaPlay
<1> QED BY <1>2, <1>3

LEMMA MediaPauseInv ==
    ASSUME IInv, MediaPause
    PROVE  IInv'
PROOF
<1>1. events' \in 0..MaxEvents /\ UNCHANGED <<world, local>>
  BY EventSays DEF IInv, MediaPause
<1>2. CASE pending
  BY <1>1, <1>2, PausePendingInv DEF MediaPause
<1>3. CASE ~pending
  BY <1>1, <1>3, PauseNowInv DEF MediaPause
<1> QED BY <1>2, <1>3

LEMMA LeaveInv ==
    ASSUME IInv, NEW next \in {"none", "other"}, NEW i \in Row \cup {NoRow}, Leave(next, i),
            UNCHANGED <<device, exclusive, online>>
    PROVE  IInv'
PROOF
<1>1. /\ TypeOK /\ LoadControl /\ CurrentControl /\ SinkControl
      /\ CompanionControl /\ WaitingHasCause /\ PauseControl
  BY DEF IInv
<1>2. /\ load \in [Loads -> LoadRecord] /\ join \in JoinRecord
      /\ htm \in HtmRecord /\ comp \in CompRecord /\ dev \in DevRecord /\ chan \in Seq(ChanEvent)
  BY <1>1 DEF TypeOK
<1>3. /\ load' \in [Loads -> LoadRecord]
      /\ \A l \in Loads : /\ load'[l].pc = load[l].pc /\ ~load'[l].cur
                          /\ load'[l].clock = load[l].clock /\ load'[l].sink = load[l].sink /\ load'[l].row = load[l].row
                          /\ load[l] = Idle => load'[l] = Idle
  <2>1. CASE session = "queue"
    <3>1. /\ load' = [l \in Loads |-> load'[l]]
          /\ \A l \in Loads : load'[l] = [load[l] EXCEPT !.cur = FALSE]
      BY <2>1 DEF Leave
    <3>2. ASSUME NEW l \in Loads
          PROVE  /\ load'[l] \in LoadRecord
                 /\ load'[l].pc = load[l].pc /\ ~load'[l].cur
                 /\ load'[l].clock = load[l].clock /\ load'[l].sink = load[l].sink /\ load'[l].row = load[l].row
                 /\ load[l] = Idle => load'[l] = Idle
      <4>2. load[l] \in LoadRecord /\ load'[l] = [load[l] EXCEPT !.cur = FALSE]
        BY <1>2, <3>1
      <4>1. /\ load'[l] \in LoadRecord
            /\ load'[l].pc = load[l].pc /\ ~load'[l].cur
            /\ load'[l].clock = load[l].clock /\ load'[l].sink = load[l].sink /\ load'[l].row = load[l].row
            /\ load'[l].row = load[l].row /\ load'[l].local = load[l].local
            /\ load'[l].broken = load[l].broken
        BY <4>2 DEF LoadRecord
      <4> QED BY <4>1, IdleSays DEF LoadRecord
    <3> QED BY <3>1, <3>2
  <2>2. CASE session # "queue"
    BY <1>1, <1>2, <2>2 DEF Leave, CurrentControl
  <2> QED BY <2>1, <2>2
<1>4. (InFlight' <=> InFlight) /\ ~Current'
  BY <1>3 DEF InFlight, Current
<1>5. /\ events' \in 0..MaxEvents
      /\ session' = next /\ session' # "queue" /\ index' = i
      /\ wantPaused' \in BOOLEAN /\ (wantPaused' => wantPaused)
      /\ wish' = "pause" /\ nudged' = FALSE
      /\ UNCHANGED <<active, world, local, dropped, raced>>
      /\ \/ /\ session = "queue"
            /\ source' = "none" /\ pending' = FALSE /\ url' = NoRow /\ join' = Rest
            /\ htm' = Silent /\ comp' = NoComp /\ dev' = NoDev /\ chan' = chan
         \/ /\ session # "queue"
            /\ join' = Rest \/ join' = join
            /\ UNCHANGED <<source, pending, url, load, sinks>>
  BY <1>1, <1>2, EventSays, CanceledSays DEF Leave, Wish, StopBoth, HtmlStopped, CompStopped,
     world, sinks, TypeOK
<1>6. TypeOK'
  <2>1. /\ active' = active /\ local' = local /\ dropped' = dropped /\ raced' = raced
        /\ device' = device /\ exclusive' = exclusive /\ online' = online
    BY <1>5 DEF world
  <2>2. /\ session' \in {"none", "queue", "other"} /\ index' \in Row \cup {NoRow}
        /\ wantPaused' \in BOOLEAN /\ nudged' \in BOOLEAN /\ wish' \in {"play", "pause"}
        /\ load' \in [Loads -> LoadRecord] /\ events' \in 0..MaxEvents
    BY <1>3, <1>5 DEF Leave
  <2>3. /\ source' \in {"none", "streaming", "downloaded", "unavailable"}
        /\ pending' \in BOOLEAN /\ url' \in Row \cup {NoRow} /\ join' \in JoinRecord
        /\ htm' \in HtmRecord /\ comp' \in CompRecord /\ dev' \in DevRecord
        /\ chan' \in Seq(ChanEvent)
    <3>1. CASE session = "queue"
      BY <1>2, <1>5, <3>1, SilentSays, RestSays
    <3>2. CASE session # "queue"
      <4>1. source' = source /\ pending' = pending /\ url' = url
            /\ htm' = htm /\ comp' = comp /\ dev' = dev /\ chan' = chan
        BY <1>5, <3>2 DEF sinks
      <4>2. join' \in JoinRecord
        BY <1>2, <1>5, RestSays
      <4> QED BY <1>1, <1>2, <4>1, <4>2 DEF TypeOK
    <3> QED BY <3>1, <3>2
  <2> QED BY <1>1, <2>1, <2>2, <2>3 DEF TypeOK
<1>7. LoadControl'
  <2>1. session' # "queue" /\ (join' = Rest \/ join' = join)
    BY <1>5
  <2>2. \A l \in Loads : IF load'[l].pc = "off" THEN load'[l] = Idle ELSE load'[l].row \in Row
    BY <1>1, <1>3 DEF LoadControl
  <2>3. /\ \A k, l \in Loads : load'[k].clock /\ load'[l].clock => k = l
        /\ \A l \in Loads : load'[l].pc = "gate" => load'[l].sink = "companion"
    BY <1>1, <1>3 DEF LoadControl
  <2>4. InFlight' => ~join'.timer
    BY <1>1, <1>4, <2>1, RestSays DEF LoadControl
  <2> QED BY <1>3, <2>1, <2>2, <2>3, <2>4 DEF LoadControl
<1>8. CurrentControl'
  BY <1>3 DEF CurrentControl
<1>9. SinkControl'
  BY <1>1, <1>3, <1>4, <1>5, SilentSays DEF SinkControl, world, sinks
<1>10. CompanionControl'
  BY <1>1, <1>3, <1>4, <1>5, SilentSays, RestSays DEF CompanionControl, world, sinks, Heard
<1>11. WaitingHasCause'
  BY <1>1, <1>3, <1>4, <1>5, SilentSays, RestSays DEF WaitingHasCause, CompanionControl, world,
     sinks
<1>12. PauseControl'
  BY <1>1, <1>3, <1>4, <1>5, SilentSays, RestSays DEF PauseControl, CompanionControl,
     SinkControl, world, sinks
<1> QED BY <1>6, <1>7, <1>8, <1>9, <1>10, <1>11, <1>12 DEF IInv

\* While the wish is to pause and nothing is pending, the sink is paused: so is
\* a row that is loaded again.
LEMMA PausedSink ==
    ASSUME IInv, wish = "pause", ~nudged, ~raced, ~pending
    PROVE  SinkPaused
BY DEF IInv, TypeOK, Sink, PauseControl, SinkPaused

LEMMA ReloadInv ==
    ASSUME IInv, Reload
    PROVE  IInv'
PROOF
<1>1. /\ TypeOK /\ comp \in CompRecord /\ chan \in Seq(ChanEvent)
      /\ dropped \in BOOLEAN /\ raced \in BOOLEAN /\ nudged \in BOOLEAN
      /\ pending \in BOOLEAN /\ wish \in {"play", "pause"}
  BY DEF IInv, TypeOK
<1>2. /\ events' \in 0..MaxEvents /\ index \in Row
      /\ PlayIndex(index, SinkPaused, FALSE, join)
      /\ UNCHANGED <<comp, dev, chan, world, local, wish, dropped, raced>>
  BY <1>1, EventSays DEF Reload, TypeOK
<1>3. nudged' \in BOOLEAN /\ (~nudged' => ~nudged /\ (wish = "pause" => ~pending))
  BY <1>1 DEF Reload
<1>4. SinkPaused \in BOOLEAN
  BY <1>1 DEF SinkPaused, CompRecord
<1> QED BY <1>1, <1>2, <1>3, <1>4, PausedSink, AskedInv

LEMMA ExclusiveAloneInv ==
    ASSUME IInv, SetExclusive, session # "queue" \/ index = NoRow
    PROVE  IInv'
PROOF
<1>1. /\ TypeOK /\ LoadControl /\ CurrentControl /\ SinkControl
      /\ CompanionControl /\ WaitingHasCause /\ PauseControl
  BY DEF IInv
<1>2. load' = load
  BY <1>1, BoundsAssumption DEF SetExclusive
<1>3. (InFlight' <=> InFlight) /\ (Current' <=> Current) /\ (Replacing' <=> Replacing)
      /\ (Resolving' <=> Resolving)
  BY <1>2, SameLoads
<1>4. /\ htm \in HtmRecord /\ comp \in CompRecord /\ dev \in DevRecord
      /\ chan \in Seq(ChanEvent) /\ join \in JoinRecord /\ htm.told \in BOOLEAN /\ htm.playing \in BOOLEAN
      /\ active \in {"html", "companion"} /\ wantPaused \in BOOLEAN
  BY <1>1 DEF TypeOK, HtmRecord, Sink
<1>5. session # "queue"
  BY <1>1, BoundsAssumption DEF SetExclusive, LoadControl, Row, NoRow
<1>6. << >> \in Seq(ChanEvent)
  OBVIOUS
<1>7. PICK released \in IF exclusive /\ comp.has THEN BOOLEAN ELSE {FALSE} :
        /\ nudged' = (nudged \/ (wish = "pause" /\ (pending \/ released)))
        /\ comp' = IF released THEN [comp EXCEPT !.has = FALSE, !.paused = TRUE] ELSE comp
        /\ UNCHANGED <<session, index, source, pending, wantPaused, join, load, active, url, htm>>
  BY <1>5 DEF SetExclusive
<1>8. /\ comp' \in CompRecord /\ (comp'.has => comp.has) /\ (~comp.has => comp' = comp)
      /\ nudged' \in BOOLEAN /\ (nudged => nudged')
      /\ events' \in 0..MaxEvents
      /\ exclusive' \in BOOLEAN /\ device' \in {"down", "unarmed"} /\ (device' # "down" => exclusive')
      /\ dev' = IF exclusive THEN NoDev ELSE dev
      /\ chan' = IF exclusive THEN << >> ELSE chan
      /\ UNCHANGED <<online, local, wish, dropped, raced>>
  <2>1. comp' \in CompRecord /\ (comp'.has => comp.has) /\ (~comp.has => comp' = comp)
    BY <1>4, <1>7 DEF CompRecord
  <2>2. nudged' \in BOOLEAN /\ (nudged => nudged')
    BY <1>1, <1>7 DEF TypeOK
  <2>3. exclusive' \in BOOLEAN /\ device' \in {"down", "unarmed"} /\ (device' # "down" => exclusive')
    BY <1>1 DEF TypeOK, SetExclusive
  <2> QED BY <1>1, <2>1, <2>2, EventSays DEF SetExclusive
<1>9. TypeOK'
  BY <1>1, <1>2, <1>3, <1>7, <1>8, SilentSays DEF TypeOK, world, NoRow
<1>10. LoadControl'
  BY <1>1, <1>2, <1>3, <1>7, <1>8, SilentSays DEF LoadControl, world, NoRow
<1>11. CurrentControl'
  BY <1>1, <1>2, <1>3, <1>4, <1>5, <1>6, <1>7, <1>8, SilentSays DEF CurrentControl
<1>12. SinkControl'
  BY <1>1, <1>2, <1>3, <1>4, <1>5, <1>6, <1>7, <1>8, SilentSays DEF SinkControl, CurrentControl,
     Heard
<1>13. CompanionControl'
  BY <1>1, <1>2, <1>3, <1>4, <1>5, <1>6, <1>7, <1>8, SilentSays DEF CompanionControl,
     SinkControl, LoadControl, CurrentControl, CompanionControl
<1>14. WaitingHasCause'
  BY <1>1, <1>2, <1>3, <1>4, <1>5, <1>6, <1>7, <1>8, SilentSays DEF WaitingHasCause,
     LoadControl, CompanionControl
<1>15. PauseControl'
  BY <1>1, <1>2, <1>3, <1>4, <1>5, <1>6, <1>7, <1>8, SilentSays DEF PauseControl
<1> QED BY <1>9, <1>10, <1>11, <1>12, <1>13, <1>14, <1>15 DEF IInv

LEMMA SetExclusiveInv ==
    ASSUME IInv, SetExclusive
    PROVE  IInv'
PROOF
<1>1. /\ TypeOK /\ SinkControl /\ LoadControl
      /\ comp \in CompRecord /\ dev \in DevRecord /\ chan \in Seq(ChanEvent) /\ join \in JoinRecord
      /\ dropped \in BOOLEAN /\ raced \in BOOLEAN /\ nudged \in BOOLEAN
      /\ pending \in BOOLEAN /\ wish \in {"play", "pause"} /\ exclusive \in BOOLEAN
      /\ online \in BOOLEAN /\ local \subseteq Row
  BY DEF IInv, TypeOK
<1>2. CASE session # "queue" \/ index = NoRow
  BY <1>2, ExclusiveAloneInv
<1>3. CASE session = "queue" /\ index # NoRow
  <2>1. PICK released \in IF exclusive /\ comp.has THEN BOOLEAN ELSE {FALSE} :
          /\ nudged' = (nudged \/ (wish = "pause" /\ (pending \/ released)))
          /\ comp' = IF released THEN [comp EXCEPT !.has = FALSE, !.paused = TRUE] ELSE comp
          /\ PlayIndexOn(~exclusive, index, (released /\ active = "companion") \/ SinkPaused, FALSE,
                         IF released /\ source # "none" THEN Failed(join) ELSE join)
    BY <1>3 DEF SetExclusive
  <2> DEFINE j == IF released /\ source # "none" THEN Failed(join) ELSE join
             paused == (released /\ active = "companion") \/ SinkPaused
  <2>2. /\ j \in JoinRecord /\ (InFlight => ~j.timer) /\ (~released => j = join)
        /\ released \in BOOLEAN /\ (released => exclusive)
    BY <1>1, FailedSays DEF LoadControl
  <2>3. paused \in BOOLEAN /\ (SinkPaused => paused)
    BY <1>1, <2>2 DEF SinkPaused, CompRecord
  <2>4. exclusive' = ~exclusive /\ exclusive' \in BOOLEAN /\ PlayIndexOn(exclusive', index, paused, FALSE, j)
    BY <1>1, <2>1 DEF SetExclusive
  <2> HIDE DEF j, paused
  <2>5. /\ events' \in 0..MaxEvents /\ index \in Row
        /\ device' = (IF exclusive THEN "down" ELSE "unarmed")
        /\ dev' = (IF exclusive THEN NoDev ELSE dev)
        /\ chan' = (IF exclusive THEN << >> ELSE chan)
        /\ UNCHANGED <<online, local, wish, dropped, raced>>
    BY <1>1, <1>3, EventSays DEF SetExclusive, TypeOK
  <2>6. /\ nudged' \in BOOLEAN
        /\ ~nudged' => ~nudged /\ (wish = "pause" => ~pending /\ ~released)
    BY <1>1, <2>1, <2>2
  <2>7. comp' \in CompRecord /\ (comp'.has => comp.has)
    BY <1>1, <2>1 DEF CompRecord
  <2>8. << >> \in Seq(ChanEvent)
    OBVIOUS
  <2>9. chan' \in Seq(ChanEvent) /\ dev'.row = NoRow
        /\ device' \in {"down", "unarmed", "armed"} /\ (device' # "down" => exclusive')
    BY <1>1, <2>4, <2>5, <2>8, SilentSays DEF SinkControl
  <2>10. wish' = "pause" /\ ~nudged' /\ ~raced' => paused /\ j = join /\ wish = "pause" /\ ~nudged
    BY <2>2, <2>3, <2>5, <2>6, PausedSink
  <2> QED BY <1>1, <2>2, <2>3, <2>4, <2>5, <2>6, <2>7, <2>9, <2>10, PlayIndexInv
<1> QED BY <1>2, <1>3

-----------------------------------------------------------------------------
(* The theorems of the specification.                                      *)

LEMMA InitInv == Init => IInv
PROOF
<1> SUFFICES ASSUME Init PROVE IInv
  OBVIOUS
<1>1. \A l \in Loads : load[l] = Idle
  BY DEF Init
<1>2. ~Current /\ ~InFlight /\ ~Replacing /\ ~Resolving
  BY <1>1, IdleSays DEF Current, InFlight, Replacing, Resolving
<1>3. TypeOK
  <2>1. load \in [Loads -> LoadRecord] /\ << >> \in Seq(ChanEvent)
    BY IdleSays DEF Init
  <2>2. 1 \in Row /\ 0 \in 0..MaxEvents
    BY BoundsAssumption DEF Row
  <2> QED BY <2>1, <2>2, RestSays, SilentSays, QueueAssumption DEF Init, TypeOK, Sink, Row
<1>4. LoadControl
  BY <1>1, <1>2, IdleSays DEF Init, LoadControl
<1>5. CurrentControl
  BY <1>1, IdleSays DEF CurrentControl
<1>6. SinkControl
  BY SilentSays DEF Init, SinkControl
<1>7. CompanionControl
  BY <1>2, SilentSays, RestSays DEF Init, CompanionControl
<1>8. WaitingHasCause
  BY DEF Init, WaitingHasCause
<1>9. PauseControl
  BY <1>2, SilentSays, RestSays DEF Init, PauseControl
<1> QED BY <1>3, <1>4, <1>5, <1>6, <1>7, <1>8, <1>9 DEF IInv

LEMMA NextInv ==
    ASSUME IInv, [Next]_vars
    PROVE  IInv'
PROOF
<1>1. CASE \E l \in Loads : Step(l)
  <2>1. PICK l \in Loads : Step(l)
    BY <1>1
  <2> QED BY <2>1, ResolveInv, GateOpensInv, GateShutsInv, LoadedInv, NotLoadedInv, OvertakenInv
               DEF Step
<1>2. CASE Clock
  BY <1>2, HoldElapsesInv, TimerFiresInv DEF Clock
<1>3. CASE Report
  BY <1>3, HtmlPauseToldInv, DeliveredInv, DevOpensInv DEF Report
<1>4. CASE Fault
  BY <1>4, HtmlInterruptedInv, HtmlErrorInv, HtmlEndedInv, DevEndsInv, CompBlockedInv,
     LinkDropsInv, DeviceLostInv, ServerLostInv DEF Fault
<1>5. CASE Listener
  <2>1. ASSUME NEW i \in Row, PlayRow(i) PROVE IInv'
    BY <2>1, PlayRowInv
  <2>2. CASE Skip(Ahead) \/ Skip(Behind)
    BY <2>2, SkipInv, AheadSays, BehindSays DEF IInv
  <2>3. CASE StopPlayback
    <3>1. events' = events'
      OBVIOUS
    <3> QED BY <2>3, LeaveInv DEF StopPlayback, Leave, world
  <2>4. CASE OtherSession
    <3>1. index \in Row \cup {NoRow}
      BY DEF IInv, TypeOK
    <3> QED BY <2>4, <3>1, LeaveInv DEF OtherSession, Leave, world
  <2> QED BY <1>5, <2>1, <2>2, <2>3, <2>4, TogglePlayInv, MediaPlayInv, MediaPauseInv,
             ReloadInv, SetExclusiveInv DEF Listener
<1>6. CASE DeviceComes \/ ServerBack
  BY <1>6, DeviceComesInv, ServerBackInv
<1>7. CASE UNCHANGED vars
  <2>1. TypeOK'
    BY <1>7 DEF vars, IInv, TypeOK
  <2>2. LoadControl' /\ CurrentControl'
    BY <1>7 DEF vars, IInv, LoadControl, InFlight, CurrentControl
  <2>3. SinkControl' /\ CompanionControl'
    BY <1>7 DEF vars, IInv, SinkControl, CompanionControl, Current, Replacing, Resolving
  <2>4. WaitingHasCause' /\ PauseControl'
    BY <1>7 DEF vars, IInv, WaitingHasCause, PauseControl, InFlight, Current, TellsPause
  <2> QED BY <2>1, <2>2, <2>3, <2>4 DEF IInv
<1> QED BY <1>1, <1>2, <1>3, <1>4, <1>5, <1>6, <1>7 DEF Next

\* Whatever the listener, the sinks, the companion and the server do, the loads, the
\* sinks and the join stay as the parts of IInv say.
THEOREM Inductive == Spec => []IInv
PROOF
<1>1. IInv /\ [Next]_vars => IInv'
  BY NextInv
<1> QED BY <1>1, InitInv, PTL DEF Spec

\* The state of the player stays of its types.
THEOREM TypeCorrect == Spec => []TypeOK
PROOF
<1>1. IInv => TypeOK
  BY DEF IInv
<1> QED BY <1>1, Inductive, PTL

\* A row that shows as loading has something that goes on with it (loadPending of
\* stores/player.ts over load.ts and queueJoin.ts), unless the listener dropped it.
THEOREM WaitsForACause == Spec => []WaitingHasCause
PROOF
<1>1. IInv => WaitingHasCause
  BY DEF IInv
<1> QED BY <1>1, Inductive, PTL

\* A pause the listener made is kept over loads, rejoins and recoveries (onPauseState,
\* retryOrFail and queueJoin.ts).
THEOREM PauseIsKept == Spec => []PauseKept
PROOF
<1>1. IInv => PauseKept
  BY DEF IInv, PauseControl, PauseKept
<1> QED BY <1>1, Inductive, PTL

\* The blob that sounds is the one the player holds and will revoke (localPlayUrl).
THEOREM BlobIsHeld == Spec => []BlobHeld
PROOF
<1>1. IInv => BlobHeld
  <2> SUFFICES ASSUME IInv, htm.playing, htm.local PROVE url = htm.row
    BY DEF BlobHeld
  <2>1. ~Current /\ (url = htm.row \/ Resolving)
    BY DEF IInv, SinkControl
  <2>2. Resolving => Current
    BY DEF Resolving, Current
  <2> QED BY <2>1, <2>2
<1> QED BY <1>1, Inductive, PTL

-----------------------------------------------------------------------------
(* The row asked for last is the one that begins to sound: LatestWins.     *)

\* Nothing begins to sound, or the row asked for does on the only sink heard.
Quieter == /\ htm'.playing => htm.playing /\ htm'.row = htm.row
           /\ dev'.on => dev.on /\ dev'.row = dev.row
Starts == /\ session = "queue" /\ index \in Row
          /\ session' = session /\ index' = index
          /\ \/ htm'.playing /\ htm'.row = index /\ ~dev'.on
             \/ dev'.on /\ dev'.row = index /\ ~htm'.playing

\* Once a load has acted behind another's back the promise is off for good.
LEMMA RacedStays ==
    ASSUME Next, raced
    PROVE  raced'
PROOF
<1>1. CASE \E l \in Loads : Step(l)
  BY <1>1 DEF Step, Resolve, GateOpens, GateShuts, Loaded, NotLoaded, Overtaken, ghosts
<1>2. CASE Clock \/ Report
  <2>1. CASE Delivered
    BY <2>1 DEF Delivered
  <2> QED BY <1>2, <2>1 DEF Clock, HoldElapses, TimerFires, Report, HtmlPauseTold, DevOpens,
             ghosts
<1>3. CASE Fault
  BY <1>3 DEF Fault, HtmlInterrupted, HtmlError, HtmlEnded, DevEnds, CompBlocked, LinkDrops,
     DeviceLost, ServerLost, ghosts
<1>4. CASE Listener
  <2>1. ASSUME NEW path, Skip(path) PROVE raced'
    BY <2>1 DEF Skip, Asked, ghosts
  <2>2. ASSUME NEW i, PlayRow(i) PROVE raced'
    BY <2>2 DEF PlayRow, Asked
  <2>3. Audible \/ PausePending \/ PauseNow => raced'
    BY DEF Audible, PausePending, PauseNow
  <2>4. ASSUME NEW w, Flip(w) PROVE raced'
    BY <2>4 DEF Flip
  <2>5. CASE TogglePlay \/ MediaPlay \/ MediaPause
    BY <2>5, <2>3, <2>4 DEF TogglePlay, MediaPlay, MediaPause
  <2>6. CASE StopPlayback \/ OtherSession \/ Reload \/ SetExclusive
    BY <2>6 DEF StopPlayback, OtherSession, Leave, Reload, SetExclusive
  <2> QED BY <1>4, <2>1, <2>2, <2>5, <2>6 DEF Listener
<1>5. CASE DeviceComes \/ ServerBack
  BY <1>5 DEF DeviceComes, ServerBack, ghosts
<1> QED BY <1>1, <1>2, <1>3, <1>4, <1>5 DEF Next

LEMMA PlayIndexQuiet ==
    ASSUME NEW on, NEW i, NEW paused, NEW clock, NEW j, PlayIndexOn(on, i, paused, clock, j),
           dev' = dev \/ dev' = NoDev
    PROVE  Quieter
BY SilentSays DEF PlayIndexOn, HtmlStopped, Quieter

LEMMA FailsQuiet ==
    ASSUME TypeOK, SinkControl, NEW l \in Loads, NEW hard, NEW p, NEW j, Fails(l, hard, p, j)
    PROVE  Quieter
PROOF
<1>1. CASE StopBoth
  BY <1>1, SilentSays DEF StopBoth, HtmlStopped, CompStopped, Quieter
<1>2. CASE PauseSink
  BY <1>2, PauseSinkSays DEF Quieter
<1>3. CASE UNCHANGED sinks
  BY <1>3 DEF sinks, Quieter
<1> QED BY <1>1, <1>2, <1>3 DEF Fails, FallBack, GiveUp, Retry

LEMMA EndedQuiet ==
    ASSUME TypeOK, NEW natural, Ended(natural), dev' = dev
    PROVE  Quieter
PROOF
<1>1. ASSUME NEW i, NEW j, PlayIndex(i, FALSE, FALSE, j) PROVE Quieter
  BY <1>1, PlayIndexQuiet DEF PlayIndex
<1>2. CASE htm' = [htm EXCEPT !.playing = FALSE]
  BY <1>2 DEF TypeOK, HtmRecord, Quieter
<1> QED BY <1>1, <1>2 DEF Ended

LEMMA StepSounds ==
    ASSUME IInv, NEW l \in Loads, Step(l), ~raced, ~raced'
    PROVE  Quieter \/ Starts
PROOF
<1>1. TypeOK /\ LoadControl /\ CurrentControl /\ SinkControl /\ CompanionControl
  BY DEF IInv
<1>2. CASE Resolve(l)
  <2>1. CASE StopBoth
    BY <2>1, SilentSays DEF StopBoth, HtmlStopped, CompStopped, Quieter
  <2>2. ASSUME NEW kind, Attempt(l, kind) PROVE Quieter
    <3> DEFINE here == kind = "downloaded"
    <3>1. here \in BOOLEAN
      OBVIOUS
    <3>2. \/ htm' = [Silent EXCEPT !.row = load[l].row, !.local = here]
          \/ htm' = Silent \/ htm' = htm
      BY <2>2 DEF Attempt, HtmlStopped
    <3> HIDE DEF here
    <3>3. dev' = NoDev \/ dev' = dev
      BY <2>2 DEF Attempt, CompStopped
    <3>4. htm'.playing => htm' = htm
      BY <3>2, <3>1, SilentSays DEF Silent
    <3> QED BY <3>3, <3>4, SilentSays DEF Quieter
  <2> QED BY <1>2, <2>1, <2>2 DEF Resolve
<1>3. CASE GateOpens(l)
  <2>1. load[l].cur /\ load[l].pc = "gate"
    BY <1>1, <1>3 DEF GateOpens, TypeOK
  <2>2. Current /\ session = "queue" /\ load[l].row = index /\ index \in Row /\ ~htm.playing
    BY <1>1, <2>1 DEF Current, CurrentControl, LoadControl, SinkControl
  <2> QED BY <1>3, <2>2 DEF GateOpens, Starts
<1>4. CASE GateShuts(l)
  BY <1>1, <1>4, FailsQuiet DEF GateShuts
<1>5. CASE NotLoaded(l)
  BY <1>1, <1>5, FailsQuiet DEF NotLoaded
<1>6. CASE Overtaken(l)
  BY <1>6 DEF Overtaken, sinks, Quieter
<1>7. CASE Loaded(l)
  <2>1. /\ session = "queue" /\ load[l].row = index /\ index \in Row /\ active = load[l].sink
        /\ load[l].sink = "html" => htm.row = index
        /\ session' = session /\ index' = index
    BY <1>1, <1>7 DEF Loaded, CurrentControl, LoadControl
  <2>2. CASE wantPaused /\ active # "html"
    BY <1>1, <1>7, <2>2, PauseSinkSays DEF Loaded, Quieter
  <2>3. CASE wantPaused /\ active = "html"
    BY <1>1, <1>7, <2>3 DEF Loaded, TypeOK, HtmRecord, Quieter
  <2>4. CASE ~wantPaused /\ active # "html"
    BY <1>7, <2>4 DEF Loaded, sinks, Quieter
  <2>5. CASE ~wantPaused /\ active = "html"
    <3>1. htm' = [htm EXCEPT !.playing = TRUE] /\ dev' = dev
      BY <1>7, <2>5 DEF Loaded
    <3>2. ~dev.on
      BY <1>1, <2>5 DEF SinkControl, CompanionControl
    <3>3. htm'.playing /\ htm'.row = index
      BY <1>1, <2>1, <2>5, <3>1
    <3> QED BY <2>1, <3>1, <3>2, <3>3 DEF Starts
  <2> QED BY <2>2, <2>3, <2>4, <2>5
<1> QED BY <1>2, <1>3, <1>4, <1>5, <1>6, <1>7 DEF Step

LEMMA AudibleSounds ==
    ASSUME IInv, Audible, ~pending, ~raced
    PROVE  Quieter \/ Starts
PROOF
<1>1. TypeOK /\ LoadControl /\ SinkControl /\ CompanionControl
  BY DEF IInv
<1>2. CASE ~(source \in {"streaming", "downloaded"} /\ index # NoRow)
  BY <1>2, PlayIndexQuiet DEF Audible, PlayIndex
<1>3. CASE source \in {"streaming", "downloaded"} /\ index # NoRow
  <2>1. ResumeSink /\ session' = session /\ index' = index
    BY <1>3 DEF Audible
  <2>2. session = "queue" /\ index \in Row
    BY <1>1, <1>3 DEF CompanionControl, LoadControl
  <2>3. ~Replacing
    BY <1>1 DEF CompanionControl, Replacing, Current
  <2>4. CASE active = "html"
    <3> DEFINE on == htm.row # NoRow
    <3>1. on \in BOOLEAN
      OBVIOUS
    <3>2. htm' = [htm EXCEPT !.playing = on] /\ dev' = dev
      BY <2>1, <2>4 DEF ResumeSink
    <3> HIDE DEF on
    <3>3. htm'.row = htm.row /\ htm'.playing = on
      BY <1>1, <3>1, <3>2
    <3>4. ~dev.on /\ (on => htm.row = index)
      BY <1>1, <2>4 DEF SinkControl, CompanionControl, on
    <3> QED BY <2>1, <2>2, <3>2, <3>3, <3>4 DEF Starts, Quieter
  <2>5. CASE active # "html"
    <3> DEFINE on == dev.row # NoRow
    <3>1. on \in BOOLEAN
      OBVIOUS
    <3>2. dev' = [dev EXCEPT !.on = on] /\ htm' = htm
      BY <2>1, <2>5 DEF ResumeSink
    <3> HIDE DEF on
    <3>3. dev'.row = dev.row /\ dev'.on = on
      BY <1>1, <3>1, <3>2
    <3>4. ~htm.playing /\ (on => dev.row = index)
      BY <1>1, <2>3, <2>5 DEF SinkControl, CompanionControl, on
    <3> QED BY <2>1, <2>2, <3>2, <3>3, <3>4 DEF Starts, Quieter
  <2> QED BY <2>4, <2>5
<1> QED BY <1>2, <1>3

\* Every step falls silent or starts the row that is asked for.
LEMMA NextSounds ==
    ASSUME IInv, Next, ~raced, ~raced'
    PROVE  Quieter \/ Starts
PROOF
<1>1. TypeOK /\ SinkControl /\ htm \in HtmRecord /\ dev \in DevRecord
  BY DEF IInv, TypeOK
<1>2. UNCHANGED <<htm, dev>> => Quieter
  BY DEF Quieter
<1>3. CASE \E l \in Loads : Step(l)
  BY <1>3, StepSounds
<1>4. CASE Clock
  BY <1>2, <1>4, PlayIndexQuiet DEF Clock, HoldElapses, TimerFires, PlayIndex, sinks
<1>5. CASE Report
  <2>1. CASE HtmlPauseTold
    BY <1>1, <2>1 DEF HtmlPauseTold, Quieter
  <2>2. CASE DevOpens
    BY <1>1, <2>2 DEF DevOpens, Quieter
  <2>3. CASE Delivered
    <3>1. dev' = dev /\ (htm' = htm \/ \E natural \in BOOLEAN : Ended(natural))
      <4> DEFINE e == Head(chan)
                 heard == comp.has /\ (e.kind \in {"eof", "error"} => source # "none")
      <4>1. dev' = dev
        BY <2>3 DEF Delivered
      <4>2. CASE heard /\ e.kind = "pause"
        BY <2>3, <4>2 DEF Delivered
      <4>3. CASE heard /\ e.kind = "eof"
        BY <2>3, <4>3 DEF Delivered
      <4>4. CASE heard /\ e.kind = "error"
        BY <2>3, <4>4 DEF Delivered, SoftError
      <4>5. CASE ~(heard /\ e.kind \in {"pause", "eof", "error"})
        BY <2>3, <4>5 DEF Delivered
      <4> QED BY <4>1, <4>2, <4>3, <4>4, <4>5
    <3> QED BY <1>1, <1>2, <3>1, EndedQuiet
  <2> QED BY <1>5, <2>1, <2>2, <2>3 DEF Report
<1>6. CASE Fault
  <2>1. CASE HtmlInterrupted
    BY <1>1, <2>1, HtmlPausedSays DEF HtmlInterrupted, Quieter
  <2>2. CASE HtmlError
    <3>1. CASE htm' = [htm EXCEPT !.playing = FALSE] /\ dev' = dev
      BY <1>1, <3>1 DEF HtmRecord, Quieter
    <3> QED BY <1>1, <2>2, <3>1, FailsQuiet DEF HtmlError
  <2>3. CASE HtmlEnded
    BY <1>1, <2>3, EndedQuiet DEF HtmlEnded
  <2>4. CASE dev' = NoDev /\ htm' = htm
    BY <2>4, SilentSays DEF Quieter
  <2>5. CASE ServerLost
    BY <1>2, <2>5 DEF ServerLost, sinks
  <2> QED BY <1>6, <2>1, <2>2, <2>3, <2>4, <2>5 DEF Fault, DevEnds, CompBlocked, LinkDrops,
             SoftError, DeviceLost
<1>7. CASE Listener
  <2>1. ASSUME NEW i \in Row, PlayRow(i) PROVE Quieter
    BY <2>1, PlayIndexQuiet DEF PlayRow, PlayIndex, Asked
  <2>2. ASSUME PauseSink PROVE Quieter
    BY <1>1, <2>2, PauseSinkSays DEF Quieter
  <2>3. ASSUME NEW path, Skip(path) PROVE Quieter
    BY <2>2, <2>3, PlayIndexQuiet DEF Skip, PlayIndex, Asked
  <2>4. CASE TogglePlay \/ MediaPlay \/ MediaPause
    <3>1. PauseNow => Quieter
      BY <2>2 DEF PauseNow
    <3>2. PausePending => Quieter
      BY <1>2 DEF PausePending, sinks
    <3>3. ASSUME NEW w, Flip(w) PROVE Quieter
      BY <1>2, <3>3 DEF Flip, sinks
    <3> QED BY <2>4, <3>1, <3>2, <3>3, AudibleSounds DEF TogglePlay, MediaPlay, MediaPause
  <2>5. CASE StopPlayback \/ OtherSession
    BY <1>2, <2>5, SilentSays DEF StopPlayback, OtherSession, Leave, StopBoth, HtmlStopped,
       CompStopped, sinks, Quieter
  <2>6. CASE Reload
    BY <2>6, PlayIndexQuiet DEF Reload, PlayIndex
  <2>7. CASE SetExclusive
    <3>1. dev' = dev \/ dev' = NoDev
      BY <2>7 DEF SetExclusive
    <3>2. CASE htm' = htm
      BY <3>1, <3>2, SilentSays DEF Quieter
    <3> QED BY <2>7, <3>1, <3>2, PlayIndexQuiet DEF SetExclusive
  <2> QED BY <1>7, <2>1, <2>3, <2>4, <2>5, <2>6, <2>7 DEF Listener
<1>8. CASE DeviceComes \/ ServerBack
  BY <1>2, <1>8 DEF DeviceComes, ServerBack, sinks
<1> QED BY <1>3, <1>4, <1>5, <1>6, <1>7, <1>8 DEF Next

\* A step of the player is a step of LatestWins or a stutter.
LEMMA LatestNext ==
    ASSUME IInv, IInv', [Next]_vars
    PROVE  [Latest!Next]_Latest!vars
PROOF
<1> DEFINE wanted == IF session = "queue" THEN index ELSE NoRow
           sounding == IF raced THEN {} ELSE Sounding
<1>1. wanted' \in Row \cup {NoRow}
  BY DEF IInv, TypeOK
<1>2. CASE UNCHANGED vars
  <2>1. wanted' = wanted /\ sounding' = sounding
    BY <1>2 DEF vars, Sounding
  <2> QED BY <2>1 DEF Latest!vars
<1>3. CASE Next /\ raced'
  <2>1. sounding' = {}
    BY <1>3
  <2> QED BY <1>1, <2>1 DEF Latest!Next, Latest!Ask
<1>4. CASE Next /\ ~raced'
  <2>1. ~raced
    BY <1>4, RacedStays
  <2>2. sounding' = Sounding' /\ sounding = Sounding
    BY <1>4, <2>1
  <2>3. CASE Quieter
    <3>1. Sounding' \subseteq Sounding
      BY <2>3 DEF Quieter, Sounding
    <3> QED BY <1>1, <2>2, <3>1 DEF Latest!Next, Latest!Ask
  <2>4. CASE Starts
    <3>1. wanted' = wanted /\ wanted \in Row /\ wanted # NoRow
      BY <2>4, BoundsAssumption DEF Starts, Row, NoRow
    <3>2. \E o \in Sink : Sounding' = {<<o, wanted>>}
      <4>1. CASE htm'.playing /\ htm'.row = index /\ ~dev'.on
        <5>1. Sounding' = {<<"html", wanted>>} /\ "html" \in Sink
          BY <2>4, <4>1 DEF Starts, Sounding, Sink
        <5> QED BY <5>1
      <4>2. CASE dev'.on /\ dev'.row = index /\ ~htm'.playing
        <5>1. Sounding' = {<<"companion", wanted>>} /\ "companion" \in Sink
          BY <2>4, <4>2 DEF Starts, Sounding, Sink
        <5> QED BY <5>1
      <4> QED BY <2>4, <4>1, <4>2 DEF Starts
    <3> QED BY <2>2, <3>1, <3>2 DEF Latest!Next, Latest!Start
  <2> QED BY <1>4, <2>1, <2>3, <2>4, NextSounds
<1> QED BY <1>2, <1>3, <1>4

\* What begins to sound is the row asked for last, on one sink (still(gen) of load.ts):
\* the player implements LatestWins until a load acts behind the back of another.
THEOREM LatestWinsHolds == Spec => LatestRowWins
PROOF
<1>1. Init => Latest!Init
  <2> SUFFICES ASSUME Init PROVE Latest!Init
    OBVIOUS
  <2>1. (IF session = "queue" THEN index ELSE NoRow) = NoRow
    BY DEF Init
  <2>2. Sounding = {}
    BY SilentSays DEF Init, Sounding
  <2> QED BY <2>1, <2>2 DEF Latest!Init
<1>2. IInv /\ IInv' /\ [Next]_vars => [Latest!Next]_Latest!vars
  BY LatestNext
<1> QED BY <1>1, <1>2, Inductive, PTL DEF Spec, LatestRowWins, Latest!Spec

=============================================================================
