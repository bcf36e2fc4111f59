------------------------------ MODULE ExclusiveHub ------------------------------
(***************************************************************************)
(* The Desktop companion: sessions that claim the exclusive output device  *)
(* (exclusive/session.py, app.py) and the mpv child that holds it          *)
(* (exclusive/mpv_player.py, volume.py).                                   *)
(*                                                                         *)
(* Every socket has a task that handles one message after the other and    *)
(* then the disconnect; one more task looks at the time to live.  Calls of *)
(* the player run in threads, so between two steps of a task the others go *)
(* on.  The hub's lock is held over the release of the device; all other   *)
(* bodies under it are single steps, in any order among its waiters.       *)
(***************************************************************************)
CONSTANTS
    Session,     \* session ids; one per browser tab
    Conn,        \* sockets
    Device,      \* output devices
    Ttl,         \* the task of _ttl_loop
    None

\* The messages that are handled in more than one step, and the re-arming.
Command == {"set_device", "rearm", "load", "auto", "release", "stop", "volume"}

ASSUME ExclusiveHubAssumption ==
    /\ None \notin Session \cup Conn \cup Device \cup Command
    /\ Ttl \notin Conn \cup {None}

VARIABLES
    clients,     \* session -> its current socket or None
    role,        \* the role of a session's current socket
    controller,  \* _controller_id
    reclaim,     \* _reclaim_id
    device,      \* _device_id
    rearm,       \* _rearm_device_id
    lock,        \* the task that holds the hub's lock over an await
    conn,        \* what each socket is: its ClientSession and its command
    pc,          \* where each task is
    mpv          \* the player

hub == <<clients, role, controller, reclaim>>
vars == <<clients, role, controller, reclaim, device, rearm, lock, conn, pc, mpv>>

Player == [child : {"down", "starting", "up", "dead", "closing", "late"},
           dev : Device \cup {None}, armed : Device \cup {None},
           url : BOOLEAN, wrote : SUBSET Device]
Socket == [sid : Session \cup {None}, open : BOOLEAN,
           cmd : Command \cup {None}, dev : Device \cup {None}]
Point == {"none", "idle", "start", "connect", "run", "after", "ask", "undo",
          "write", "release", "quit", "shut", "reset"}
Nobody == [sid |-> None, open |-> FALSE, cmd |-> None, dev |-> None]

TypeOK ==
    /\ clients \in [Session -> Conn \cup {None}]
    /\ role \in [Session -> {"controller", "readonly"}]
    /\ controller \in Session \cup {None}
    /\ reclaim \in Session \cup {None}
    /\ device \in Device \cup {None}
    /\ rearm \in Device \cup {None}
    /\ lock \in Conn \cup {Ttl, None}
    /\ conn \in [Conn -> Socket]
    /\ pc \in [Conn \cup {Ttl} -> Point]
    /\ mpv \in Player

Init ==
    /\ clients = [s \in Session |-> None]
    /\ role = [s \in Session |-> "readonly"]
    /\ controller = None /\ reclaim = None
    /\ device = None /\ rearm = None
    /\ lock = None
    /\ conn = [c \in Conn |-> Nobody]
    /\ pc = [t \in Conn \cup {Ttl} |-> IF t = Ttl THEN "idle" ELSE "none"]
    /\ mpv = [child |-> "down", dev |-> None, armed |-> None, url |-> FALSE, wrote |-> {}]

-----------------------------------------------------------------------------
(* The player.  dev is _device and the device of the volume tenure, which  *)
(* always change together; armed is what mpv holds exclusively; wrote are  *)
(* the devices whose hardware volume is not the user's (a volume can be    *)
(* read and restored).  Each operator is one body under the player's lock. *)
(* Without a connected child the commands to it raise, after the           *)
(* assignments before them.                                                *)

Up(p) == p.child = "up"

\* Mutant: the volume of the device that is left is not restored.
DeviceSetKeeps(p, d) ==
    [p EXCEPT !.dev = d, !.armed = IF Up(p) THEN d ELSE @,
              !.wrote = IF Up(p) THEN @ \cup {d} ELSE @]

\* set_device: restores the volume of another device and takes this one's.
DeviceSet(p, d) ==
    LET kept == p.wrote \cap {d} IN
    [p EXCEPT !.dev = d, !.armed = IF Up(p) THEN d ELSE @,
              !.wrote = IF Up(p) THEN kept \cup {d} ELSE kept]

\* ExclusiveVolume.apply
Applied(p) == [p EXCEPT !.wrote = IF p.dev = None THEN @ ELSE @ \cup {p.dev}]

Loaded(p) == IF Up(p) THEN [Applied(p) EXCEPT !.url = TRUE] ELSE [p EXCEPT !.url = TRUE]

\* release_device
Released(p) == [p EXCEPT !.url = FALSE, !.armed = None, !.wrote = @ \ {p.dev}, !.dev = None]

\* shutdown_process, up to the joins of its threads.
Torn(p) ==
    [p EXCEPT !.wrote = @ \ {p.dev}, !.dev = None, !.armed = None,
              !.child = IF @ = "down" THEN "down" ELSE "closing"]

-----------------------------------------------------------------------------
(* The claim.                                                              *)

Current(c) == conn[c].sid # None /\ clients[conn[c].sid] = c

\* _is_live_controller
LiveController(c) ==
    Current(c) /\ role[conn[c].sid] = "controller" /\ controller = conn[c].sid

\* Mutant: the claim that may be taken again is not forgotten.
HelloKeepsReclaim(c, s) ==
    LET free == controller \in {None, s}
        old == clients[s]
        sess == [Nobody EXCEPT !.sid = s, !.open = TRUE] IN
    /\ pc[c] = "none"
    /\ lock = None
    /\ pc' = [pc EXCEPT ![c] = "idle"]
    /\ clients' = [clients EXCEPT ![s] = c]
    /\ role' = [role EXCEPT ![s] = IF free THEN "controller" ELSE "readonly"]
    /\ conn' = [d \in Conn |-> IF d = c THEN sess
                               ELSE IF d = old THEN [conn[d] EXCEPT !.open = FALSE]
                               ELSE conn[d]]
    /\ controller' = IF free THEN s ELSE controller
    /\ UNCHANGED <<reclaim, device, rearm, lock, mpv>>

\* handle_connect_hello: the session is controller if nobody else is; the
\* socket it had before is closed and is no longer the session's.
Hello(c, s) ==
    LET free == controller \in {None, s}
        old == clients[s]
        sess == [Nobody EXCEPT !.sid = s, !.open = TRUE] IN
    /\ pc[c] = "none"
    /\ lock = None
    /\ pc' = [pc EXCEPT ![c] = "idle"]
    /\ clients' = [clients EXCEPT ![s] = c]
    /\ role' = [role EXCEPT ![s] = IF free THEN "controller" ELSE "readonly"]
    /\ conn' = [d \in Conn |-> IF d = c THEN sess
                               ELSE IF d = old THEN [conn[d] EXCEPT !.open = FALSE]
                               ELSE conn[d]]
    /\ controller' = IF free THEN s ELSE controller
    /\ reclaim' = IF free THEN None ELSE reclaim
    /\ UNCHANGED <<device, rearm, lock, mpv>>

\* The end of a command.  A re-arming goes on with the message it came with,
\* which is taken as the next one.
Handled(c) ==
    /\ pc' = [pc EXCEPT ![c] = "idle"]
    /\ conn' = [conn EXCEPT ![c] = [@ EXCEPT !.cmd = None, !.dev = None]]

\* An exception of the player is answered with an error; one of the
\* re-arming is caught by nobody before the endpoint, which disconnects.
Raised(c) ==
    /\ pc' = [pc EXCEPT ![c] = "idle"]
    /\ conn' = [conn EXCEPT ![c] = [@ EXCEPT !.cmd = None, !.dev = None,
                                             !.open = conn[c].open /\ conn[c].cmd # "rearm"]]

\* handle_message takes messages of the session's current socket only, those
\* sent before it was closed included.
Heard(c) ==
    /\ pc[c] = "idle"
    /\ lock = None
    /\ Current(c)

\* _promote_reclaim_unlocked: any message of the session that lost its claim
\* to the time to live claims again, if nobody else has, and re-arms the
\* device (_rearm_device).
Reclaim(c) ==
    LET s == conn[c].sid
        again == rearm # None IN
    /\ Heard(c)
    /\ controller = None /\ reclaim = s
    /\ controller' = s
    /\ reclaim' = None
    /\ role' = [role EXCEPT ![s] = "controller"]
    /\ conn' = [conn EXCEPT ![c] = [@ EXCEPT !.dev = rearm,
                                             !.cmd = IF again THEN "rearm" ELSE None]]
    /\ pc' = [pc EXCEPT ![c] = IF again THEN "start" ELSE "idle"]
    /\ UNCHANGED <<clients, device, rearm, lock, mpv>>

\* _handle_controller: a command of the controller.  A load with the device
\* held needs a selected one; "auto" is a load that gives the hold up first.
Obey(c, cmd, d) ==
    /\ Heard(c)
    /\ LiveController(c)
    /\ cmd = "set_device" <=> d # None
    /\ cmd = "load" => device # None
    /\ conn' = [conn EXCEPT ![c] = [@ EXCEPT !.cmd = cmd, !.dev = d]]
    /\ pc' = [pc EXCEPT ![c] = IF cmd \in {"set_device", "load", "auto"} THEN "start" ELSE "run"]
    /\ UNCHANGED <<hub, device, rearm, lock, mpv>>

-----------------------------------------------------------------------------
(* A command in its thread.                                                *)

\* start, outside the player's lock: mpv may be missing.  A child that died
\* is not replaced, and during a shutdown start returns without a child.
Start(c) ==
    /\ pc[c] = "start"
    /\ \/ /\ mpv.child # "down"
          /\ pc' = [pc EXCEPT ![c] = "run"]
          /\ UNCHANGED <<conn, mpv>>
       \/ /\ mpv.child = "down"
          /\ mpv' = [mpv EXCEPT !.child = "starting"]
          /\ pc' = [pc EXCEPT ![c] = "connect"]
          /\ UNCHANGED conn
       \/ /\ mpv.child = "down"
          /\ Raised(c)
          /\ UNCHANGED mpv
    /\ UNCHANGED <<hub, device, rearm, lock>>

\* _connect_ipc: the child may not answer, or be shut down meanwhile.  A
\* connection made too late is to a child that is no more; while it is kept, no
\* other is started.
Connect(c) ==
    /\ pc[c] = "connect"
    /\ \/ /\ mpv.child \in {"starting", "up"}
          /\ mpv' = [mpv EXCEPT !.child = "up"]
          /\ pc' = [pc EXCEPT ![c] = "run"]
          /\ UNCHANGED conn
       \/ /\ ~Up(mpv)
          /\ mpv' = [mpv EXCEPT !.child = IF @ = "starting" THEN "dead" ELSE @]
          /\ Raised(c)
       \/ /\ mpv.child \in {"down", "closing"}
          /\ mpv' = [mpv EXCEPT !.child = IF @ = "down" THEN "dead" ELSE "late"]
          /\ Raised(c)
    /\ UNCHANGED <<hub, device, rearm, lock>>

RunSetDevice(c) ==
    /\ conn[c].cmd \in {"set_device", "rearm"}
    /\ mpv' = DeviceSet(mpv, conn[c].dev)
    /\ IF Up(mpv) THEN pc' = [pc EXCEPT ![c] = "after"] /\ UNCHANGED conn
                  ELSE Raised(c)

\* use_auto_output: the exclusive hold ends, the device is not forgotten.
RunAuto(c) ==
    /\ conn[c].cmd = "auto"
    /\ mpv' = [mpv EXCEPT !.armed = IF Up(mpv) THEN None ELSE @]
    /\ conn' = [conn EXCEPT ![c].cmd = "load"]
    /\ pc' = [pc EXCEPT ![c] = "start"]

RunLoad(c) ==
    /\ conn[c].cmd = "load"
    /\ mpv' = Loaded(mpv)
    /\ IF Up(mpv) THEN pc' = [pc EXCEPT ![c] = "after"] /\ UNCHANGED conn
                  ELSE Raised(c)

RunRelease(c) ==
    /\ conn[c].cmd = "release"
    /\ mpv' = Released(mpv)
    /\ pc' = [pc EXCEPT ![c] = "after"]
    /\ UNCHANGED conn

RunStop(c) ==
    /\ conn[c].cmd = "stop"
    /\ mpv' = [mpv EXCEPT !.url = FALSE]
    /\ pc' = [pc EXCEPT ![c] = "quit"]
    /\ UNCHANGED conn

\* set_volume writes the hardware, and nothing is undone if the claim is lost.
RunVolume(c) ==
    /\ conn[c].cmd = "volume"
    /\ mpv' = Applied(mpv)
    /\ Handled(c)

Run(c) ==
    /\ pc[c] = "run"
    /\ \/ RunSetDevice(c) \/ RunAuto(c) \/ RunLoad(c)
       \/ RunRelease(c) \/ RunStop(c) \/ RunVolume(c)
    /\ UNCHANGED <<hub, device, rearm, lock>>

-----------------------------------------------------------------------------
(* A command after its thread.                                             *)

\* _with_live
After(c) ==
    /\ pc[c] = "after"
    /\ lock = None
    /\ \/ /\ LiveController(c) /\ conn[c].cmd = "load"
          /\ Handled(c)
       \/ /\ LiveController(c) /\ conn[c].cmd # "load"
          /\ pc' = [pc EXCEPT ![c] = "write"]
          /\ UNCHANGED conn
       \/ /\ ~LiveController(c) /\ conn[c].cmd = "release"
          /\ Handled(c)
       \/ /\ ~LiveController(c) /\ conn[c].cmd # "release"
          /\ pc' = [pc EXCEPT ![c] = "ask"]
          /\ UNCHANGED conn
    /\ UNCHANGED <<hub, device, rearm, lock, mpv>>

\* Mutant: a command that has lost its claim leaves the player as it is.
AskNothing(c) ==
    /\ pc[c] = "ask"
    /\ lock = None
    /\ Handled(c)
    /\ UNCHANGED <<hub, device, rearm, lock, mpv>>

\* _should_undo_player: only when nobody else has claimed the device.
Ask(c) ==
    /\ pc[c] = "ask"
    /\ lock = None
    /\ IF controller = None THEN pc' = [pc EXCEPT ![c] = "undo"] /\ UNCHANGED conn
                            ELSE Handled(c)
    /\ UNCHANGED <<hub, device, rearm, lock, mpv>>

Undo(c) ==
    /\ pc[c] = "undo"
    /\ mpv' = Released(mpv)
    /\ Handled(c)
    /\ UNCHANGED <<hub, device, rearm, lock>>

\* The hub learns of the device.  A re-armed device is already in _rearm.
Write(c) ==
    /\ pc[c] = "write"
    /\ lock = None
    /\ device' = conn[c].dev
    /\ rearm' = IF conn[c].cmd = "rearm" THEN rearm ELSE conn[c].dev
    /\ IF conn[c].cmd = "release" THEN pc' = [pc EXCEPT ![c] = "quit"] /\ UNCHANGED conn
                                  ELSE Handled(c)
    /\ UNCHANGED <<hub, lock, mpv>>

-----------------------------------------------------------------------------
(* The end of a claim.                                                     *)

\* A task that is through with the player; the holder of the lock gives it
\* back, and its socket is gone.
Leave(t) ==
    \/ /\ t = Ttl
       /\ pc' = [pc EXCEPT ![t] = "idle"] /\ lock' = None
       /\ UNCHANGED conn
    \/ /\ t \in Conn /\ lock = t
       /\ pc' = [pc EXCEPT ![t] = "none"] /\ lock' = None
       /\ conn' = [conn EXCEPT ![t] = Nobody]
    \/ /\ t \in Conn /\ lock # t
       /\ Handled(t)
       /\ UNCHANGED lock

\* handle_disconnect, after the last message has been handled.
Disconnect(c) ==
    LET s == conn[c].sid IN
    /\ pc[c] = "idle" /\ ~conn[c].open
    /\ lock = None
    /\ clients' = IF Current(c) THEN [clients EXCEPT ![s] = None] ELSE clients
    /\ role' = IF Current(c) THEN [role EXCEPT ![s] = "readonly"] ELSE role
    /\ reclaim' = IF Current(c) /\ s \in {reclaim, controller} THEN None ELSE reclaim
    /\ IF Current(c) /\ controller = s
       THEN /\ controller' = None
            /\ lock' = c
            /\ pc' = [pc EXCEPT ![c] = "release"]
            /\ UNCHANGED conn
       ELSE /\ pc' = [pc EXCEPT ![c] = "none"]
            /\ conn' = [conn EXCEPT ![c] = Nobody]
            /\ UNCHANGED <<controller, lock>>
    /\ UNCHANGED <<device, rearm, mpv>>

\* _check_ttl: the controller was not heard of for CONTROLLER_TTL_S, and
\* nothing is loaded.  Time is not kept: this may be found at any moment.
Expire ==
    /\ pc[Ttl] = "idle"
    /\ lock = None
    /\ controller # None
    /\ ~mpv.url
    /\ role' = [role EXCEPT ![controller] = "readonly"]
    /\ reclaim' = controller
    /\ rearm' = IF device # None THEN device ELSE rearm
    /\ controller' = None
    /\ lock' = Ttl
    /\ pc' = [pc EXCEPT ![Ttl] = "release"]
    /\ UNCHANGED <<clients, device, conn, mpv>>

\* _ensure_no_controller_exclusive, under the lock.
Release(t) ==
    /\ pc[t] = "release"
    /\ mpv' = Released(mpv)
    /\ device' = None
    /\ pc' = [pc EXCEPT ![t] = "quit"]
    /\ UNCHANGED <<hub, rearm, lock, conn>>

\* _shutdown_player_if_idle: it looks, and acts on what it saw.
Quit(t) ==
    /\ pc[t] = "quit"
    /\ IF device = None /\ ~mpv.url
       THEN pc' = [pc EXCEPT ![t] = "shut"] /\ UNCHANGED <<conn, lock>>
       ELSE Leave(t)
    /\ UNCHANGED <<hub, device, rearm, mpv>>

Shut(t) ==
    /\ pc[t] = "shut"
    /\ mpv' = Torn(mpv)
    /\ IF mpv.child \in {"down", "closing", "late"}
       THEN Leave(t)
       ELSE pc' = [pc EXCEPT ![t] = "reset"] /\ UNCHANGED <<conn, lock>>
    /\ UNCHANGED <<hub, device, rearm>>

\* The threads are joined, and start may run again.
Reset(t) ==
    /\ pc[t] = "reset"
    /\ mpv' = [mpv EXCEPT !.child = IF @ = "late" THEN "dead" ELSE "down"]
    /\ Leave(t)
    /\ UNCHANGED <<hub, device, rearm>>

-----------------------------------------------------------------------------
(* The world.                                                              *)

\* The peer closes the socket or disappears.
SocketCloses(c) ==
    /\ pc[c] # "none" /\ conn[c].open
    /\ conn' = [conn EXCEPT ![c].open = FALSE]
    /\ UNCHANGED <<hub, device, rearm, lock, pc, mpv>>

\* The mpv child dies; the system takes the device back.
ChildDies ==
    /\ Up(mpv)
    /\ mpv' = [mpv EXCEPT !.child = "dead", !.armed = None]
    /\ UNCHANGED <<hub, device, rearm, lock, conn, pc>>

\* mpv says audio-reconfig: the volume is written again.
AudioReconfig ==
    /\ Up(mpv)
    /\ mpv' = Applied(mpv)
    /\ UNCHANGED <<hub, device, rearm, lock, conn, pc>>

Handle(c) ==
    \/ Start(c) \/ Connect(c) \/ Run(c) \/ After(c) \/ Ask(c) \/ Undo(c) \/ Write(c)

Finish(t) == Release(t) \/ Quit(t) \/ Shut(t) \/ Reset(t)

Next ==
    \/ \E c \in Conn :
           \/ \E s \in Session : Hello(c, s)
           \/ Reclaim(c)
           \/ \E cmd \in Command \ {"rearm"}, d \in Device \cup {None} : Obey(c, cmd, d)
           \/ Handle(c) \/ Disconnect(c)
           \/ SocketCloses(c)
    \/ \E t \in Conn \cup {Ttl} : Finish(t)
    \/ Expire \/ ChildDies \/ AudioReconfig

Spec == Init /\ [][Next]_vars

-----------------------------------------------------------------------------
(* Properties.                                                             *)

\* The controller is a connected session whose current socket has the role,
\* and no other current socket has it, however sockets are replaced, closed
\* and timed out; who may claim again is connected and nobody has claimed.
OneController ==
    /\ \A s \in Session : clients[s] # None => conn[clients[s]].sid = s
    /\ \A s \in Session :
           controller = s <=> clients[s] # None /\ role[s] = "controller"
    /\ reclaim # None => controller = None /\ clients[reclaim] # None

Takes == {"set_device", "rearm", "load", "auto"}

\* A command that may take the device or play, until it has seen that its
\* session still has the claim or has been undone.
Taking(c) ==
    /\ conn[c].cmd \in Takes
    /\ pc[c] \in {"start", "connect", "run", "after", "ask", "undo"}

\* Once nobody controls, no such command is on its way and no release is due,
\* the device is free: nothing holds it and nothing plays, whatever was in a
\* thread when the claim was lost.
FreeIsReleased ==
    /\ controller = None
    /\ \A c \in Conn : ~Taking(c)
    /\ \A t \in Conn \cup {Ttl} : pc[t] # "release"
    => mpv.armed = None /\ (Up(mpv) => ~mpv.url)

\* Only the volume of the device that is set is not the user's: leaving a
\* device, releasing it and quitting restore it.
VolumeRestored ==
    /\ mpv.wrote \subseteq {mpv.dev}
    /\ mpv.armed \in {mpv.dev, None}

-----------------------------------------------------------------------------
(* What these rest on.                                                     *)

\* An idle socket has no command, one that takes a device names it, and only
\* a command that takes the device or plays starts a child.
CommandNamesDevice ==
    \A c \in Conn :
        /\ pc[c] \in {"none", "idle"} => conn[c].cmd = None
        /\ conn[c].cmd \in {"set_device", "rearm"} => conn[c].dev # None
        /\ pc[c] \in {"start", "connect"} => conn[c].cmd \in Takes

\* A session's current socket is being served, and is not the one whose
\* disconnect holds the lock.
SocketsServed ==
    \A s \in Session :
        clients[s] # None => pc[clients[s]] # "none" /\ lock # clients[s]

\* A child that is being shut down is waited for by one task, and only a
\* connected child holds a device.
ChildShutOnce ==
    /\ \A t, u \in Conn \cup {Ttl} : pc[t] = "reset" /\ pc[u] = "reset" => t = u
    /\ \A t \in Conn \cup {Ttl} : pc[t] = "reset" => mpv.child \in {"closing", "late"}
    /\ mpv.armed # None => Up(mpv)

\* The invariant that the proofs show to be inductive.
IInv ==
    /\ TypeOK /\ CommandNamesDevice
    /\ OneController /\ SocketsServed
    /\ VolumeRestored /\ ChildShutOnce
    /\ FreeIsReleased
=============================================================================
