---------------------------- MODULE CompanionProofs ----------------------------
(***************************************************************************)
(* Proofs about the companion.  Of ExclusiveHub: one session controls, and *)
(* a device that nobody controls is free, for any sessions, sockets and    *)
(* devices.  Of OpticalSession, which the hub serves and which shares no   *)
(* state with it: a disc that stayed is not reported gone, for any discs.  *)
(* Of CddaReader, the live WAV of a track: its ring is the track while one *)
(* thread at a time fills it, for any track and any ring.                  *)
(***************************************************************************)
EXTENDS ExclusiveHub, Naturals, Sequences, TLAPS

\* The parts of the next-state relation, as the proofs split it.
SocketStep(c) ==
    \/ \E s \in Session : Hello(c, s)
    \/ Reclaim(c)
    \/ \E cmd \in Command \ {"rearm"}, d \in Device \cup {None} : Obey(c, cmd, d)
    \/ Start(c) \/ Connect(c) \/ Run(c) \/ After(c) \/ Ask(c) \/ Undo(c) \/ Write(c)
    \/ Disconnect(c) \/ SocketCloses(c)

LEMMA NextCases ==
    ASSUME Next
    PROVE  \/ \E c \in Conn : SocketStep(c)
           \/ \E t \in Conn \cup {Ttl} : Release(t) \/ Quit(t) \/ Shut(t) \/ Reset(t)
           \/ Expire \/ ChildDies \/ AudioReconfig
PROOF BY DEF Next, Handle, Finish, SocketStep

-----------------------------------------------------------------------------
(* Types.                                                                  *)

LEMMA TypeInit == Init => TypeOK
PROOF BY ExclusiveHubAssumption DEF Init, TypeOK, Nobody, Player, Socket, Point, Command

\* The player stays a player, whatever a command does to it.
LEMMA PlayerTypes ==
    ASSUME NEW p \in Player
    PROVE  /\ \A d \in Device : DeviceSet(p, d) \in Player
           /\ Applied(p) \in Player
           /\ Loaded(p) \in Player
           /\ Released(p) \in Player
           /\ Torn(p) \in Player
PROOF
<1>1. ASSUME NEW d \in Device PROVE DeviceSet(p, d) \in Player
  <2>1. CASE Up(p)
    BY <2>1 DEF Player, DeviceSet
  <2>2. CASE ~Up(p)
    BY <2>2 DEF Player, DeviceSet
  <2> QED BY <2>1, <2>2
<1>2. Applied(p) \in Player
    BY DEF Player, Applied
<1>3. Loaded(p) \in Player
    BY <1>2 DEF Player, Loaded
<1>4. Released(p) \in Player
    BY DEF Player, Released
<1>5. Torn(p) \in Player
    BY DEF Player, Torn
<1> QED BY <1>1, <1>2, <1>3, <1>4, <1>5

\* So do the sockets and the places of the tasks when a command ends.
LEMMA EndTypes ==
    ASSUME TypeOK, NEW t \in Conn \cup {Ttl},
           Leave(t) \/ (t \in Conn /\ (Handled(t) \/ Raised(t)))
    PROVE  conn' \in [Conn -> Socket] /\ pc' \in [Conn \cup {Ttl} -> Point]
PROOF
<1>1. CASE t \in Conn /\ Handled(t)
  <2> DEFINE k == [conn[t] EXCEPT !.cmd = None, !.dev = None]
  <2>0. conn[t] \in Socket
    BY <1>1 DEF TypeOK
  <2>1. k \in Socket
    BY <2>0 DEF Socket
  <2>2. conn' = [conn EXCEPT ![t] = k] /\ pc' = [pc EXCEPT ![t] = "idle"]
    BY <1>1 DEF Handled
  <2> HIDE DEF k
  <2> QED BY <1>1, <2>1, <2>2 DEF TypeOK, Point
<1>2. CASE t \in Conn /\ Raised(t)
  <2> DEFINE k == [conn[t] EXCEPT !.cmd = None, !.dev = None,
                                  !.open = conn[t].open /\ conn[t].cmd # "rearm"]
  <2>1. k \in Socket
    BY <1>2 DEF TypeOK, Socket
  <2>2. conn' = [conn EXCEPT ![t] = k] /\ pc' = [pc EXCEPT ![t] = "idle"]
    BY <1>2 DEF Raised
  <2> HIDE DEF k
  <2> QED BY <1>2, <2>1, <2>2 DEF TypeOK, Point
<1>3. CASE Leave(t)
  <2>1. Nobody \in Socket
    BY DEF Nobody, Socket
  <2>2. CASE UNCHANGED conn /\ pc' = [pc EXCEPT ![t] = "idle"]
    BY <2>2 DEF TypeOK, Point
  <2>3. CASE t \in Conn /\ pc' = [pc EXCEPT ![t] = "none"] /\ conn' = [conn EXCEPT ![t] = Nobody]
    BY <2>1, <2>3 DEF TypeOK, Point
  <2> QED BY <1>1, <1>3, <2>2, <2>3 DEF Leave
<1> QED BY <1>1, <1>2, <1>3

\* And a place that a step names is one.
LEMMA PointTypes ==
    ASSUME TypeOK, NEW t \in Conn \cup {Ttl}, NEW q \in Point, pc' = [pc EXCEPT ![t] = q]
    PROVE  pc' \in [Conn \cup {Ttl} -> Point]
PROOF BY DEF TypeOK

LEMMA SocketTypes ==
    ASSUME TypeOK, NEW c \in Conn, NEW k \in Socket, conn' = [conn EXCEPT ![c] = k]
    PROVE  conn' \in [Conn -> Socket]
PROOF BY DEF TypeOK

-----------------------------------------------------------------------------
\* A device that is set is one: TypeOK needs CommandNamesDevice.
LEMMA TypeStep == TypeOK /\ CommandNamesDevice /\ [Next]_vars => TypeOK'
PROOF
<1> SUFFICES ASSUME TypeOK, CommandNamesDevice, [Next]_vars PROVE TypeOK'
    OBVIOUS
<1> USE ExclusiveHubAssumption
<1>1. ASSUME NEW c \in Conn, NEW s \in Session, Hello(c, s) PROVE TypeOK'
  <2> DEFINE sess == [Nobody EXCEPT !.sid = s, !.open = TRUE]
  <2>1. sess \in Socket
    BY DEF Nobody, Socket
  <2>2. ASSUME NEW d \in Conn PROVE [conn[d] EXCEPT !.open = FALSE] \in Socket
    BY DEF TypeOK, Socket
  <2>3. ASSUME NEW d \in Conn PROVE conn[d] \in Socket
    BY DEF TypeOK
  <2>4. conn' \in [Conn -> Socket]
    BY <1>1, <2>1, <2>2, <2>3 DEF Hello
  <2>5. pc' \in [Conn \cup {Ttl} -> Point]
    BY <1>1, PointTypes DEF Hello, Point
  <2> QED BY <1>1, <2>4, <2>5 DEF Hello, TypeOK
<1>2. ASSUME NEW c \in Conn, Reclaim(c) PROVE TypeOK'
  <2> DEFINE k == [conn[c] EXCEPT !.dev = rearm,
                                  !.cmd = IF rearm # None THEN "rearm" ELSE None]
  <2>1. k \in Socket
    <3> DEFINE m == IF rearm # None THEN "rearm" ELSE None
    <3>1. m \in Command \cup {None} /\ rearm \in Device \cup {None} /\ conn[c] \in Socket
      BY DEF TypeOK, Command
    <3> HIDE DEF m
    <3>2. [conn[c] EXCEPT !.dev = rearm, !.cmd = m] \in Socket
      BY <3>1 DEF Socket
    <3> QED BY <3>2 DEF m
  <2>2. conn' \in [Conn -> Socket]
    BY <1>2, <2>1, SocketTypes DEF Reclaim
  <2>3. pc' \in [Conn \cup {Ttl} -> Point]
    BY <1>2, PointTypes DEF Reclaim, Point
  <2>4. conn[c].sid \in Session
    BY <1>2 DEF Reclaim, Heard, Current, TypeOK, Socket
  <2> QED BY <1>2, <2>2, <2>3, <2>4 DEF Reclaim, TypeOK
<1>3. CASE AudioReconfig
    BY <1>3, PlayerTypes DEF AudioReconfig, TypeOK, hub
<1>4. ASSUME NEW c \in Conn, NEW cmd \in Command \ {"rearm"}, NEW d \in Device \cup {None},
             Obey(c, cmd, d)
      PROVE  TypeOK'
  <2>1. [conn[c] EXCEPT !.cmd = cmd, !.dev = d] \in Socket
    BY DEF TypeOK, Socket
  <2>2. conn' \in [Conn -> Socket]
    BY <1>4, <2>1, SocketTypes DEF Obey
  <2>3. pc' \in [Conn \cup {Ttl} -> Point]
    BY <1>4, PointTypes DEF Obey, Point
  <2> QED BY <1>4, <2>2, <2>3 DEF Obey, TypeOK, hub
<1>5. ASSUME NEW c \in Conn, Start(c) PROVE TypeOK'
  <2>1. mpv' \in Player
    BY <1>5 DEF Start, TypeOK, Player
  <2>2. conn' \in [Conn -> Socket] /\ pc' \in [Conn \cup {Ttl} -> Point]
    BY <1>5, PointTypes, EndTypes DEF Start, Point, TypeOK
  <2> QED BY <1>5, <2>1, <2>2 DEF Start, TypeOK, hub
<1>6. ASSUME NEW c \in Conn, Connect(c) PROVE TypeOK'
  <2>1. mpv' \in Player
    BY <1>6 DEF Connect, TypeOK, Player
  <2>2. conn' \in [Conn -> Socket] /\ pc' \in [Conn \cup {Ttl} -> Point]
    BY <1>6, PointTypes, EndTypes DEF Connect, Point, TypeOK
  <2> QED BY <1>6, <2>1, <2>2 DEF Connect, TypeOK, hub
<1>7. ASSUME NEW c \in Conn, Run(c) PROVE TypeOK'
  <2>1. ASSUME mpv' \in Player, conn' \in [Conn -> Socket], pc' \in [Conn \cup {Ttl} -> Point]
        PROVE  TypeOK'
    BY <1>7, <2>1 DEF Run, TypeOK, hub
  <2> HIDE DEF TypeOK
  <2>2. CASE RunSetDevice(c)
    <3>1. conn[c].dev \in Device
      BY <2>2 DEF RunSetDevice, CommandNamesDevice, TypeOK, Socket
    <3>2. mpv' \in Player
      BY <2>2, <3>1, PlayerTypes DEF RunSetDevice, TypeOK
    <3>3. conn' \in [Conn -> Socket] /\ pc' \in [Conn \cup {Ttl} -> Point]
      BY <2>2, PointTypes, EndTypes DEF RunSetDevice, Point, TypeOK
    <3> QED BY <2>1, <3>2, <3>3
  <2>3. CASE RunAuto(c)
    <3>1. [conn[c] EXCEPT !.cmd = "load"] \in Socket
      BY DEF TypeOK, Socket, Command
    <3>2. conn' \in [Conn -> Socket]
      BY <2>3, <3>1, SocketTypes DEF RunAuto
    <3>3. mpv' \in Player
      BY <2>3 DEF RunAuto, TypeOK, Player
    <3> QED BY <2>1, <2>3, <3>2, <3>3, PointTypes DEF RunAuto, Point
  <2>4. CASE RunLoad(c)
    <3>1. mpv' \in Player
      BY <2>4, PlayerTypes DEF RunLoad, TypeOK
    <3>2. conn' \in [Conn -> Socket] /\ pc' \in [Conn \cup {Ttl} -> Point]
      BY <2>4, PointTypes, EndTypes DEF RunLoad, Point, TypeOK
    <3> QED BY <2>1, <3>1, <3>2
  <2>5. CASE RunRelease(c)
    <3>1. mpv' \in Player
      BY <2>5, PlayerTypes DEF RunRelease, TypeOK
    <3>2. conn' \in [Conn -> Socket] /\ pc' \in [Conn \cup {Ttl} -> Point]
      BY <2>5, PointTypes DEF RunRelease, Point, TypeOK
    <3> QED BY <2>1, <3>1, <3>2
  <2>6. CASE RunStop(c)
    <3>1. mpv' \in Player
      BY <2>6 DEF RunStop, TypeOK, Player
    <3>2. conn' \in [Conn -> Socket] /\ pc' \in [Conn \cup {Ttl} -> Point]
      BY <2>6, PointTypes DEF RunStop, Point, TypeOK
    <3> QED BY <2>1, <3>1, <3>2
  <2>7. CASE RunVolume(c)
    BY <2>1, <2>7, PlayerTypes, EndTypes DEF RunVolume, TypeOK
  <2> QED BY <1>7, <2>2, <2>3, <2>4, <2>5, <2>6, <2>7 DEF Run
<1>8. ASSUME NEW c \in Conn, After(c) PROVE TypeOK'
  <2>1. conn' \in [Conn -> Socket] /\ pc' \in [Conn \cup {Ttl} -> Point]
    BY <1>8, PointTypes, EndTypes DEF After, Point, TypeOK
  <2> QED BY <1>8, <2>1 DEF After, TypeOK, hub
<1>9. ASSUME NEW c \in Conn, Ask(c) PROVE TypeOK'
  <2>1. conn' \in [Conn -> Socket] /\ pc' \in [Conn \cup {Ttl} -> Point]
    BY <1>9, PointTypes, EndTypes DEF Ask, Point, TypeOK
  <2> QED BY <1>9, <2>1 DEF Ask, TypeOK, hub
<1>10. ASSUME NEW c \in Conn, Undo(c) PROVE TypeOK'
    BY <1>10, PlayerTypes, EndTypes DEF Undo, TypeOK, hub
<1>11. ASSUME NEW c \in Conn, Write(c) PROVE TypeOK'
  <2>1. conn' \in [Conn -> Socket] /\ pc' \in [Conn \cup {Ttl} -> Point]
    BY <1>11, PointTypes, EndTypes DEF Write, Point, TypeOK
  <2>2. conn[c].dev \in Device \cup {None}
    BY DEF TypeOK, Socket
  <2> QED BY <1>11, <2>1, <2>2 DEF Write, TypeOK, hub
<1>12. ASSUME NEW c \in Conn, Disconnect(c) PROVE TypeOK'
  <2>1. Nobody \in Socket
    BY DEF Nobody, Socket
  <2>2. conn' \in [Conn -> Socket] /\ pc' \in [Conn \cup {Ttl} -> Point]
    BY <1>12, <2>1, PointTypes, SocketTypes DEF Disconnect, Point, TypeOK
  <2> QED BY <1>12, <2>2 DEF Disconnect, Current, TypeOK
<1>13. ASSUME NEW c \in Conn, SocketCloses(c) PROVE TypeOK'
  <2>1. [conn[c] EXCEPT !.open = FALSE] \in Socket
    BY DEF TypeOK, Socket
  <2>2. conn' \in [Conn -> Socket]
    BY <1>13, <2>1, SocketTypes DEF SocketCloses
  <2> QED BY <1>13, <2>2 DEF SocketCloses, TypeOK, hub
<1>14. ASSUME NEW t \in Conn \cup {Ttl}, Release(t) PROVE TypeOK'
  <2>1. pc' \in [Conn \cup {Ttl} -> Point]
    BY <1>14, PointTypes DEF Release, Point
  <2> QED BY <1>14, <2>1, PlayerTypes DEF Release, TypeOK, hub
<1>15. ASSUME NEW t \in Conn \cup {Ttl}, Quit(t) PROVE TypeOK'
  <2>1. conn' \in [Conn -> Socket] /\ pc' \in [Conn \cup {Ttl} -> Point]
    BY <1>15, PointTypes, EndTypes DEF Quit, Point, TypeOK
  <2>2. lock' \in Conn \cup {Ttl, None}
    BY <1>15 DEF Quit, Leave, TypeOK
  <2> QED BY <1>15, <2>1, <2>2 DEF Quit, TypeOK, hub
<1>16. ASSUME NEW t \in Conn \cup {Ttl}, Shut(t) PROVE TypeOK'
  <2>1. conn' \in [Conn -> Socket] /\ pc' \in [Conn \cup {Ttl} -> Point]
    BY <1>16, PointTypes, EndTypes DEF Shut, Point, TypeOK
  <2>2. lock' \in Conn \cup {Ttl, None}
    BY <1>16 DEF Shut, Leave, TypeOK
  <2> QED BY <1>16, <2>1, <2>2, PlayerTypes DEF Shut, TypeOK, hub
<1>17. ASSUME NEW t \in Conn \cup {Ttl}, Reset(t) PROVE TypeOK'
  <2>1. conn' \in [Conn -> Socket] /\ pc' \in [Conn \cup {Ttl} -> Point]
    BY <1>17, EndTypes DEF Reset
  <2>2. lock' \in Conn \cup {Ttl, None} /\ mpv' \in Player
    BY <1>17 DEF Reset, Leave, TypeOK, Player
  <2> QED BY <1>17, <2>1, <2>2 DEF Reset, TypeOK, hub
<1>18. CASE Expire
  <2>1. pc' \in [Conn \cup {Ttl} -> Point]
    BY <1>18, PointTypes DEF Expire, Point
  <2> QED BY <1>18, <2>1 DEF Expire, TypeOK
<1>19. CASE ChildDies
  <2>1. mpv' \in Player
    BY <1>19 DEF ChildDies, TypeOK, Player
  <2> QED BY <1>19, <2>1 DEF ChildDies, TypeOK, hub
<1>20. CASE UNCHANGED vars
    BY <1>20 DEF vars, TypeOK
<1> QED BY <1>1, <1>2, <1>3, <1>4, <1>5, <1>6, <1>7, <1>8, <1>9, <1>10, <1>11, <1>12,
           <1>13, <1>14, <1>15, <1>16, <1>17, <1>18, <1>19, <1>20, NextCases DEF SocketStep

-----------------------------------------------------------------------------
(* Commands.                                                               *)

\* A step that leaves every socket's command alone, or ends it, or only moves
\* its place between those that have a command.
LEMMA CommandQuiet ==
    ASSUME CommandNamesDevice,
           \A d \in Conn :
              \/ conn'[d].cmd = None /\ pc'[d] \notin {"start", "connect"}
              \/ /\ conn'[d].cmd = conn[d].cmd /\ conn'[d].dev = conn[d].dev
                 /\ \/ pc'[d] = pc[d] \/ pc'[d] \notin {"none", "idle", "start", "connect"}
                    \/ pc[d] = "start" /\ pc'[d] = "connect"
    PROVE  CommandNamesDevice'
PROOF BY ExclusiveHubAssumption DEF CommandNamesDevice, Command

LEMMA CommandEnds ==
    ASSUME TypeOK, CommandNamesDevice, NEW c \in Conn, Handled(c) \/ Raised(c)
    PROVE  CommandNamesDevice'
PROOF
<1>1. CASE Handled(c)
    BY <1>1, CommandQuiet DEF TypeOK, Socket, Handled
<1>2. CASE Raised(c)
    BY <1>2, CommandQuiet DEF TypeOK, Socket, Raised
<1> QED BY <1>1, <1>2

LEMMA CommandGoesOn ==
    ASSUME TypeOK, CommandNamesDevice, NEW t \in Conn \cup {Ttl},
           NEW q \in Point \ {"none", "idle", "start"}, q = "connect" => pc[t] = "start",
           UNCHANGED conn, pc' = [pc EXCEPT ![t] = q]
    PROVE  CommandNamesDevice'
PROOF BY CommandQuiet DEF TypeOK

LEMMA CommandStep == TypeOK /\ CommandNamesDevice /\ [Next]_vars => CommandNamesDevice'
PROOF
<1> SUFFICES ASSUME TypeOK, CommandNamesDevice, [Next]_vars PROVE CommandNamesDevice'
    OBVIOUS
<1> USE ExclusiveHubAssumption
<1>1. ASSUME NEW c \in Conn, NEW s \in Session, Hello(c, s) PROVE CommandNamesDevice'
    BY <1>1, CommandQuiet DEF Hello, TypeOK, Nobody, Socket
<1>2. ASSUME NEW c \in Conn, Reclaim(c) PROVE CommandNamesDevice'
    BY <1>2 DEF Reclaim, TypeOK, CommandNamesDevice, Socket, Command, Takes
<1>3. CASE AudioReconfig
    BY <1>3 DEF AudioReconfig, CommandNamesDevice
<1>4. ASSUME NEW c \in Conn, NEW cmd \in Command \ {"rearm"}, NEW d \in Device \cup {None},
             Obey(c, cmd, d)
      PROVE  CommandNamesDevice'
    BY <1>4 DEF Obey, TypeOK, CommandNamesDevice, Socket, Command, Takes
<1>5. ASSUME NEW c \in Conn, Start(c) PROVE CommandNamesDevice'
    BY <1>5, CommandEnds, CommandGoesOn DEF Start, Point
<1>6. ASSUME NEW c \in Conn, Connect(c) PROVE CommandNamesDevice'
    BY <1>6, CommandEnds, CommandGoesOn DEF Connect, Point
<1>7. ASSUME NEW c \in Conn, Run(c) PROVE CommandNamesDevice'
  <2>1. CASE RunSetDevice(c)
    BY <1>7, <2>1, CommandEnds, CommandGoesOn DEF RunSetDevice, Point
  <2>2. CASE RunAuto(c)
    BY <1>7, <2>2 DEF RunAuto, TypeOK, Socket, CommandNamesDevice, Command, Takes
  <2>3. CASE RunLoad(c)
    BY <1>7, <2>3, CommandEnds, CommandGoesOn DEF RunLoad, Point
  <2>4. CASE RunRelease(c) \/ RunStop(c)
    BY <1>7, <2>4, CommandGoesOn DEF RunRelease, RunStop, Point
  <2>5. CASE RunVolume(c)
    BY <2>5, CommandEnds DEF RunVolume
  <2> QED BY <1>7, <2>1, <2>2, <2>3, <2>4, <2>5 DEF Run
<1>8. ASSUME NEW c \in Conn, After(c) PROVE CommandNamesDevice'
    BY <1>8, CommandEnds, CommandGoesOn DEF After, Point
<1>9. ASSUME NEW c \in Conn, Ask(c) PROVE CommandNamesDevice'
    BY <1>9, CommandEnds, CommandGoesOn DEF Ask, Point
<1>10. ASSUME NEW c \in Conn, Undo(c) PROVE CommandNamesDevice'
    BY <1>10, CommandEnds, CommandGoesOn DEF Undo, Point
<1>11. ASSUME NEW c \in Conn, Write(c) PROVE CommandNamesDevice'
    BY <1>11, CommandEnds, CommandGoesOn DEF Write, Point
<1>12. ASSUME NEW c \in Conn, Disconnect(c) PROVE CommandNamesDevice'
    BY <1>12, CommandQuiet DEF Disconnect, TypeOK, Nobody
<1>13. ASSUME NEW c \in Conn, SocketCloses(c) PROVE CommandNamesDevice'
    BY <1>13, CommandQuiet DEF SocketCloses, TypeOK, Socket
<1>14. ASSUME NEW t \in Conn \cup {Ttl}, Leave(t) PROVE CommandNamesDevice'
  <2>1. CASE t = Ttl /\ pc' = [pc EXCEPT ![t] = "idle"] /\ UNCHANGED conn
    BY <2>1, CommandQuiet DEF TypeOK
  <2>2. CASE t \in Conn /\ pc' = [pc EXCEPT ![t] = "none"] /\ conn' = [conn EXCEPT ![t] = Nobody]
    BY <2>2, CommandQuiet DEF TypeOK, Nobody
  <2>3. CASE t \in Conn /\ Handled(t)
    BY <2>3, CommandEnds
  <2> QED BY <1>14, <2>1, <2>2, <2>3 DEF Leave
<1>16. ASSUME NEW t \in Conn \cup {Ttl}, Release(t) PROVE CommandNamesDevice'
    BY <1>16, CommandGoesOn DEF Release, Point
<1>17. ASSUME NEW t \in Conn \cup {Ttl}, Quit(t) PROVE CommandNamesDevice'
    BY <1>14, <1>17, CommandGoesOn DEF Quit, Point
<1>18. ASSUME NEW t \in Conn \cup {Ttl}, Shut(t) PROVE CommandNamesDevice'
    BY <1>14, <1>18, CommandGoesOn DEF Shut, Point
<1>19. ASSUME NEW t \in Conn \cup {Ttl}, Reset(t) PROVE CommandNamesDevice'
    BY <1>14, <1>19 DEF Reset
<1>20. CASE Expire
    BY <1>20, CommandGoesOn DEF Expire, Point
<1>21. CASE ChildDies \/ UNCHANGED vars
    BY <1>21 DEF ChildDies, vars, CommandNamesDevice
<1> QED BY <1>1, <1>2, <1>3, <1>4, <1>5, <1>6, <1>7, <1>8, <1>9, <1>10, <1>11, <1>12,
           <1>13, <1>16, <1>17, <1>18, <1>19, <1>20, <1>21, NextCases DEF SocketStep

-----------------------------------------------------------------------------
(* The claim.                                                              *)

\* A step that leaves the claim alone, gives the lock back at most, and does
\* not end a socket that is current.
LEMMA ClaimQuiet ==
    ASSUME OneController, SocketsServed,
           UNCHANGED hub, lock' \in {lock, None},
           \A s \in Session : clients[s] # None =>
               /\ conn'[clients[s]].sid = conn[clients[s]].sid
               /\ pc'[clients[s]] # "none"
    PROVE  OneController' /\ SocketsServed'
PROOF BY DEF OneController, SocketsServed, hub

\* The end of a command leaves its socket to its session.
LEMMA ClaimEnds ==
    ASSUME TypeOK, OneController, SocketsServed, UNCHANGED <<hub, lock>>,
           NEW c \in Conn, Handled(c) \/ Raised(c)
    PROVE  OneController' /\ SocketsServed'
PROOF
<1>1. /\ \A d \in Conn : conn'[d].sid = conn[d].sid
      /\ \A d \in Conn : pc[d] # "none" => pc'[d] # "none"
  <2>1. CASE Handled(c)
    BY <2>1 DEF TypeOK, Socket, Handled
  <2>2. CASE Raised(c)
    BY <2>2 DEF TypeOK, Socket, Raised
  <2> QED BY <2>1, <2>2
<1>2. \A s \in Session : clients[s] # None => clients[s] \in Conn
    BY DEF TypeOK
<1> QED BY <1>1, <1>2, ClaimQuiet DEF SocketsServed

\* So does a command that goes on.
LEMMA ClaimGoesOn ==
    ASSUME TypeOK, OneController, SocketsServed, UNCHANGED <<hub, lock>>,
           NEW t \in Conn \cup {Ttl}, NEW q \in Point \ {"none"},
           pc' = [pc EXCEPT ![t] = q],
           \A d \in Conn : conn'[d].sid = conn[d].sid
    PROVE  OneController' /\ SocketsServed'
PROOF
<1>1. \A d \in Conn : pc[d] # "none" => pc'[d] # "none"
    BY DEF TypeOK
<1>2. \A s \in Session : clients[s] # None => clients[s] \in Conn
    BY DEF TypeOK
<1> QED BY <1>1, <1>2, ClaimQuiet DEF SocketsServed

LEMMA ClaimLeaves ==
    ASSUME TypeOK, OneController, SocketsServed, UNCHANGED hub,
           NEW t \in Conn \cup {Ttl}, Leave(t)
    PROVE  OneController' /\ SocketsServed'
PROOF
<1>1. \A s \in Session : clients[s] # None => clients[s] \in Conn
    BY DEF TypeOK
<1>2. CASE t = Ttl /\ pc' = [pc EXCEPT ![t] = "idle"] /\ lock' = None /\ UNCHANGED conn
  <2>1. \A d \in Conn : pc'[d] = pc[d]
    BY <1>2, ExclusiveHubAssumption DEF TypeOK
  <2> QED BY <1>1, <1>2, <2>1, ClaimQuiet DEF SocketsServed
<1>3. CASE t \in Conn /\ lock = t /\ lock' = None
           /\ pc' = [pc EXCEPT ![t] = "none"] /\ conn' = [conn EXCEPT ![t] = Nobody]
  <2>1. \A s \in Session : clients[s] # t
    BY <1>3, ExclusiveHubAssumption DEF SocketsServed
  <2>2. \A d \in Conn \ {t} : conn'[d] = conn[d] /\ pc'[d] = pc[d]
    BY <1>3 DEF TypeOK
  <2> QED BY <1>1, <1>3, <2>1, <2>2, ClaimQuiet DEF SocketsServed
<1>4. CASE t \in Conn /\ Handled(t) /\ UNCHANGED lock
    BY <1>4, ClaimEnds
<1> QED BY <1>2, <1>3, <1>4 DEF Leave

\* A socket that says hello becomes its session's, and its controller if
\* nobody else is.
LEMMA ClaimHello ==
    ASSUME TypeOK, OneController, SocketsServed, NEW c \in Conn, NEW s \in Session, Hello(c, s)
    PROVE  OneController' /\ SocketsServed'
PROOF
<1>1. /\ clients' = [clients EXCEPT ![s] = c]
      /\ \A x \in Session \ {s} : clients[x] # None => clients[x] \in Conn \ {c}
      /\ c # None /\ lock' = None
    BY ExclusiveHubAssumption DEF Hello, TypeOK, SocketsServed
<1>2. conn'[c].sid = s /\ pc'[c] # "none"
    BY DEF Hello, Nobody, TypeOK
<1>3. \A d \in Conn \ {c} : conn'[d].sid = conn[d].sid /\ pc'[d] = pc[d]
    BY DEF Hello, TypeOK, Socket
<1>4. \A x \in Session : clients'[x] # None => conn'[clients'[x]].sid = x
    BY <1>1, <1>2, <1>3 DEF OneController, TypeOK
<1>5. SocketsServed'
    BY <1>1, <1>2, <1>3, ExclusiveHubAssumption DEF SocketsServed, TypeOK
<1>6. \A x \in Session : controller' = x <=> clients'[x] # None /\ role'[x] = "controller"
  <2>1. CASE controller \in {None, s}
    BY <1>1, <2>1, ExclusiveHubAssumption DEF Hello, OneController, TypeOK
  <2>2. CASE controller \notin {None, s}
    BY <1>1, <2>2, ExclusiveHubAssumption DEF Hello, OneController, TypeOK
  <2> QED BY <2>1, <2>2
<1>7. reclaim' # None => controller' = None /\ clients'[reclaim'] # None
    BY DEF Hello, OneController, TypeOK
<1> QED BY <1>4, <1>5, <1>6, <1>7 DEF OneController

\* A disconnect takes the session away only if the socket is its current one.
LEMMA ClaimDisconnect ==
    ASSUME TypeOK, OneController, SocketsServed, NEW c \in Conn, Disconnect(c)
    PROVE  OneController' /\ SocketsServed'
PROOF
<1>1. \A s \in Session : clients[s] = c => s = conn[c].sid
    BY ExclusiveHubAssumption DEF OneController
<1>2. \A s \in Session : clients'[s] # c /\ (clients'[s] # None => clients'[s] = clients[s])
  <2>1. CASE Current(c)
    BY <1>1, <2>1, ExclusiveHubAssumption DEF Disconnect, Current, TypeOK
  <2>2. CASE ~Current(c)
    BY <1>1, <2>2, ExclusiveHubAssumption DEF Disconnect, Current, TypeOK
  <2> QED BY <2>1, <2>2
<1>3. \A d \in Conn \ {c} : conn'[d] = conn[d] /\ pc'[d] = pc[d]
    BY DEF Disconnect, TypeOK
<1>4. \A s \in Session : clients'[s] # None => clients'[s] \in Conn \ {c}
    BY <1>2 DEF TypeOK
<1>5. lock' \in {None, c}
    BY DEF Disconnect
<1>6. SocketsServed' /\ \A s \in Session : clients'[s] # None => conn'[clients'[s]].sid = s
    BY <1>2, <1>3, <1>4, <1>5, ExclusiveHubAssumption DEF SocketsServed, OneController
<1>7. CASE Current(c)
  <2> DEFINE s == conn[c].sid
  <2>1. /\ s \in Session
        /\ clients' = [clients EXCEPT ![s] = None] /\ role' = [role EXCEPT ![s] = "readonly"]
    BY <1>7 DEF Disconnect, Current, TypeOK, Socket
  <2>2. controller' = IF controller = s THEN None ELSE controller
    BY <1>7 DEF Disconnect
  <2>3. \A x \in Session : controller' = x <=> clients'[x] # None /\ role'[x] = "controller"
    BY <2>1, <2>2, ExclusiveHubAssumption DEF OneController, TypeOK
  <2>4. reclaim' # None => controller' = None /\ clients'[reclaim'] # None
    BY <1>7, <2>1, <2>2 DEF Disconnect, OneController, TypeOK
  <2> QED BY <1>6, <2>3, <2>4 DEF OneController
<1>8. CASE ~Current(c)
    BY <1>6, <1>8 DEF Disconnect, OneController
<1> QED BY <1>7, <1>8

LEMMA ClaimExpire ==
    ASSUME TypeOK, OneController, SocketsServed, Expire
    PROVE  OneController' /\ SocketsServed'
PROOF
<1>1. controller \in Session /\ clients[controller] # None /\ controller # None
    BY DEF Expire, OneController, TypeOK
<1>2. \A d \in Conn : pc'[d] = pc[d]
    BY ExclusiveHubAssumption DEF Expire, TypeOK
<1>3. SocketsServed'
    BY <1>2, ExclusiveHubAssumption DEF Expire, SocketsServed, TypeOK
<1>4. \A x \in Session : controller' = x <=> clients'[x] # None /\ role'[x] = "controller"
    BY <1>1, ExclusiveHubAssumption DEF Expire, OneController, TypeOK
<1> QED BY <1>1, <1>3, <1>4 DEF Expire, OneController

LEMMA ClaimReclaim ==
    ASSUME TypeOK, OneController, SocketsServed, NEW c \in Conn, Reclaim(c)
    PROVE  OneController' /\ SocketsServed'
PROOF
<1> DEFINE s == conn[c].sid
<1>1. s \in Session /\ clients[s] = c /\ c # None
    BY ExclusiveHubAssumption DEF Reclaim, Heard, Current, TypeOK, Socket
<1>2. \A d \in Conn : conn'[d].sid = conn[d].sid
    BY DEF Reclaim, TypeOK, Socket
<1>3. \A d \in Conn : pc[d] # "none" => pc'[d] # "none"
    BY DEF Reclaim, TypeOK
<1>4. \A x \in Session : clients[x] # None => clients[x] \in Conn
    BY DEF TypeOK
<1>5. SocketsServed' /\ \A x \in Session : clients'[x] # None => conn'[clients'[x]].sid = x
    BY <1>2, <1>3, <1>4 DEF Reclaim, SocketsServed, OneController
<1>6. \A x \in Session : controller' = x <=> clients'[x] # None /\ role'[x] = "controller"
    BY <1>1, ExclusiveHubAssumption DEF Reclaim, OneController, TypeOK
<1> QED BY <1>5, <1>6 DEF Reclaim, OneController

LEMMA ClaimStep ==
    TypeOK /\ OneController /\ SocketsServed /\ [Next]_vars => OneController' /\ SocketsServed'
PROOF
<1> SUFFICES ASSUME TypeOK, OneController, SocketsServed, [Next]_vars
             PROVE  OneController' /\ SocketsServed'
    OBVIOUS
<1> DEFINE Holds == OneController' /\ SocketsServed'
<1>1. ASSUME NEW c \in Conn, NEW s \in Session, Hello(c, s) PROVE Holds
    BY <1>1, ClaimHello
<1>2. ASSUME NEW c \in Conn, Reclaim(c) PROVE Holds
    BY <1>2, ClaimReclaim
<1>3. CASE AudioReconfig
    BY <1>3, ClaimQuiet DEF AudioReconfig, SocketsServed
<1>4. ASSUME NEW c \in Conn, NEW cmd \in Command \ {"rearm"}, NEW d \in Device \cup {None},
             Obey(c, cmd, d)
      PROVE  Holds
  <2>1. \A x \in Conn : conn'[x].sid = conn[x].sid
    BY <1>4 DEF Obey, TypeOK, Socket
  <2>2. PICK q \in {"start", "run"} : pc' = [pc EXCEPT ![c] = q]
    BY <1>4 DEF Obey
  <2> QED BY <1>4, <2>1, <2>2, ClaimGoesOn DEF Obey, Point
<1>5. ASSUME NEW c \in Conn, Start(c) PROVE Holds
    BY <1>5, ClaimEnds, ClaimGoesOn DEF Start, Point
<1>6. ASSUME NEW c \in Conn, Connect(c) PROVE Holds
    BY <1>6, ClaimEnds, ClaimGoesOn DEF Connect, Point
<1>7. ASSUME NEW c \in Conn, Run(c) PROVE Holds
  <2>1. CASE RunSetDevice(c)
    BY <1>7, <2>1, ClaimEnds, ClaimGoesOn DEF Run, RunSetDevice, Point
  <2>2. CASE RunAuto(c)
    <3>1. \A x \in Conn : conn'[x].sid = conn[x].sid
      BY <2>2 DEF RunAuto, TypeOK, Socket
    <3> QED BY <1>7, <2>2, <3>1, ClaimGoesOn DEF Run, RunAuto, Point
  <2>3. CASE RunLoad(c)
    BY <1>7, <2>3, ClaimEnds, ClaimGoesOn DEF Run, RunLoad, Point
  <2>4. CASE RunRelease(c) \/ RunStop(c)
    BY <1>7, <2>4, ClaimGoesOn DEF Run, RunRelease, RunStop, Point
  <2>5. CASE RunVolume(c)
    BY <1>7, <2>5, ClaimEnds DEF Run, RunVolume
  <2> QED BY <1>7, <2>1, <2>2, <2>3, <2>4, <2>5 DEF Run
<1>8. ASSUME NEW c \in Conn, After(c) PROVE Holds
    BY <1>8, ClaimEnds, ClaimGoesOn DEF After, Point
<1>9. ASSUME NEW c \in Conn, Ask(c) PROVE Holds
    BY <1>9, ClaimEnds, ClaimGoesOn DEF Ask, Point
<1>10. ASSUME NEW c \in Conn, Undo(c) PROVE Holds
    BY <1>10, ClaimEnds DEF Undo
<1>11. ASSUME NEW c \in Conn, Write(c) PROVE Holds
    BY <1>11, ClaimEnds, ClaimGoesOn DEF Write, Point
<1>12. ASSUME NEW c \in Conn, Disconnect(c) PROVE Holds
    BY <1>12, ClaimDisconnect
<1>13. ASSUME NEW c \in Conn, SocketCloses(c) PROVE Holds
  <2>1. \A x \in Conn : conn'[x].sid = conn[x].sid
    BY <1>13 DEF SocketCloses, TypeOK, Socket
  <2>2. \A s \in Session : clients[s] # None => clients[s] \in Conn
    BY DEF TypeOK
  <2> QED BY <1>13, <2>1, <2>2, ClaimQuiet DEF SocketCloses, SocketsServed
<1>14. ASSUME NEW t \in Conn \cup {Ttl}, Release(t) PROVE Holds
    BY <1>14, ClaimGoesOn DEF Release, Point
<1>15. ASSUME NEW t \in Conn \cup {Ttl}, Quit(t) PROVE Holds
    BY <1>15, ClaimLeaves, ClaimGoesOn DEF Quit, Point
<1>16. ASSUME NEW t \in Conn \cup {Ttl}, Shut(t) PROVE Holds
    BY <1>16, ClaimLeaves, ClaimGoesOn DEF Shut, Point
<1>17. ASSUME NEW t \in Conn \cup {Ttl}, Reset(t) PROVE Holds
    BY <1>17, ClaimLeaves DEF Reset
<1>18. CASE Expire
    BY <1>18, ClaimExpire
<1>19. CASE ChildDies \/ UNCHANGED vars
    BY <1>19, ClaimQuiet DEF ChildDies, vars, hub, SocketsServed
<1> QED BY <1>1, <1>2, <1>3, <1>4, <1>5, <1>6, <1>7, <1>8, <1>9, <1>10, <1>11, <1>12,
           <1>13, <1>14, <1>15, <1>16, <1>17, <1>18, <1>19, NextCases DEF SocketStep

-----------------------------------------------------------------------------
(* The player.                                                             *)

\* A child that is being shut down.
Closing(p) == p.child \in {"closing", "late"}

LEMMA PlayerKept ==
    ASSUME NEW p \in Player, p.wrote \subseteq {p.dev}, p.armed \in {p.dev, None},
           p.armed # None => Up(p),
           NEW r, \/ \E d \in Device : r = DeviceSet(p, d)
                  \/ r \in {Applied(p), Loaded(p), Released(p), Torn(p)}
    PROVE  /\ r.wrote \subseteq {r.dev} /\ r.armed \in {r.dev, None}
           /\ r.armed # None => Up(r)
           /\ Closing(p) => Closing(r)
PROOF
<1>1. ASSUME NEW d \in Device, r = DeviceSet(p, d)
      PROVE  /\ r.wrote \subseteq {r.dev} /\ r.armed \in {r.dev, None}
             /\ r.armed # None => Up(r)
             /\ Closing(p) => Closing(r)
  <2>1. CASE Up(p)
    BY <1>1, <2>1 DEF DeviceSet, Player, Up, Closing
  <2>2. CASE ~Up(p)
    BY <1>1, <2>2 DEF DeviceSet, Player, Up, Closing
  <2> QED BY <2>1, <2>2
<1>2. CASE r = Applied(p)
    BY <1>2 DEF Applied, Player, Up, Closing
<1>3. CASE r = Loaded(p)
    BY <1>3 DEF Loaded, Applied, Player, Up, Closing
<1>4. CASE r = Released(p)
    BY <1>4 DEF Released, Player, Up, Closing
<1>5. CASE r = Torn(p)
    BY <1>5 DEF Torn, Player, Up, Closing
<1> QED BY <1>1, <1>2, <1>3, <1>4, <1>5

\* A step that leaves the player right and starts no shutdown.
LEMMA PlayerQuiet ==
    ASSUME ChildShutOnce,
           mpv'.wrote \subseteq {mpv'.dev}, mpv'.armed \in {mpv'.dev, None},
           mpv'.armed # None => Up(mpv'),
           \/ Closing(mpv) => Closing(mpv')
           \/ \A t \in Conn \cup {Ttl} : pc'[t] # "reset",
           \A t \in Conn \cup {Ttl} : pc'[t] = "reset" => pc[t] = "reset"
    PROVE  VolumeRestored' /\ ChildShutOnce'
PROOF BY DEF VolumeRestored, ChildShutOnce, Up, Closing

\* No command and no end of one starts a shutdown.
LEMMA NoReset ==
    ASSUME TypeOK, NEW t \in Conn \cup {Ttl},
           \/ \E q \in Point \ {"reset"} : pc' = [pc EXCEPT ![t] = q]
           \/ Leave(t) \/ (t \in Conn /\ (Handled(t) \/ Raised(t)))
    PROVE  /\ \A u \in Conn \cup {Ttl} : pc'[u] = "reset" => pc[u] = "reset"
           /\ pc'[t] # "reset"
PROOF
<1>1. PICK q \in Point \ {"reset"} : pc' = [pc EXCEPT ![t] = q]
    BY DEF Leave, Handled, Raised, Point
<1> QED BY <1>1 DEF TypeOK

LEMMA PlayerStep ==
    TypeOK /\ CommandNamesDevice /\ VolumeRestored /\ ChildShutOnce /\ [Next]_vars
        => VolumeRestored' /\ ChildShutOnce'
PROOF
<1> SUFFICES ASSUME TypeOK, CommandNamesDevice, VolumeRestored, ChildShutOnce, [Next]_vars
             PROVE  VolumeRestored' /\ ChildShutOnce'
    OBVIOUS
<1> DEFINE Holds == VolumeRestored' /\ ChildShutOnce'
<1>1. /\ mpv \in Player
      /\ mpv.wrote \subseteq {mpv.dev} /\ mpv.armed \in {mpv.dev, None}
      /\ mpv.armed # None => Up(mpv)
    BY DEF TypeOK, VolumeRestored, ChildShutOnce
<1>2. ASSUME NEW t \in Conn \cup {Ttl},
             \/ \E q \in Point \ {"reset"} : pc' = [pc EXCEPT ![t] = q]
             \/ Leave(t) \/ (t \in Conn /\ (Handled(t) \/ Raised(t))),
             \/ UNCHANGED mpv
             \/ \E d \in Device : mpv' = DeviceSet(mpv, d)
             \/ mpv' \in {Applied(mpv), Loaded(mpv), Released(mpv), Torn(mpv)}
      PROVE  Holds
    BY <1>1, <1>2, PlayerKept, NoReset, PlayerQuiet
<1>3. ASSUME UNCHANGED pc, mpv' \in {mpv, Applied(mpv)} PROVE Holds
    BY <1>1, <1>3, PlayerKept, PlayerQuiet
<1>4. ASSUME NEW c \in Conn, NEW s \in Session, Hello(c, s) PROVE Holds
    BY <1>2, <1>4 DEF Hello, Point
<1>5. ASSUME NEW c \in Conn, Reclaim(c) PROVE Holds
  <2>1. pc' = [pc EXCEPT ![c] = "start"] \/ pc' = [pc EXCEPT ![c] = "idle"]
    BY <1>5 DEF Reclaim
  <2>2. \E q \in Point \ {"reset"} : pc' = [pc EXCEPT ![c] = q]
    BY <2>1 DEF Point
  <2>3. UNCHANGED mpv
    BY <1>5 DEF Reclaim
  <2> QED BY <1>2, <2>2, <2>3
<1>6. CASE AudioReconfig
    BY <1>3, <1>6 DEF AudioReconfig
<1>7. ASSUME NEW c \in Conn, NEW cmd \in Command \ {"rearm"}, NEW d \in Device \cup {None},
             Obey(c, cmd, d)
      PROVE  Holds
  <2>1. pc' = [pc EXCEPT ![c] = "start"] \/ pc' = [pc EXCEPT ![c] = "run"]
    BY <1>7 DEF Obey
  <2>2. \E q \in Point \ {"reset"} : pc' = [pc EXCEPT ![c] = q]
    BY <2>1 DEF Point
  <2>3. UNCHANGED mpv
    BY <1>7 DEF Obey
  <2> QED BY <1>2, <2>2, <2>3
<1>8. ASSUME NEW c \in Conn, Start(c) PROVE Holds
  <2>1. CASE mpv' = [mpv EXCEPT !.child = "starting"] /\ mpv.child = "down"
    <3>1. pc' = [pc EXCEPT ![c] = "connect"]
      BY <1>8, <2>1, <1>1 DEF Start, Player
    <3>2. /\ mpv'.wrote \subseteq {mpv'.dev} /\ mpv'.armed \in {mpv'.dev, None}
          /\ mpv'.armed # None => Up(mpv')
      BY <1>1, <2>1 DEF Player, Up
    <3> QED BY <2>1, <3>1, <3>2, NoReset, PlayerQuiet DEF Point, Closing
  <2>2. CASE UNCHANGED mpv
    BY <1>2, <1>8, <2>2 DEF Start, Point
  <2> QED BY <1>8, <2>1, <2>2 DEF Start
<1>9. ASSUME NEW c \in Conn, Connect(c) PROVE Holds
  <2>1. /\ mpv'.wrote \subseteq {mpv'.dev} /\ mpv'.armed \in {mpv'.dev, None}
        /\ mpv'.armed # None => Up(mpv')
        /\ Closing(mpv) => Closing(mpv')
    BY <1>1, <1>9 DEF Connect, Player, Up, Closing
  <2> QED BY <1>9, <2>1, NoReset, PlayerQuiet DEF Connect, Point
<1>10. ASSUME NEW c \in Conn, Run(c) PROVE Holds
  <2>1. CASE RunSetDevice(c)
    <3>1. conn[c].dev \in Device
      BY <2>1 DEF RunSetDevice, CommandNamesDevice, TypeOK, Socket
    <3> QED BY <1>2, <2>1, <3>1 DEF RunSetDevice, Point
  <2>2. CASE RunAuto(c)
    <3>1. /\ mpv'.wrote \subseteq {mpv'.dev} /\ mpv'.armed \in {mpv'.dev, None}
          /\ mpv'.armed # None => Up(mpv')
          /\ mpv'.child = mpv.child
      BY <1>1, <2>2 DEF RunAuto, Player, Up
    <3> QED BY <2>2, <3>1, NoReset, PlayerQuiet DEF RunAuto, Point, Closing
  <2>3. CASE RunLoad(c)
    BY <1>2, <2>3 DEF RunLoad, Point
  <2>4. CASE RunRelease(c)
    BY <1>2, <2>4 DEF RunRelease, Point
  <2>5. CASE RunStop(c)
    <3>1. /\ mpv'.wrote \subseteq {mpv'.dev} /\ mpv'.armed \in {mpv'.dev, None}
          /\ mpv'.armed # None => Up(mpv')
          /\ mpv'.child = mpv.child
      BY <1>1, <2>5 DEF RunStop, Player, Up
    <3> QED BY <2>5, <3>1, NoReset, PlayerQuiet DEF RunStop, Point, Closing
  <2>6. CASE RunVolume(c)
    BY <1>2, <2>6 DEF RunVolume
  <2> QED BY <1>10, <2>1, <2>2, <2>3, <2>4, <2>5, <2>6 DEF Run
<1>11. ASSUME NEW c \in Conn, After(c) \/ Ask(c) \/ Undo(c) \/ Write(c) PROVE Holds
  <2>1. Handled(c) \/ \E q \in Point \ {"reset"} : pc' = [pc EXCEPT ![c] = q]
    BY <1>11 DEF After, Ask, Undo, Write, Point
  <2>2. mpv' \in {mpv, Released(mpv)}
    BY <1>11 DEF After, Ask, Undo, Write
  <2> QED BY <1>2, <2>1, <2>2
<1>12. ASSUME NEW c \in Conn, Disconnect(c) PROVE Holds
    BY <1>2, <1>12 DEF Disconnect, Point
<1>13. ASSUME NEW c \in Conn, SocketCloses(c) PROVE Holds
    BY <1>3, <1>13 DEF SocketCloses
<1>14. ASSUME NEW t \in Conn \cup {Ttl}, Release(t) PROVE Holds
    BY <1>2, <1>14 DEF Release, Point
<1>15. ASSUME NEW t \in Conn \cup {Ttl}, Quit(t) PROVE Holds
    BY <1>2, <1>15 DEF Quit, Point
<1>16. ASSUME NEW t \in Conn \cup {Ttl}, Shut(t) PROVE Holds
  <2>1. CASE mpv.child \in {"down", "closing", "late"}
    BY <1>2, <1>16, <2>1 DEF Shut
  <2>2. CASE mpv.child \notin {"down", "closing", "late"}
    <3>1. \A u \in Conn \cup {Ttl} : pc[u] # "reset"
      BY <2>2 DEF ChildShutOnce
    <3>2. \A u \in Conn \cup {Ttl} : pc'[u] = "reset" => u = t
      BY <1>16, <2>2, <3>1 DEF Shut, TypeOK
    <3>3. mpv'.child = "closing"
      BY <1>1, <1>16, <2>2 DEF Shut, Torn, Player
    <3>4. mpv'.wrote \subseteq {mpv'.dev} /\ mpv'.armed \in {mpv'.dev, None}
          /\ (mpv'.armed # None => Up(mpv'))
      BY <1>1, <1>16, PlayerKept DEF Shut
    <3> QED BY <3>2, <3>3, <3>4 DEF VolumeRestored, ChildShutOnce
  <2> QED BY <2>1, <2>2
<1>17. ASSUME NEW t \in Conn \cup {Ttl}, Reset(t) PROVE Holds
  <2>1. mpv.child \in {"closing", "late"}
    BY <1>17 DEF Reset, ChildShutOnce
  <2>2. mpv'.wrote \subseteq {mpv'.dev} /\ mpv'.armed \in {mpv'.dev, None} /\ mpv'.armed = None
    BY <1>1, <1>17, <2>1 DEF Reset, Player, Up
  <2>3. \A u \in Conn \cup {Ttl} : pc'[u] = "reset" => pc[u] = "reset" /\ u # t
    BY <1>17, NoReset DEF Reset
  <2>4. \A u \in Conn \cup {Ttl} : pc'[u] # "reset"
    BY <1>17, <2>3 DEF Reset, ChildShutOnce
  <2> QED BY <2>2, <2>4, PlayerQuiet
<1>18. CASE Expire
    BY <1>2, <1>18 DEF Expire, Point
<1>19. CASE ChildDies
  <2>1. mpv'.wrote \subseteq {mpv'.dev} /\ mpv'.armed \in {mpv'.dev, None} /\ mpv'.armed = None
    BY <1>1, <1>19 DEF ChildDies, Player
  <2> QED BY <1>19, <2>1, PlayerQuiet DEF ChildDies, Up, Closing
<1>20. CASE UNCHANGED vars
    BY <1>3, <1>20 DEF vars
<1> QED BY <1>4, <1>5, <1>6, <1>7, <1>8, <1>9, <1>10, <1>11, <1>12, <1>13, <1>14,
           <1>15, <1>16, <1>17, <1>18, <1>19, <1>20, NextCases DEF SocketStep

-----------------------------------------------------------------------------
(* A device that nobody controls.                                          *)

\* The player is free when it holds nothing or cannot.
Free(p) == p.armed = None /\ (Up(p) => ~p.url)

\* Nobody controls and nothing that takes or owes a release is on its way.
Unclaimed ==
    /\ controller = None
    /\ \A c \in Conn : ~Taking(c)
    /\ \A t \in Conn \cup {Ttl} : pc[t] # "release"

LEMMA FreeUnfolds == FreeIsReleased <=> (Unclaimed => Free(mpv))
PROOF BY DEF FreeIsReleased, Unclaimed, Free

\* What frees the player: a release, a shutdown, a child that is not there.
LEMMA Frees ==
    ASSUME NEW p \in Player, p.armed # None => Up(p)
    PROVE  Free(Released(p)) /\ Free(Torn(p)) /\ (~Up(p) => Free(p))
PROOF BY DEF Player, Free, Released, Torn, Up

\* A task that takes nothing before its step and owes nothing after it adds
\* nothing to what makes the device unclaimed.
LEMMA UnclaimedBefore ==
    ASSUME TypeOK, NEW t \in Conn \cup {Ttl}, UNCHANGED controller,
           pc[t] # "release", t \in Conn => ~Taking(t),
           \A u \in Conn \cup {Ttl} : u # t => pc'[u] = pc[u],
           \A d \in Conn : d # t => conn'[d] = conn[d],
           Unclaimed'
    PROVE  Unclaimed
PROOF BY DEF Unclaimed, Taking

\* What a step does to the tasks other than its own.
LEMMA OthersKept ==
    ASSUME TypeOK, NEW t \in Conn \cup {Ttl},
           \/ \E q \in Point : pc' = [pc EXCEPT ![t] = q] /\ UNCHANGED conn
           \/ Leave(t) \/ (t \in Conn /\ (Handled(t) \/ Raised(t)))
    PROVE  /\ \A u \in Conn \cup {Ttl} : u # t => pc'[u] = pc[u]
           /\ \A d \in Conn : d # t => conn'[d] = conn[d]
PROOF BY DEF TypeOK, Leave, Handled, Raised

LEMMA FreeStep ==
    TypeOK /\ CommandNamesDevice /\ OneController /\ ChildShutOnce /\ FreeIsReleased
    /\ [Next]_vars => FreeIsReleased'
PROOF
<1> SUFFICES ASSUME TypeOK, CommandNamesDevice, OneController, ChildShutOnce,
                    FreeIsReleased, [Next]_vars, Unclaimed'
             PROVE  Free(mpv')
    BY DEF FreeIsReleased, Unclaimed, Free
<1>1. mpv \in Player /\ (mpv.armed # None => Up(mpv)) /\ (Unclaimed => Free(mpv))
    BY FreeUnfolds DEF TypeOK, ChildShutOnce
<1>2. controller' = None
    BY DEF Unclaimed
<1>3. ASSUME NEW c \in Conn, LiveController(c) PROVE controller # None
    BY <1>3 DEF LiveController, Current
<1>4. ASSUME NEW c \in Conn, NEW s \in Session, Hello(c, s) PROVE FALSE
    BY <1>2, <1>4, ExclusiveHubAssumption DEF Hello
<1>5. ASSUME NEW c \in Conn, Reclaim(c) PROVE FALSE
    BY <1>2, <1>5 DEF Reclaim, Heard, Current
<1>6. CASE AudioReconfig
  <2>1. Unclaimed
    BY <1>6 DEF AudioReconfig, Unclaimed, Taking, hub
  <2> QED BY <1>1, <1>6, <2>1 DEF AudioReconfig, Applied, Free, Up, Player
<1>7. ASSUME NEW c \in Conn, NEW cmd \in Command \ {"rearm"}, NEW d \in Device \cup {None},
             Obey(c, cmd, d)
      PROVE  FALSE
    BY <1>2, <1>3, <1>7 DEF Obey, hub
<1>8. ASSUME NEW c \in Conn, NEW q \in {"run", "connect", "after", "ask", "undo", "start"},
             UNCHANGED conn, pc' = [pc EXCEPT ![c] = q],
             conn[c].cmd \in Takes
      PROVE  FALSE
    BY <1>8 DEF Unclaimed, Taking, TypeOK
<1>9. ASSUME NEW t \in Conn \cup {Ttl}, UNCHANGED <<controller, mpv>>,
             pc[t] # "release", t \in Conn => ~Taking(t),
             \/ \E q \in Point : pc' = [pc EXCEPT ![t] = q] /\ UNCHANGED conn
             \/ Leave(t) \/ (t \in Conn /\ (Handled(t) \/ Raised(t)))
      PROVE  Free(mpv')
    BY <1>1, <1>9, OthersKept, UnclaimedBefore
<1>10. ASSUME NEW c \in Conn, Start(c) PROVE Free(mpv')
  <2>1. CASE mpv.child = "down" /\ mpv' = mpv
    BY <1>1, <2>1, Frees DEF Up
  <2>2. CASE mpv.child = "down" /\ mpv' = [mpv EXCEPT !.child = "starting"]
    BY <1>1, <2>2 DEF Free, Up, Player
  <2>3. CASE mpv' = mpv /\ pc' = [pc EXCEPT ![c] = "run"] /\ UNCHANGED conn
    <3>1. CASE Taking(c)
      BY <1>8, <2>3, <3>1 DEF Taking
    <3>2. CASE ~Taking(c)
      BY <1>9, <1>10, <2>3, <3>2 DEF Start, Point, hub
    <3> QED BY <3>1, <3>2
  <2> QED BY <1>10, <2>1, <2>2, <2>3 DEF Start
<1>11. ASSUME NEW c \in Conn, Connect(c) PROVE Free(mpv')
  <2>1. CASE ~Up(mpv) /\ mpv' = [mpv EXCEPT !.child = IF @ = "starting" THEN "dead" ELSE @]
    BY <1>1, <2>1 DEF Free, Up, Player
  <2>2. CASE pc' = [pc EXCEPT ![c] = "run"] /\ UNCHANGED conn
    BY <1>8, <1>11, <2>2 DEF Connect, CommandNamesDevice
  <2>3. CASE /\ mpv.child \in {"down", "closing"}
             /\ mpv' = [mpv EXCEPT !.child = IF @ = "down" THEN "dead" ELSE "late"]
    BY <1>1, <2>3 DEF Free, Up, Player
  <2> QED BY <1>11, <2>1, <2>2, <2>3 DEF Connect
<1>12. ASSUME NEW c \in Conn, Run(c) PROVE Free(mpv')
  <2>1. CASE RunSetDevice(c)
    <3>1. CASE Up(mpv)
      BY <1>8, <2>1, <3>1 DEF RunSetDevice, Takes
    <3>2. CASE ~Up(mpv)
      BY <1>1, <2>1, <3>2 DEF RunSetDevice, DeviceSet, Free, Up, Player
    <3> QED BY <3>1, <3>2
  <2>2. CASE RunAuto(c)
    BY <2>2 DEF RunAuto, Unclaimed, Taking, Takes, TypeOK, Socket
  <2>3. CASE RunLoad(c)
    <3>1. CASE Up(mpv)
      BY <1>8, <2>3, <3>1 DEF RunLoad, Takes
    <3>2. CASE ~Up(mpv)
      BY <1>1, <2>3, <3>2 DEF RunLoad, Loaded, Free, Up, Player
    <3> QED BY <3>1, <3>2
  <2>4. CASE RunRelease(c)
    BY <1>1, <2>4, Frees DEF RunRelease
  <2>5. CASE RunStop(c)
    <3>1. pc[c] # "release" /\ ~Taking(c) /\ UNCHANGED controller
      BY <1>12, <2>5 DEF Run, RunStop, Taking, Takes, hub
    <3>2. /\ \A u \in Conn \cup {Ttl} : u # c => pc'[u] = pc[u]
          /\ \A d \in Conn : d # c => conn'[d] = conn[d]
      BY <2>5, OthersKept DEF RunStop, Point
    <3>3. Free(mpv)
      BY <1>1, <3>1, <3>2, UnclaimedBefore
    <3> QED BY <1>1, <2>5, <3>3 DEF RunStop, Free, Up, Player
  <2>6. CASE RunVolume(c)
    <3>1. pc[c] # "release" /\ ~Taking(c) /\ UNCHANGED controller
      BY <1>12, <2>6 DEF Run, RunVolume, Taking, Takes, hub
    <3>2. /\ \A u \in Conn \cup {Ttl} : u # c => pc'[u] = pc[u]
          /\ \A d \in Conn : d # c => conn'[d] = conn[d]
      BY <2>6, OthersKept DEF RunVolume
    <3>3. Free(mpv)
      BY <1>1, <3>1, <3>2, UnclaimedBefore
    <3> QED BY <1>1, <2>6, <3>3 DEF RunVolume, Applied, Free, Up, Player
  <2> QED BY <1>12, <2>1, <2>2, <2>3, <2>4, <2>5, <2>6 DEF Run
<1>13. ASSUME NEW c \in Conn, After(c) PROVE Free(mpv')
  <2>1. ~LiveController(c)
    BY <1>2, <1>3, <1>13 DEF After, hub
  <2>2. CASE conn[c].cmd = "release" /\ Handled(c)
    <3>1. pc[c] # "release" /\ ~Taking(c) /\ UNCHANGED <<controller, mpv>>
      BY <1>13, <2>2 DEF After, Taking, Takes, hub
    <3> QED BY <1>9, <2>2, <3>1
  <2>3. CASE pc' = [pc EXCEPT ![c] = "ask"] /\ UNCHANGED conn
    <3>1. CASE Taking(c)
      BY <1>8, <2>3, <3>1 DEF Taking
    <3>2. CASE ~Taking(c)
      BY <1>9, <1>13, <2>3, <3>2 DEF After, Point, hub
    <3> QED BY <3>1, <3>2
  <2> QED BY <1>13, <2>1, <2>2, <2>3 DEF After
<1>14. ASSUME NEW c \in Conn, Ask(c) PROVE Free(mpv')
  <2>1. pc' = [pc EXCEPT ![c] = "undo"] /\ UNCHANGED <<conn, controller, mpv>>
    BY <1>2, <1>14 DEF Ask, hub
  <2>2. CASE Taking(c)
    BY <1>8, <2>1, <2>2 DEF Taking
  <2>3. CASE ~Taking(c)
    BY <1>9, <1>14, <2>1, <2>3 DEF Ask, Point
  <2> QED BY <2>2, <2>3
<1>15. ASSUME NEW c \in Conn, Undo(c) PROVE Free(mpv')
    BY <1>1, <1>15, Frees DEF Undo
<1>16. ASSUME NEW c \in Conn, Write(c) PROVE Free(mpv')
  <2>1. pc[c] # "release" /\ ~Taking(c) /\ UNCHANGED <<controller, mpv>>
    BY <1>16 DEF Write, Taking, hub
  <2>2. Handled(c) \/ (pc' = [pc EXCEPT ![c] = "quit"] /\ UNCHANGED conn)
    BY <1>16 DEF Write
  <2> QED BY <1>9, <2>1, <2>2 DEF Point
<1>17. ASSUME NEW c \in Conn, Disconnect(c) PROVE Free(mpv')
  <2>1. ~(Current(c) /\ controller = conn[c].sid)
    BY <1>17 DEF Disconnect, Unclaimed, TypeOK
  <2>2. UNCHANGED <<controller, mpv>> /\ pc[c] # "release" /\ ~Taking(c)
    BY <1>17, <2>1 DEF Disconnect, Taking
  <2>3. /\ \A u \in Conn \cup {Ttl} : u # c => pc'[u] = pc[u]
        /\ \A d \in Conn : d # c => conn'[d] = conn[d]
    BY <1>17, <2>1 DEF Disconnect, TypeOK
  <2> QED BY <1>1, <2>2, <2>3, UnclaimedBefore
<1>18. ASSUME NEW c \in Conn, SocketCloses(c) PROVE Free(mpv')
  <2>1. \A d \in Conn : conn'[d].cmd = conn[d].cmd
    BY <1>18 DEF SocketCloses, TypeOK, Socket
  <2>2. Unclaimed
    BY <1>18, <2>1 DEF SocketCloses, Unclaimed, Taking, hub
  <2> QED BY <1>1, <1>18, <2>2 DEF SocketCloses
<1>19. ASSUME NEW t \in Conn \cup {Ttl}, Release(t) PROVE Free(mpv')
    BY <1>1, <1>19, Frees DEF Release
<1>20. ASSUME NEW t \in Conn \cup {Ttl}, Quit(t) PROVE Free(mpv')
  <2>1. pc[t] # "release" /\ (t \in Conn => ~Taking(t)) /\ UNCHANGED <<controller, mpv>>
    BY <1>20 DEF Quit, Taking, hub
  <2>2. Leave(t) \/ (pc' = [pc EXCEPT ![t] = "shut"] /\ UNCHANGED conn)
    BY <1>20 DEF Quit
  <2> QED BY <1>9, <2>1, <2>2 DEF Point
<1>21. ASSUME NEW t \in Conn \cup {Ttl}, Shut(t) PROVE Free(mpv')
    BY <1>1, <1>21, Frees DEF Shut
<1>22. ASSUME NEW t \in Conn \cup {Ttl}, Reset(t) PROVE Free(mpv')
  <2>1. mpv.child \in {"closing", "late"}
    BY <1>22 DEF Reset, ChildShutOnce
  <2> QED BY <1>1, <1>22, <2>1 DEF Reset, Free, Up, Player
<1>23. CASE Expire
    BY <1>23, ExclusiveHubAssumption DEF Expire, Unclaimed, TypeOK
<1>24. CASE ChildDies
    BY <1>1, <1>24 DEF ChildDies, Free, Up, Player
<1>25. CASE UNCHANGED vars
  <2>1. Unclaimed
    BY <1>25 DEF vars, Unclaimed, Taking
  <2> QED BY <1>1, <1>25, <2>1 DEF vars
<1> QED BY <1>4, <1>5, <1>6, <1>7, <1>10, <1>11, <1>12, <1>13, <1>14, <1>15, <1>16, <1>17,
           <1>18, <1>19, <1>20, <1>21, <1>22, <1>23, <1>24, <1>25, NextCases DEF SocketStep

-----------------------------------------------------------------------------
(* The theorems.                                                           *)

LEMMA InductiveInit == Init => IInv
PROOF
<1> SUFFICES ASSUME Init PROVE IInv
    OBVIOUS
<1>1. TypeOK
    BY TypeInit
<1>2. CommandNamesDevice
    BY ExclusiveHubAssumption DEF Init, CommandNamesDevice, Nobody, Command
<1>3. OneController /\ SocketsServed
    BY ExclusiveHubAssumption DEF Init, OneController, SocketsServed
<1>4. VolumeRestored /\ ChildShutOnce /\ FreeIsReleased
    BY DEF Init, VolumeRestored, ChildShutOnce, FreeIsReleased, Up
<1> QED BY <1>1, <1>2, <1>3, <1>4 DEF IInv

LEMMA InductiveStep == IInv /\ [Next]_vars => IInv'
PROOF BY TypeStep, CommandStep, ClaimStep, PlayerStep, FreeStep DEF IInv

\* The invariant of the hub and its player, for any number of sessions,
\* sockets and devices.
THEOREM Inductive == Spec => []IInv
PROOF BY InductiveInit, InductiveStep, PTL DEF Spec

\* Every variable has its type.
THEOREM TypeCorrect == Spec => []TypeOK
PROOF
<1>1. IInv => TypeOK
    BY DEF IInv
<1> QED BY <1>1, Inductive, PTL

\* However sockets are replaced, closed and timed out, the controller is one
\* connected session, and only who has lost the claim to the time to live, and
\* is still connected, may take it again.
THEOREM OneControls == Spec => []OneController
PROOF
<1>1. IInv => OneController
    BY DEF IInv
<1> QED BY <1>1, Inductive, PTL

\* A claim that ends while commands are with the player leaves no device held
\* and nothing playing once they have been told.
THEOREM FreedWhenUnclaimed == Spec => []FreeIsReleased
PROOF
<1>1. IInv => FreeIsReleased
    BY DEF IInv
<1> QED BY <1>1, Inductive, PTL

\* No device is left with a hardware volume that is not the user's.
THEOREM VolumesRestored == Spec => []VolumeRestored
PROOF
<1>1. IInv => VolumeRestored
    BY DEF IInv
<1> QED BY <1>1, Inductive, PTL

-----------------------------------------------------------------------------
(* The optical drive.                                                      *)

CONSTANTS Drive, Audio, Volume, MaxMoves, MaxAsks, MaxFaults
VARIABLES disc, mounted, watched, lastDrive, dataLive, cdrom, sig, owed, thread,
          last, reader, said, index, hand, away, moves, asks, faults

O == INSTANCE OpticalSession

LEMMA OpticalInit == O!Init => O!IInv
PROOF
<1> SUFFICES ASSUME O!Init PROVE O!IInv
  OBVIOUS
<1>1. O!Typed
  BY DEF O!Init, O!Typed, O!Turn, O!Slot
<1>2. O!EmptyIsAway /\ O!TreeSeen
  BY DEF O!Init, O!EmptyIsAway, O!TreeSeen
<1>3. O!ThreadsSound
  BY DEF O!Init, O!ThreadsSound, O!Sound, O!Rest
<1>4. O!LoopWatches
  BY DEF O!Init, O!LoopWatches, O!Slot
<1> QED BY <1>1, <1>2, <1>3, <1>4 DEF O!IInv

-----------------------------------------------------------------------------
(* The drives.                                                             *)

\* The discs and the mounts are as they were, or the environment or an eject
\* has moved one.
DriveStill == disc' = disc /\ mounted' = mounted /\ away' = away
DriveMoves(d) ==
    /\ d \in Drive
    /\ \/ disc' = [disc EXCEPT ![d] = None] /\ mounted' = mounted \ {d} /\ away' = away \cup {d}
       \/ disc[d] = None /\ mounted' = mounted /\ away' = away
            /\ \E x \in O!Disc : disc' = [disc EXCEPT ![d] = x]
       \/ disc[d] \in Volume /\ d \notin mounted /\ mounted' = mounted \cup {d}
            /\ disc' = disc /\ away' = away
       \/ mounted' = mounted \ {d} /\ away' = away \cup {d} /\ disc' = disc
Drives == DriveStill \/ \E d \in Drive : DriveMoves(d)

\* What was seen in a drive stays seen.
LEMMA DrivesKeep ==
    ASSUME O!Typed, O!EmptyIsAway, Drives
    PROVE  /\ disc' \in [Drive -> O!Disc \cup {None}]
           /\ away \subseteq away' /\ away' \subseteq Drive
           /\ O!EmptyIsAway'
           /\ \A d \in Drive : \A id : O!Seen(d, id) => O!Seen(d, id)'
PROOF
<1>0. disc \in [Drive -> O!Disc \cup {None}] /\ away \subseteq Drive
  BY DEF O!Typed
<1>1. CASE DriveStill
  BY <1>0, <1>1 DEF DriveStill, O!EmptyIsAway, O!Seen, O!Mount
<1>2. ASSUME NEW e \in Drive, DriveMoves(e)
      PROVE  /\ disc' \in [Drive -> O!Disc \cup {None}]
             /\ away \subseteq away' /\ away' \subseteq Drive
             /\ O!EmptyIsAway'
             /\ \A d \in Drive : \A id : O!Seen(d, id) => O!Seen(d, id)'
  <2>1. CASE disc' = [disc EXCEPT ![e] = None] /\ mounted' = mounted \ {e} /\ away' = away \cup {e}
    BY <1>0, <2>1 DEF O!EmptyIsAway, O!Seen, O!Mount
  <2>2. CASE /\ disc[e] = None /\ mounted' = mounted /\ away' = away
             /\ \E x \in O!Disc : disc' = [disc EXCEPT ![e] = x]
    <3>1. PICK x \in O!Disc : disc' = [disc EXCEPT ![e] = x]
      BY <2>2
    <3>2. e \in away
      BY <2>2 DEF O!EmptyIsAway
    <3>3. \A d \in Drive : d # e => disc'[d] = disc[d]
      BY <1>0, <3>1
    <3>4. disc' \in [Drive -> O!Disc \cup {None}]
      BY <1>0, <3>1
    <3> QED BY <1>0, <2>2, <3>2, <3>3, <3>4 DEF O!EmptyIsAway, O!Seen, O!Mount
  <2>3. CASE e \notin mounted /\ mounted' = mounted \cup {e} /\ disc' = disc /\ away' = away
    BY <1>0, <2>3 DEF O!EmptyIsAway, O!Seen, O!Mount
  <2>4. CASE mounted' = mounted \ {e} /\ away' = away \cup {e} /\ disc' = disc
    BY <1>0, <2>4 DEF O!EmptyIsAway, O!Seen, O!Mount
  <2> QED BY <1>2, <2>1, <2>2, <2>3, <2>4 DEF DriveMoves
<1> QED BY <1>1, <1>2 DEF Drives

-----------------------------------------------------------------------------
(* The threads.                                                            *)

LEMMA TurnSays ==
    ASSUME NEW t \in O!Turn
    PROVE  /\ t.op = "rest" => t = O!Rest
           /\ t.op \notin {"rest", "returned"} =>
                t.op \in O!Op /\ t.dev \in Drive /\ t.id \in Volume \cup {None}
           /\ t.op = "returned" =>
                /\ t.from \in O!Op \cup {"raise"} /\ t.media \in O!Faces
                /\ t.send \in BOOLEAN /\ t.denied \in BOOLEAN
PROOF
<1>1. CASE t = O!Rest
  BY <1>1 DEF O!Rest
<1>2. CASE t \in [op : O!Op, dev : Drive, id : Volume \cup {None}]
  BY <1>2 DEF O!Op
<1>3. CASE t \in [op : {"returned"}, from : O!Op \cup {"raise"}, media : O!Faces,
                   send : BOOLEAN, denied : BOOLEAN]
  BY <1>3
<1> QED BY <1>1, <1>2, <1>3 DEF O!Turn

LEMMA StartTurn ==
    ASSUME NEW o \in O!Op, NEW d \in Drive
    PROVE  /\ O!Start(o, d) \in O!Turn
           /\ O!Start(o, d).op = o /\ O!Start(o, d).dev = d /\ O!Start(o, d).id = None
PROOF BY DEF O!Start, O!Turn

LEMMA RestTurn ==
    /\ O!Rest \in O!Turn /\ O!Rest.op = "rest"
    /\ \A s : O!Sound(s, O!Rest)
PROOF BY DEF O!Rest, O!Turn, O!Sound

\* What the drive, or the tree, looks like.
LEMMA FaceSays ==
    ASSUME O!Typed, NEW d \in Drive
    PROVE  /\ O!OnDisc(d) \in O!Faces /\ O!OnDisc(d).dev = d
           /\ O!OnDisc(d).kind = "none" => disc[d] = None
           /\ O!Gone(d) \in O!Faces /\ O!Gone(d).dev = d
           /\ O!DataFace(d, cdrom) \in O!Faces /\ O!DataFace(d, cdrom).kind = "data"
           /\ \A id \in Volume \cup {None} :
                O!Media(d, "data", id) \in O!Faces /\ O!Media(d, "data", id).kind = "data"
PROOF
<1>1. disc[d] \in O!Disc \cup {None} /\ cdrom \in [dev : Drive, id : Volume \cup {None}] \cup {None}
  BY DEF O!Typed
<1>2. \A id \in Volume \cup {None} :
        O!Media(d, "data", id) \in O!Faces /\ O!Media(d, "data", id).kind = "data"
  BY DEF O!Media, O!Faces, O!Disc
<1>3. O!Gone(d) \in O!Faces /\ O!Gone(d).dev = d
  BY DEF O!Gone, O!Media, O!Faces
<1>4. O!DataFace(d, cdrom) \in O!Faces /\ O!DataFace(d, cdrom).kind = "data"
  BY <1>1, <1>2 DEF O!DataFace
<1>5. CASE disc[d] = None
  <2>1. O!OnDisc(d) = O!Gone(d)
    BY <1>5 DEF O!OnDisc
  <2> QED BY <1>2, <1>3, <1>4, <1>5, <2>1
<1>6. CASE disc[d] # None /\ disc[d] \in Audio
  <2>1. O!OnDisc(d) = O!Media(d, "audio", disc[d])
    BY <1>6 DEF O!OnDisc
  <2>2. O!OnDisc(d) \in O!Faces /\ O!OnDisc(d).dev = d /\ O!OnDisc(d).kind = "audio"
    BY <1>6, <2>1 DEF O!Media, O!Faces, O!Disc
  <2> QED BY <1>2, <1>3, <1>4, <2>2
<1>7. CASE disc[d] # None /\ disc[d] \notin Audio
  <2>1. O!OnDisc(d) = O!Media(d, "data", None)
    BY <1>7 DEF O!OnDisc
  <2>2. O!OnDisc(d).dev = d
    BY <2>1 DEF O!Media
  <2> QED BY <1>2, <1>3, <1>4, <2>1, <2>2
<1> QED BY <1>5, <1>6, <1>7

\* What becomes of the threads: one of them takes a sound turn, or the loop is
\* canceled.
Turns(s) ==
    \E t \in O!Turn :
        /\ thread' = [thread EXCEPT ![s] = t]
        /\ O!Sound(s, t) \/ (t.op = "ejected" /\ t.dev \in away')
Cancels ==
    thread' = [thread EXCEPT !["loop"] = O!Rest,
                 !["orphan"] = IF O!Working("loop") THEN thread["loop"] ELSE @]
Threads == thread' = thread \/ Cancels \/ \E s \in O!Slot : Turns(s)

LEMMA AnswerTurns ==
    ASSUME NEW s \in O!Slot, NEW t \in O!Turn, O!Answer(s, t), O!Sound(s, t)
    PROVE  Turns(s)
PROOF
<1>1. thread' = [thread EXCEPT ![s] = IF s = "orphan" THEN O!Rest ELSE t]
  BY DEF O!Answer, O!Becomes
<1>2. CASE s = "orphan"
  BY <1>1, <1>2, RestTurn DEF Turns
<1>3. CASE s # "orphan"
  BY <1>1, <1>3 DEF Turns
<1> QED BY <1>2, <1>3

LEMMA ReturnTurns ==
    ASSUME O!Typed, O!ThreadsSound, NEW s \in O!Slot, thread[s].op \in O!Op,
           NEW media \in O!Faces, NEW send \in BOOLEAN, O!Return(s, media, send),
           media.kind = "none" => media.dev \in away \/ (thread[s].op = "poll" /\ away # {})
    PROVE  Turns(s)
PROOF
<1> DEFINE t == O!Returned(thread[s].op, media, send, FALSE)
<1>1. t \in O!Turn /\ t.op = "returned" /\ t.from = thread[s].op /\ t.media = media
  BY DEF O!Returned, O!Turn
<1>2. s = "command" => thread[s].op # "poll"
  BY DEF O!ThreadsSound, O!Sound
<1>3. O!Answer(s, t) /\ thread[s].op # "raise"
  BY DEF O!Return, O!Op
<1> HIDE DEF t
<1>4. O!Sound(s, t)
  BY <1>1, <1>2, <1>3 DEF O!Sound
<1> QED BY <1>1, <1>3, <1>4, AnswerTurns

\* So does one that was denied the disc, or raised.
LEMMA DenyTurns ==
    ASSUME O!IInv, NEW s \in O!Slot, thread[s].op \in O!Op, thread[s].dev \in Drive,
           NEW f \in {thread[s].op, "raise"}, NEW denied \in BOOLEAN,
           O!Answer(s, O!Returned(f, O!Gone(thread[s].dev), FALSE, denied)),
           denied \/ (f = "raise" /\ s # "command")
    PROVE  Turns(s)
PROOF
<1> DEFINE t == O!Returned(f, O!Gone(thread[s].dev), FALSE, denied)
<1>1. O!Gone(thread[s].dev) \in O!Faces
  BY FaceSays DEF O!IInv
<1>2. t \in O!Turn /\ t.op = "returned" /\ t.from = f /\ t.denied = denied
  BY <1>1 DEF O!Returned, O!Turn
<1>3. s = "command" => thread[s].op # "poll"
  BY DEF O!IInv, O!ThreadsSound, O!Sound
<1>4. O!Answer(s, t)
  OBVIOUS
<1> HIDE DEF t
<1>5. O!Sound(s, t)
  BY <1>2, <1>3 DEF O!Sound
<1> QED BY <1>2, <1>4, <1>5, AnswerTurns

\* A turn that was sound stays so, whatever the drives do.
LEMMA SoundStays ==
    ASSUME O!Typed, O!EmptyIsAway, Drives, NEW s, NEW t \in O!Turn, O!Sound(s, t)
    PROVE  O!Sound(s, t)'
PROOF
<1>1. /\ away \subseteq away'
      /\ \A d \in Drive : \A id : O!Seen(d, id) => O!Seen(d, id)'
  BY DrivesKeep
<1>2. t.op \in {"walk", "poll"} => O!Seen(t.dev, t.id)'
  BY <1>1, TurnSays DEF O!Sound
<1>3. t.op = "ejected" => t.dev \in away'
  BY <1>1 DEF O!Sound
<1>4. t.op = "returned" /\ t.media.kind = "none" =>
        t.media.dev \in away' \/ t.denied \/ t.from = "raise"
          \/ (t.from = "poll" /\ away' # {})
  BY <1>1 DEF O!Sound
<1> QED BY <1>2, <1>3, <1>4 DEF O!Sound

LEMMA ThreadsKeep ==
    ASSUME O!Typed, O!EmptyIsAway, O!ThreadsSound, Drives, Threads
    PROVE  thread' \in [O!Slot -> O!Turn] /\ O!ThreadsSound'
PROOF
<1>0. thread \in [O!Slot -> O!Turn]
  BY DEF O!Typed
<1>1. \A s \in O!Slot : O!Sound(s, thread[s])
  BY DEF O!ThreadsSound
<1> DEFINE Good(u) == \E r \in O!Turn : thread'[u] = r /\ O!Sound(u, r)'
<1>2. \A u \in O!Slot, r \in O!Turn : O!Sound(u, r) => O!Sound(u, r)'
  BY SoundStays
<1>3. ASSUME thread' = thread
      PROVE  thread' = [u \in O!Slot |-> thread'[u]] /\ \A u \in O!Slot : Good(u)
  <2>1. \A u \in O!Slot : Good(u)
    BY <1>0, <1>1, <1>2, <1>3
  <2>2. thread' = [u \in O!Slot |-> thread'[u]]
    BY <1>0, <1>3
  <2> QED BY <2>1, <2>2
<1>4. ASSUME NEW s \in O!Slot, Turns(s)
      PROVE  thread' = [u \in O!Slot |-> thread'[u]] /\ \A u \in O!Slot : Good(u)
  <2>1. PICK t \in O!Turn :
          /\ thread' = [thread EXCEPT ![s] = t]
          /\ O!Sound(s, t) \/ (t.op = "ejected" /\ t.dev \in away')
    BY <1>4 DEF Turns
  <2>2. O!Sound(s, t)'
    <3>1. CASE O!Sound(s, t)
      BY <1>2, <3>1
    <3>2. CASE t.op = "ejected" /\ t.dev \in away'
      BY <3>2 DEF O!Sound
    <3> QED BY <2>1, <3>1, <3>2
  <2> QED BY <1>0, <1>1, <1>2, <2>1, <2>2
<1>5. ASSUME Cancels
      PROVE  thread' = [u \in O!Slot |-> thread'[u]] /\ \A u \in O!Slot : Good(u)
  <2> DEFINE l == thread["loop"]
             o == thread["orphan"]
  <2>1. "loop" \in O!Slot /\ "orphan" \in O!Slot
    BY DEF O!Slot
  <2>2. \A s : O!Sound(s, O!Rest)'
    BY RestTurn DEF O!Sound, O!Rest
  <2>3. O!Sound("orphan", l) /\ O!Sound("orphan", o)
    BY <1>1, <2>1 DEF O!Sound
  <2>4. \A u \in O!Slot : thread'[u] = thread[u] \/ thread'[u] = O!Rest
                           \/ (u = "orphan" /\ thread'[u] = l)
    BY <1>0, <1>5, <2>1 DEF Cancels
  <2>5. thread' = [u \in O!Slot |-> thread'[u]]
    BY <1>0, <1>5 DEF Cancels
  <2>6. \A u \in O!Slot : Good(u)
    BY <1>0, <1>1, <1>2, <2>1, <2>2, <2>3, <2>4, RestTurn
  <2> QED BY <2>5, <2>6
<1>6. thread' = [u \in O!Slot |-> thread'[u]] /\ \A u \in O!Slot : Good(u)
  BY <1>0, <1>3, <1>4, <1>5 DEF Threads
<1>7. thread' \in [O!Slot -> O!Turn]
  BY <1>6
<1>8. ASSUME NEW u \in O!Slot
      PROVE  LET r == thread[u] IN O!Sound(u, r)'
  BY <1>6 DEF O!Sound
<1> QED BY <1>7, <1>8 DEF O!ThreadsSound, O!Sound

-----------------------------------------------------------------------------
(* The steps.                                                              *)

\* What a step does to the rest of the session, and what it tells the client.
Tree ==
    \/ cdrom' = cdrom \/ cdrom' = None
    \/ \E d \in Drive, id \in Volume \cup {None} :
         cdrom' = [dev |-> d, id |-> id] /\ O!Seen(d, id)
Fields ==
    /\ watched' \in Drive \cup {None} /\ lastDrive' \in Drive \cup {None}
    /\ reader' \in Drive \cup {None}
    /\ dataLive' \in BOOLEAN /\ owed' \in BOOLEAN
Speaks ==
    \/ said' = said
    \/ /\ said' \in O!Faces
       /\ said'.kind = "none" =>
            said'.dev \in away \/ O!Denied(hand') \/ (hand' = "loop" /\ away # {})
Steps == Drives /\ Threads /\ Tree /\ Fields /\ Speaks

\* What a thread that runs, or has returned, is about.
LEMMA ThreadSays ==
    ASSUME O!IInv, NEW s \in O!Slot
    PROVE  /\ thread[s] \in O!Turn /\ O!Sound(s, thread[s])
           /\ thread[s].op \notin {"rest", "returned"} =>
                /\ thread[s].op \in O!Op /\ thread[s].dev \in Drive
                /\ thread[s].id \in Volume \cup {None}
           /\ thread[s].op = "returned" =>
                /\ thread[s].from \in O!Op \cup {"raise"} /\ thread[s].media \in O!Faces
                /\ thread[s].send \in BOOLEAN /\ thread[s].denied \in BOOLEAN
PROOF
<1>1. thread[s] \in O!Turn /\ O!Sound(s, thread[s])
  BY DEF O!IInv, O!Typed, O!ThreadsSound
<1> QED BY <1>1, TurnSays

LEMMA FieldsNow ==
    ASSUME O!IInv
    PROVE  /\ watched \in Drive \cup {None} /\ lastDrive \in Drive \cup {None}
           /\ reader \in Drive \cup {None}
           /\ dataLive \in BOOLEAN /\ owed \in BOOLEAN
PROOF BY DEF O!IInv, O!Typed

LEMMA RestTurns ==
    ASSUME NEW s \in O!Slot, O!Becomes(s, O!Rest)
    PROVE  Threads
PROOF BY RestTurn DEF O!Becomes, Threads, Turns

LEMMA StartTurns ==
    ASSUME NEW s \in O!Slot, NEW o \in O!Op \ {"poll", "ejected"}, NEW d \in Drive,
           s = "command" => o # "resolve", O!Becomes(s, O!Start(o, d))
    PROVE  Threads
PROOF
<1> DEFINE t == O!Start(o, d)
<1>1. t \in O!Turn /\ t.op = o /\ t.dev = d /\ t.id = None
  BY StartTurn
<1>2. thread' = [thread EXCEPT ![s] = t]
  BY DEF O!Becomes
<1>3. o # "returned" /\ o # "poll" /\ o # "ejected"
  BY DEF O!Op
<1> HIDE DEF t
<1>4. O!Sound(s, t)
  BY <1>1, <1>3 DEF O!Sound, O!Seen
<1> QED BY <1>1, <1>2, <1>4 DEF Threads, Turns

LEMMA ReadTocSteps ==
    ASSUME O!IInv, NEW s \in O!Slot, O!ReadToc(s)
    PROVE  Steps
PROOF
<1> DEFINE d == thread[s].dev
<1>1. thread[s].op = "toc" /\ thread[s].op \in O!Op /\ d \in Drive
  BY ThreadSays DEF O!ReadToc
<1>2. ASSUME O!Return(s, O!OnDisc(d), FALSE)
      PROVE  Threads
  <2>1. O!OnDisc(d) \in O!Faces /\ (O!OnDisc(d).kind = "none" => O!OnDisc(d).dev \in away)
    BY <1>1, FaceSays DEF O!IInv, O!EmptyIsAway
  <2> QED BY <1>1, <1>2, <2>1, ReturnTurns DEF O!IInv, Threads
<1>3. ASSUME O!Becomes(s, O!Rest)
      PROVE  Threads
  BY <1>3, RestTurns
<1>4. ASSUME O!Deny(s)
      PROVE  Threads
  BY <1>1, <1>4, DenyTurns DEF O!Deny, Threads
<1>5. Threads
  BY <1>2, <1>3, <1>4 DEF O!ReadToc
<1>6. DriveStill /\ Tree /\ Fields /\ Speaks
  BY FieldsNow DEF O!ReadToc, O!shared, O!client, DriveStill, Tree, Fields, Speaks
<1> QED BY <1>5, <1>6 DEF Steps, Drives

\* What diskutil says of a drive is what is there, or nothing.
LEMMA ResolvesSeen ==
    ASSUME NEW d, NEW id, O!Resolves(d, id)
    PROVE  O!Seen(d, id)
PROOF BY DEF O!Resolves, O!Seen

LEMMA ClassifySteps ==
    ASSUME O!IInv, NEW s \in O!Slot, O!Classify(s)
    PROVE  Steps
PROOF
<1> DEFINE d == thread[s].dev
<1>1. thread[s].op = "classify" /\ thread[s].op \in O!Op /\ d \in Drive
  BY ThreadSays DEF O!Classify
<1>2. ASSUME NEW id \in Volume \cup {None}, O!Resolves(d, id),
             IF id = None THEN O!Return(s, O!Media(d, "data", None), TRUE)
             ELSE O!Becomes(s, [op |-> "walk", dev |-> d, id |-> id])
      PROVE  Threads
  <2>2. CASE id = None
    <3>1. O!Media(d, "data", None) \in O!Faces /\ O!Media(d, "data", None).kind = "data"
      BY <1>1, FaceSays DEF O!IInv
    <3> QED BY <1>1, <1>2, <2>2, <3>1, ReturnTurns DEF O!IInv, Threads
  <2>3. CASE id # None
    <3> DEFINE t == [op |-> "walk", dev |-> d, id |-> id]
    <3>1. t \in O!Turn /\ t.op = "walk" /\ t.dev = d /\ t.id = id
      BY <1>1 DEF O!Turn, O!Op
    <3>2. thread' = [thread EXCEPT ![s] = t]
      BY <1>2, <2>3 DEF O!Becomes
    <3>3. O!Seen(d, id)
      BY <1>2, ResolvesSeen
    <3> HIDE DEF t
    <3>4. O!Sound(s, t)
      BY <3>1, <3>3 DEF O!Sound
    <3> QED BY <3>1, <3>2, <3>4 DEF Threads, Turns
  <2> QED BY <2>2, <2>3
<1>3. ASSUME O!Answer(s, O!Returned("raise", O!Gone(d), FALSE, s = "command"))
      PROVE  Threads
  BY <1>1, <1>3, DenyTurns DEF Threads
<1>4. Threads
  BY <1>2, <1>3 DEF O!Classify
<1>5. Tree
  <2>1. cdrom' = [dev |-> d, id |-> None]
    BY DEF O!Classify
  <2> QED BY <1>1, <2>1 DEF Tree, O!Seen
<1>6. DriveStill /\ Fields /\ Speaks
  BY FieldsNow DEF O!Classify, DriveStill, Fields, Speaks
<1> QED BY <1>4, <1>5, <1>6 DEF Steps, Drives

LEMMA WalkSteps ==
    ASSUME O!IInv, NEW s \in O!Slot, O!Walk(s)
    PROVE  Steps
PROOF
<1> DEFINE d == thread[s].dev
           id == thread[s].id
<1>1. thread[s].op = "walk" /\ thread[s].op \in O!Op /\ d \in Drive /\ id \in Volume \cup {None}
  BY ThreadSays DEF O!Walk
<1>2. O!Seen(d, id)
  BY <1>1, ThreadSays DEF O!Sound
<1>3. Threads
  <2>1. O!Return(s, O!Media(d, "data", id), TRUE)
    BY DEF O!Walk
  <2>2. O!Media(d, "data", id) \in O!Faces /\ O!Media(d, "data", id).kind = "data"
    BY <1>1, FaceSays DEF O!IInv
  <2> QED BY <1>1, <2>1, <2>2, ReturnTurns DEF O!IInv, Threads
<1>4. Tree
  BY <1>1, <1>2 DEF O!Walk, Tree
<1>5. DriveStill /\ Fields /\ Speaks
  BY FieldsNow DEF O!Walk, DriveStill, Fields, Speaks
<1> QED BY <1>3, <1>4, <1>5 DEF Steps, Drives

LEMMA ResolveSteps ==
    ASSUME O!IInv, NEW s \in O!Slot, O!Resolve(s)
    PROVE  Steps
PROOF
<1> DEFINE d == thread[s].dev
<1>1. thread[s].op = "resolve" /\ d \in Drive /\ s # "command"
  BY ThreadSays DEF O!Resolve, O!Sound
<1>2. PICK id \in Volume \cup {None} :
        O!Resolves(d, id) /\ O!Becomes(s, [thread[s] EXCEPT !.op = "poll", !.id = id])
  BY DEF O!Resolve
<1> DEFINE t == [thread[s] EXCEPT !.op = "poll", !.id = id]
<1>3. t \in O!Turn /\ t.op = "poll" /\ t.dev = d /\ t.id = id
  <2>1. thread[s] \in [op : O!Op, dev : Drive, id : Volume \cup {None}]
    BY <1>1, ThreadSays DEF O!Turn, O!Rest
  <2> QED BY <2>1 DEF O!Turn, O!Op
<1>4. thread' = [thread EXCEPT ![s] = t]
  BY <1>2 DEF O!Becomes
<1>5. O!Seen(d, id)
  BY <1>2, ResolvesSeen
<1> HIDE DEF t
<1>6. O!Sound(s, t)
  BY <1>1, <1>3, <1>5 DEF O!Sound
<1>7. Threads
  BY <1>3, <1>4, <1>6 DEF Threads, Turns
<1>8. DriveStill /\ Tree /\ Fields /\ Speaks
  BY FieldsNow DEF O!Resolve, O!shared, O!client, DriveStill, Tree, Fields, Speaks
<1> QED BY <1>7, <1>8 DEF Steps, Drives

\* A poll that finds the tree's volume, or the disc, gone says so of a drive
\* that was away, or was denied the disc.
LEMMA PollSteps ==
    ASSUME O!IInv, NEW s \in O!Slot, O!Poll(s)
    PROVE  Steps
PROOF
<1> DEFINE d == thread[s].dev
           id == thread[s].id
<1>1. thread[s].op = "poll" /\ thread[s].op \in O!Op /\ d \in Drive /\ id \in Volume \cup {None}
  BY ThreadSays DEF O!Poll
<1>2. O!Seen(d, id)
  BY <1>1, ThreadSays DEF O!Sound
<1>3. DriveStill /\ Fields /\ Speaks
  BY FieldsNow DEF O!Poll, DriveStill, Fields, Speaks
<1>4. CASE O!Lost(s)
  <2>1. O!Gone(d) \in O!Faces /\ O!Gone(d).dev = d /\ cdrom' = None
    BY <1>1, <1>4, FaceSays DEF O!IInv, O!Lost
  <2>2. ASSUME O!Return(s, O!Gone(d), FALSE), away # {}
        PROVE  Threads
    BY <1>1, <2>1, <2>2, ReturnTurns DEF O!IInv, Threads
  <2>3. ASSUME O!HasTree /\ O!TreeVanished
        PROVE  away # {}
    BY <2>3 DEF O!HasTree, O!TreeVanished, O!IInv, O!TreeSeen, O!Seen
  <2>4. ASSUME disc[d] = None
        PROVE  away # {}
    BY <1>1, <2>4 DEF O!IInv, O!EmptyIsAway
  <2>5. ASSUME O!Deny(s)
        PROVE  Threads
    BY <1>1, <2>5, DenyTurns DEF O!Deny, Threads
  <2>6. Threads
    BY <1>4, <2>2, <2>3, <2>4, <2>5 DEF O!Lost
  <2> QED BY <1>3, <2>1, <2>6 DEF Steps, Drives, Tree
<1>5. CASE O!Kept(s)
  <2>1. O!Return(s, O!DataFace(d, cdrom), FALSE) /\ cdrom' = cdrom
    BY <1>5 DEF O!Kept
  <2>2. O!DataFace(d, cdrom) \in O!Faces /\ O!DataFace(d, cdrom).kind = "data"
    BY <1>1, FaceSays DEF O!IInv
  <2>3. Threads
    BY <1>1, <2>1, <2>2, ReturnTurns DEF O!IInv, Threads
  <2> QED BY <1>3, <2>1, <2>3 DEF Steps, Drives, Tree
<1>6. CASE O!Installed(s)
  <2>1. O!Return(s, O!Media(d, "data", id), TRUE) /\ cdrom' = [dev |-> d, id |-> id]
    BY <1>6 DEF O!Installed
  <2>2. O!Media(d, "data", id) \in O!Faces /\ O!Media(d, "data", id).kind = "data"
    BY <1>1, FaceSays DEF O!IInv
  <2>3. Threads
    BY <1>1, <2>1, <2>2, ReturnTurns DEF O!IInv, Threads
  <2> QED BY <1>1, <1>2, <1>3, <2>1, <2>3 DEF Steps, Drives, Tree
<1>7. CASE O!Becomes(s, O!Rest) /\ cdrom' = cdrom
  <2>1. Threads
    BY <1>7, RestTurns
  <2> QED BY <1>3, <1>7, <2>1 DEF Steps, Drives, Tree
<1> QED BY <1>4, <1>5, <1>6, <1>7 DEF O!Poll

\* A thread that runs for the loop runs for a watch.
LEMMA LoopSays ==
    ASSUME O!IInv, thread["loop"].op # "rest"
    PROVE  watched \in Drive
PROOF BY FieldsNow, RestTurn DEF O!IInv, O!LoopWatches

LEMMA LookSteps ==
    ASSUME O!IInv, O!Look
    PROVE  Steps
PROOF
<1>1. watched \in Drive /\ "loop" \in O!Slot
  BY FieldsNow DEF O!Look, O!Slot
<1>2. PICK o \in {"resolve", "toc"} : O!Becomes("loop", O!Start(o, watched))
  BY DEF O!Look
<1>3. o \in O!Op \ {"poll", "ejected"}
  BY DEF O!Op
<1>4. Threads
  BY <1>1, <1>2, <1>3, StartTurns
<1>5. DriveStill /\ Tree /\ Fields /\ Speaks
  BY FieldsNow DEF O!Look, O!shared, O!client, DriveStill, Tree, Fields, Speaks
<1> QED BY <1>4, <1>5 DEF Steps, Drives

LEMMA LoopClassifiesSteps ==
    ASSUME O!IInv, O!LoopClassifies
    PROVE  Steps
PROOF
<1>1. "loop" \in O!Slot /\ "classify" \in O!Op \ {"poll", "ejected"}
  BY DEF O!Slot, O!Op
<1>2. watched \in Drive
  BY LoopSays DEF O!LoopClassifies, O!FoundData
<1>3. Threads
  BY <1>1, <1>2, StartTurns DEF O!LoopClassifies
<1>4. DriveStill /\ Tree /\ Fields /\ Speaks
  BY FieldsNow DEF O!LoopClassifies, O!client, DriveStill, Tree, Fields, Speaks
<1> QED BY <1>3, <1>4 DEF Steps, Drives

LEMMA LoopForgetsSteps ==
    ASSUME O!IInv, O!LoopForgets
    PROVE  Steps
PROOF
<1>1. Threads
  BY RestTurns DEF O!LoopForgets, O!Slot
<1>2. DriveStill /\ Tree /\ Fields /\ Speaks
  BY FieldsNow DEF O!LoopForgets, O!client, DriveStill, Tree, Fields, Speaks
<1> QED BY <1>1, <1>2 DEF Steps, Drives

\* The loop tells what its thread has returned.
LEMMA PublishSteps ==
    ASSUME O!IInv, O!Publish
    PROVE  Steps
PROOF
<1> DEFINE t == thread["loop"]
<1>1. "loop" \in O!Slot /\ t.op = "returned"
  BY DEF O!Slot, O!Publish
<1>2. t.media \in O!Faces /\ t.send \in BOOLEAN /\ O!Sound("loop", t)
  BY <1>1, ThreadSays
<1>3. t.media.kind = "none" => t.media.dev \in away \/ O!Denied("loop") \/ away # {}
  BY <1>1, <1>2 DEF O!Sound, O!Publish, O!Raised, O!Denied
<1>4. Threads
  BY <1>1, RestTurns DEF O!Publish
<1>5. DriveStill /\ Tree
  BY DEF O!Publish, DriveStill, Tree
<1>6. Fields
  BY <1>2, FieldsNow DEF O!Publish, Fields
<1>7. Speaks
  <2>1. CASE t.media # sig
    BY <1>2, <1>3, <2>1 DEF O!Publish, O!Tell, Speaks
  <2>2. CASE t.media = sig
    BY <2>2 DEF O!Publish, O!client, Speaks
  <2> QED BY <2>1, <2>2
<1> QED BY <1>4, <1>5, <1>6, <1>7 DEF Steps, Drives

LEMMA SendIndexSteps ==
    ASSUME O!IInv, O!SendIndex
    PROVE  Steps
PROOF BY FieldsNow DEF O!SendIndex, Steps, Drives, DriveStill, Threads, Tree, Fields, Speaks

\* An eject that opens the tray leaves the drive empty.
LEMMA IoctlSteps ==
    ASSUME O!IInv, O!Ioctl
    PROVE  Steps
PROOF
<1> DEFINE d == thread["command"].dev
<1>1. "command" \in O!Slot /\ thread["command"].op = "ioctl" /\ d \in Drive
  BY ThreadSays DEF O!Slot, O!Ioctl
<1>2. Tree /\ Fields /\ Speaks
  BY FieldsNow DEF O!Ioctl, O!shared, O!client, Tree, Fields, Speaks
<1>3. ASSUME /\ disc' = [disc EXCEPT ![d] = None] /\ mounted' = mounted \ {d} /\ away' = away \cup {d}
             /\ O!Becomes("command", O!Start("ejected", d))
      PROVE  Drives /\ Threads
  <2>1. Drives
    BY <1>1, <1>3 DEF Drives, DriveMoves
  <2>2. O!Start("ejected", d) \in O!Turn /\ O!Start("ejected", d).op = "ejected"
        /\ O!Start("ejected", d).dev = d
    BY <1>1, StartTurn DEF O!Op
  <2>3. Threads
    BY <1>1, <1>3, <2>2 DEF O!Becomes, Threads, Turns
  <2> QED BY <2>1, <2>3
<1>4. ASSUME O!Becomes("command", O!Rest), UNCHANGED <<disc, mounted, away>>
      PROVE  Drives /\ Threads
  BY <1>1, <1>4, RestTurns DEF Drives, DriveStill
<1>5. Drives /\ Threads
  BY <1>3, <1>4 DEF O!Ioctl
<1> QED BY <1>2, <1>5 DEF Steps

LEMMA EjectedSteps ==
    ASSUME O!IInv, O!Ejected
    PROVE  Steps
PROOF
<1> DEFINE d == thread["command"].dev
<1>1. "command" \in O!Slot /\ thread["command"].op = "ejected" /\ d \in Drive
  BY ThreadSays DEF O!Slot, O!Ejected
<1>2. d \in away
  BY <1>1, ThreadSays DEF O!Sound
<1>3. said' = O!Gone(d) /\ O!Gone(d) \in O!Faces /\ O!Gone(d).dev = d
  BY <1>1, FaceSays DEF O!Ejected, O!Tell, O!IInv
<1>4. Threads
  BY <1>1, RestTurns DEF O!Ejected
<1>5. DriveStill /\ Tree /\ Fields
  BY FieldsNow DEF O!Ejected, O!shared, DriveStill, Tree, Fields
<1> QED BY <1>2, <1>3, <1>4, <1>5 DEF Steps, Drives, Speaks

LEMMA ReadClassifiesSteps ==
    ASSUME O!IInv, O!ReadClassifies
    PROVE  Steps
PROOF
<1> DEFINE d == thread["command"].media.dev
<1>1. "command" \in O!Slot /\ "classify" \in O!Op \ {"poll", "ejected"} /\ thread["command"].op = "returned"
  BY DEF O!Slot, O!Op, O!ReadClassifies, O!FoundData
<1>2. d \in Drive
  BY <1>1, ThreadSays DEF O!Faces
<1>3. Threads
  BY <1>1, <1>2, StartTurns DEF O!ReadClassifies
<1>4. DriveStill /\ Tree /\ Fields /\ Speaks
  BY <1>2, FieldsNow DEF O!ReadClassifies, O!client, DriveStill, Tree, Fields, Speaks
<1> QED BY <1>3, <1>4 DEF Steps, Drives

\* A command has not polled: what it answers is of its own drive.
LEMMA ReadAnswersSteps ==
    ASSUME O!IInv, O!ReadAnswers
    PROVE  Steps
PROOF
<1> DEFINE t == thread["command"]
<1>1. "command" \in O!Slot /\ t.op = "returned"
  BY DEF O!Slot, O!ReadAnswers
<1>2. t.media \in O!Faces /\ t.media.dev \in Drive /\ O!Sound("command", t)
  BY <1>1, ThreadSays DEF O!Faces
<1>3. t.media.kind = "none" => t.media.dev \in away \/ O!Denied("command")
  BY <1>1, <1>2 DEF O!Sound, O!Denied
<1>4. Threads
  BY <1>1, RestTurns DEF O!ReadAnswers
<1>5. DriveStill /\ Tree
  BY DEF O!ReadAnswers, DriveStill, Tree
<1>6. Fields
  BY <1>2, FieldsNow DEF O!ReadAnswers, Fields
<1>7. Speaks
  BY <1>2, <1>3 DEF O!ReadAnswers, Speaks
<1> QED BY <1>4, <1>5, <1>6, <1>7 DEF Steps, Drives

LEMMA WatchSteps ==
    ASSUME O!IInv, O!WatchOff \/ \E d \in Drive : O!WatchOn(d)
    PROVE  Steps
PROOF
<1>1. Threads
  BY DEF O!WatchOff, O!WatchOn, O!CancelLoop, Threads, Cancels
<1>2. DriveStill /\ Tree /\ Speaks
  BY DEF O!WatchOff, O!WatchOn, O!DropDisc, O!client, DriveStill, Tree, Speaks
<1>3. Fields
  BY FieldsNow DEF O!WatchOff, O!WatchOn, O!CancelLoop, O!DropDisc, Fields
<1> QED BY <1>1, <1>2, <1>3 DEF Steps, Drives

LEMMA EjectSteps ==
    ASSUME O!IInv, NEW d \in Drive, O!Eject(d)
    PROVE  Steps
PROOF
<1>1. "command" \in O!Slot /\ "ioctl" \in O!Op \ {"poll", "ejected"}
  BY DEF O!Slot, O!Op
<1>2. Threads
  BY <1>1, StartTurns DEF O!Eject
<1>3. DriveStill /\ Tree /\ Fields /\ Speaks
  BY FieldsNow DEF O!Eject, O!DropDisc, O!client, DriveStill, Tree, Fields, Speaks
<1> QED BY <1>2, <1>3 DEF Steps, Drives

LEMMA RefreshSteps ==
    ASSUME O!IInv, NEW d \in Drive, O!Refresh(d)
    PROVE  Steps
PROOF
<1>1. said' = O!DataFace(d, cdrom) /\ O!DataFace(d, cdrom) \in O!Faces
      /\ O!DataFace(d, cdrom).kind = "data"
  BY FaceSays DEF O!Refresh, O!IInv
<1>2. DriveStill /\ Tree /\ Fields /\ Threads
  BY FieldsNow DEF O!Refresh, DriveStill, Tree, Fields, Threads
<1> QED BY <1>1, <1>2 DEF Steps, Drives, Speaks

LEMMA ReadSteps ==
    ASSUME O!IInv, NEW d \in Drive, O!Read(d)
    PROVE  Steps
PROOF
<1>1. "command" \in O!Slot /\ "toc" \in O!Op \ {"poll", "ejected"}
  BY DEF O!Slot, O!Op
<1>2. Threads
  BY <1>1, StartTurns DEF O!Read
<1>3. DriveStill /\ Tree /\ Fields /\ Speaks
  BY FieldsNow DEF O!Read, O!shared, O!client, DriveStill, Tree, Fields, Speaks
<1> QED BY <1>2, <1>3 DEF Steps, Drives

LEMMA OpenTrackSteps ==
    ASSUME O!IInv, NEW d \in Drive, O!OpenTrack(d)
    PROVE  Steps
PROOF
<1>1. DriveStill /\ Tree /\ Fields /\ Speaks /\ Threads
  BY FieldsNow DEF O!OpenTrack, O!client, DriveStill, Tree, Fields, Speaks, Threads
<1> QED BY <1>1 DEF Steps, Drives

LEMMA EnvironmentSteps ==
    ASSUME O!IInv, O!Environment
    PROVE  Steps
PROOF
<1>1. PICK d \in Drive : \/ O!Remove(d) \/ O!MountVolume(d) \/ O!UnmountVolume(d)
                         \/ \E x \in O!Disc : O!Insert(d, x)
  BY DEF O!Environment
<1>2. DriveMoves(d)
  BY <1>1 DEF O!Remove, O!MountVolume, O!UnmountVolume, O!Insert, DriveMoves
<1>3. Tree /\ Fields /\ Speaks /\ Threads
  BY <1>1, FieldsNow DEF O!Remove, O!MountVolume, O!UnmountVolume, O!Insert, O!shared, O!client,
                         Tree, Fields, Speaks, Threads
<1> QED BY <1>2, <1>3 DEF Steps, Drives

LEMMA StillSteps ==
    ASSUME O!IInv, UNCHANGED O!vars
    PROVE  Steps
PROOF
<1>1. DriveStill /\ Tree /\ Fields /\ Speaks /\ Threads
  BY FieldsNow DEF O!vars, O!shared, O!client, DriveStill, Tree, Fields, Speaks, Threads
<1> QED BY <1>1 DEF Steps, Drives

LEMMA EveryStep ==
    ASSUME O!IInv, [O!Next]_O!vars
    PROVE  Steps
PROOF
<1>1. ASSUME NEW s \in O!Slot, O!ThreadStep(s)
      PROVE  Steps
  BY <1>1, ReadTocSteps, ClassifySteps, WalkSteps, ResolveSteps, PollSteps DEF O!ThreadStep
<1>2. ASSUME O!LoopStep
      PROVE  Steps
  BY <1>2, LookSteps, LoopClassifiesSteps, LoopForgetsSteps, PublishSteps, SendIndexSteps DEF O!LoopStep
<1>3. ASSUME O!CommandStep
      PROVE  Steps
  BY <1>3, IoctlSteps, EjectedSteps, ReadClassifiesSteps, ReadAnswersSteps DEF O!CommandStep
<1>4. ASSUME O!Client
      PROVE  Steps
  BY <1>4, WatchSteps, EjectSteps, RefreshSteps, ReadSteps, OpenTrackSteps DEF O!Client
<1> QED BY <1>1, <1>2, <1>3, <1>4, EnvironmentSteps, StillSteps DEF O!Next

\* The loop is idle, or works for a watch.
LEMMA LoopWatchesStep ==
    ASSUME O!IInv, [O!Next]_O!vars
    PROVE  O!LoopWatches'
PROOF
<1> DEFINE Busy == thread["loop"].op # "rest" /\ watched' = watched
           Left == thread'["loop"] = thread["loop"] /\ watched' = watched
           Idle == thread'["loop"] = O!Rest
<1>0. thread \in [O!Slot -> O!Turn] /\ "loop" \in O!Slot
  BY DEF O!IInv, O!Typed, O!Slot
<1>1. ASSUME Busy \/ Left \/ Idle \/ watched' # None
      PROVE  O!LoopWatches'
  BY <1>0, <1>1, RestTurn DEF O!IInv, O!LoopWatches
<1>2. ASSUME NEW s \in O!Slot, O!ThreadStep(s)
      PROVE  Busy \/ Left
  <2>1. watched' = watched /\ thread[s].op # "rest"
    BY <1>2 DEF O!ThreadStep, O!ReadToc, O!Classify, O!Walk, O!Resolve, O!Poll, O!shared
  <2>2. \E t : thread' = [thread EXCEPT ![s] = t]
    BY <1>2 DEF O!ThreadStep, O!ReadToc, O!Classify, O!Walk, O!Resolve, O!Poll,
                O!Lost, O!Kept, O!Installed, O!Return, O!Deny, O!Answer, O!Becomes
  <2> QED BY <1>0, <2>1, <2>2
<1>3. ASSUME O!LoopStep
      PROVE  Busy \/ Left \/ watched' # None
  BY <1>3 DEF O!LoopStep, O!Look, O!LoopClassifies, O!FoundData, O!LoopForgets,
             O!Raised, O!Publish, O!SendIndex, O!shared
<1>4. ASSUME O!CommandStep
      PROVE  Left
  BY <1>0, <1>4 DEF O!CommandStep, O!Ioctl, O!Ejected, O!ReadClassifies, O!ReadAnswers,
                    O!Becomes, O!shared
<1>5. ASSUME O!Client
      PROVE  Left \/ Idle
  <2>1. ASSUME O!WatchOff \/ \E d \in Drive : O!WatchOn(d)
        PROVE  Idle
    BY <1>0, <2>1 DEF O!WatchOff, O!WatchOn, O!CancelLoop
  <2>2. ASSUME NEW d \in Drive, O!Eject(d) \/ O!Refresh(d) \/ O!Read(d) \/ O!OpenTrack(d)
        PROVE  Left
    BY <1>0, <2>2 DEF O!Eject, O!Refresh, O!Read, O!OpenTrack, O!Becomes, O!shared
  <2> QED BY <1>5, <2>1, <2>2 DEF O!Client
<1>6. ASSUME O!Environment \/ UNCHANGED O!vars
      PROVE  Left
  BY <1>6 DEF O!Environment, O!Remove, O!MountVolume, O!UnmountVolume, O!Insert, O!vars, O!shared
<1> HIDE DEF Busy, Left, Idle
<1> QED BY <1>1, <1>2, <1>3, <1>4, <1>5, <1>6 DEF O!Next

-----------------------------------------------------------------------------
(* The theorems.                                                           *)

LEMMA OpticalStep == O!IInv /\ [O!Next]_O!vars => O!IInv'
PROOF
<1> SUFFICES ASSUME O!IInv, [O!Next]_O!vars
             PROVE  O!IInv'
  OBVIOUS
<1>0. O!Typed /\ O!EmptyIsAway /\ O!TreeSeen /\ O!ThreadsSound
  BY DEF O!IInv
<1>1. Drives /\ Threads /\ Tree /\ Fields
  BY EveryStep DEF Steps
<1>2. /\ disc' \in [Drive -> O!Disc \cup {None}]
      /\ away' \subseteq Drive /\ O!EmptyIsAway'
      /\ \A d \in Drive : \A id : O!Seen(d, id) => O!Seen(d, id)'
  BY <1>0, <1>1, DrivesKeep
<1>3. thread' \in [O!Slot -> O!Turn] /\ O!ThreadsSound'
  BY <1>0, <1>1, ThreadsKeep
<1>4. cdrom' \in [dev : Drive, id : Volume \cup {None}] \cup {None}
  BY <1>0, <1>1 DEF Tree, O!Typed
<1>5. O!TreeSeen'
  <2>1. ASSUME cdrom' # None
        PROVE  \E d \in Drive, id \in Volume \cup {None} :
                 cdrom'.dev = d /\ cdrom'.id = id /\ O!Seen(d, id)
    BY <1>0, <1>1, <2>1 DEF Tree, O!Typed, O!TreeSeen
  <2> QED BY <1>2, <2>1 DEF O!TreeSeen, O!Seen
<1>6. O!Typed'
  BY <1>1, <1>2, <1>3, <1>4 DEF Fields, O!Typed
<1> QED BY <1>2, <1>3, <1>5, <1>6, LoopWatchesStep DEF O!IInv

\* The invariant of the optical session, for any drives and discs.
THEOREM OpticalInductive == O!Spec => []O!IInv
PROOF BY OpticalInit, OpticalStep, PTL DEF O!Spec

\* Every variable has its type, and what is mounted is in its drive.
THEOREM OpticalTypeCorrect ==
    ASSUME None \notin Volume
    PROVE  O!Spec => []O!TypeOK
PROOF
<1> DEFINE Mounts == mounted \subseteq {d \in Drive : disc[d] \in Volume}
<1>1. O!Init => Mounts
  BY DEF O!Init
<1>2. ASSUME O!IInv, Mounts, [O!Next]_O!vars
      PROVE  Mounts'
  <2>1. disc \in [Drive -> O!Disc \cup {None}] /\ Drives
    BY <1>2, EveryStep DEF O!IInv, O!Typed, Steps
  <2>2. CASE DriveStill
    BY <1>2, <2>2 DEF DriveStill
  <2>3. ASSUME NEW e \in Drive, DriveMoves(e)
        PROVE  Mounts'
    BY <1>2, <2>1, <2>3 DEF DriveMoves
  <2> QED BY <2>1, <2>2, <2>3 DEF Drives
<1>3. O!IInv /\ Mounts => O!TypeOK
  <2> SUFFICES ASSUME O!IInv, Mounts PROVE O!TypeOK
    OBVIOUS
  <2>1. \A s \in O!Slot : thread[s].op \in
          {"rest", "returned", "toc", "classify", "walk", "resolve", "poll", "ioctl", "ejected"}
    BY ThreadSays, RestTurn DEF O!Op
  <2> QED BY <2>1 DEF O!IInv, O!Typed, O!TypeOK
<1> QED BY <1>1, <1>2, <1>3, OpticalInductive, PTL DEF O!Spec

\* With one drive, a disc that stayed in it, its volume mounted, is told gone
\* only when that very answer came from a device that did not open, an error
\* of diskutil or a command's classification that raised; never for another
\* read that raises, a call that times out, an orphan or an older answer.
THEOREM OneDriveKeepsFace ==
    ASSUME \A d, e \in Drive : d = e
    PROVE  O!Spec => O!KeepsFace
PROOF
<1>1. ASSUME O!IInv, [O!Next]_O!vars
      PROVE  [O!ToldGone => said.dev \in away \/ O!Denied(hand')]_said
  <2>1. Speaks /\ away \subseteq Drive
    BY <1>1, EveryStep DEF Steps, O!IInv, O!Typed
  <2> QED BY <2>1 DEF Speaks, O!Faces, O!ToldGone
<1> QED BY <1>1, OpticalInductive, PTL DEF O!Spec, O!KeepsFace

\* Of any number of drives, a command never tells one gone that was not, but
\* for a call of its own read that failed.
THEOREM CommandKeeps == O!Spec => O!CommandKeepsFace
PROOF
<1>1. ASSUME O!IInv, [O!Next]_O!vars
      PROVE  [O!ToldGone /\ hand' = "command" => said.dev \in away \/ O!Denied("command")]_said
  <2>1. Speaks
    BY <1>1, EveryStep DEF Steps
  <2> QED BY <2>1 DEF Speaks, O!ToldGone
<1> QED BY <1>1, OpticalInductive, PTL DEF O!Spec, O!CommandKeepsFace

-----------------------------------------------------------------------------
(* The reader of a track.                                                 *)

CONSTANTS Thread, Count, RingSectors, MaxSeeks, MaxFails
VARIABLES ring, generation, closed, cursor, head, body, seeks, fails

R == INSTANCE CddaReader

LEMMA ReaderInit ==
    ASSUME R!Init
    PROVE  R!IInv
PROOF
<1>1. R!Typed
  <2>1. R!Ended \in R!Body
    BY DEF R!Ended, R!Body, R!Data
  <2> QED BY <2>1 DEF R!Init, R!Typed
<1>2. R!RingIsTheTrack
  BY DEF R!Init, R!RingIsTheTrack
<1>3. R!CursorTrue /\ R!FilledTrue
  BY DEF R!Init, R!CursorTrue, R!FilledTrue, R!Fills, R!Ended
<1>4. R!PrimeEmpty
  BY DEF R!Init, R!PrimeEmpty, R!Ended
<1> QED BY <1>1, <1>2, <1>3, <1>4 DEF R!IInv

LEMMA EndedSays == R!Ended \in R!Body /\ R!Ended.at = "ended"
PROOF BY DEF R!Ended, R!Body, R!Data

LEMMA BodySays ==
    ASSUME R!Typed, NEW t \in Thread
    PROVE  /\ body[t] \in R!Body /\ R!Wanted(t) \in Nat
           /\ body[t].filled \in R!Data /\ Len(body[t].filled) \in Nat
           /\ body[t].index \in Nat
PROOF
<1>1. body[t] \in R!Body
  BY DEF R!Typed
<1>2. body[t].filled \in R!Data /\ body[t].index \in Nat
  BY <1>1 DEF R!Body
<1>3. Len(body[t].filled) \in Nat
  BY <1>2 DEF R!Data
<1> QED BY <1>1, <1>2, <1>3 DEF R!Wanted

\* A body that goes on stays a body.
LEMMA GoesSays ==
    ASSUME R!Typed, NEW t \in Thread, NEW b \in R!Body, R!Goes(t, b)
    PROVE  /\ body' \in [Thread -> R!Body] /\ body'[t] = b
           /\ \A u \in Thread : u # t => body'[u] = body[u]
PROOF BY DEF R!Typed, R!Goes

LEMMA MovesSays ==
    ASSUME R!Typed, NEW t \in Thread, NEW a, R!Moves(t, a),
           a \in {"ended", "sector", "prime", "read", "position", "take", "keep", "check", "yield"}
    PROVE  /\ body' \in [Thread -> R!Body]
           /\ body'[t].at = a /\ body'[t].index = body[t].index /\ body'[t].gen = body[t].gen
           /\ body'[t].filled = body[t].filled
           /\ \A u \in Thread : u # t => body'[u] = body[u]
PROOF
<1> DEFINE b == [body[t] EXCEPT !.at = a]
<1>1. body[t] \in R!Body
  BY DEF R!Typed
<1>2. /\ b \in R!Body /\ b.at = a /\ b.index = body[t].index /\ b.gen = body[t].gen
      /\ b.filled = body[t].filled
  BY <1>1 DEF R!Body
<1>3. body' = [body EXCEPT ![t] = b]
  BY DEF R!Moves
<1> HIDE DEF b
<1> QED BY <1>2, <1>3 DEF R!Typed

\* The ring and the source are left alone by a step after which the threads
\* that fill are those that did, or fewer, with what they had.
LEMMA LeftAlone ==
    ASSUME R!IInv, body' \in [Thread -> R!Body],
           ring' \in {ring, None}, cursor' = cursor, head' = head, closed' = closed,
           generation' \in Nat,
           \A t \in Thread : R!Fills(t)' =>
              \/ /\ R!Fills(t) /\ body'[t].filled = body[t].filled /\ body'[t].index = body[t].index
                 /\ body'[t].at \in {"take", "keep"} <=> body[t].at \in {"take", "keep"}
              \/ body'[t].at = "read" /\ body'[t].filled = <<>>,
           \A t \in Thread : body[t].at \in {"take", "keep"} => body'[t].at = body[t].at,
           R!PrimeEmpty'
    PROVE  R!IInv'
PROOF
<1>1. R!Typed'
  BY DEF R!IInv, R!Typed
<1>2. R!RingIsTheTrack'
  BY DEF R!IInv, R!RingIsTheTrack
<1>3. ASSUME ~closed'
      PROVE  R!CursorTrue' /\ R!FilledTrue'
  <2>1. R!CursorTrue /\ R!FilledTrue
    BY <1>3 DEF R!IInv
  <2>2. R!FilledTrue'
    <3> SUFFICES ASSUME NEW t \in Thread, R!Fills(t)', NEW k \in 1 .. Len(body'[t].filled)
                 PROVE  body'[t].filled[k] \in {body'[t].index + k - 1, None}
      BY DEF R!FilledTrue
    <3> QED BY <2>1 DEF R!FilledTrue
  <2>3. \A t \in Thread : body'[t].at \in {"take", "keep"} =>
          body'[t].at = body[t].at /\ body'[t].filled = body[t].filled
          /\ body'[t].index = body[t].index
    BY DEF R!Fills
  <2>4. R!CursorTrue'
    BY <2>1, <2>3 DEF R!CursorTrue, R!Wanted, R!Failed
  <2> QED BY <2>2, <2>4
<1> QED BY <1>1, <1>2, <1>3 DEF R!IInv

\* A step of one thread that neither fills nor moves the source.
LEMMA OneGoes ==
    ASSUME R!IInv, NEW t \in Thread, NEW b \in R!Body, R!Goes(t, b),
           ring' \in {ring, None}, UNCHANGED <<generation, closed, cursor, head>>,
           body[t].at \notin {"take", "keep"},
           b.at \in {"prime", "read"} => b.filled = <<>>,
           b.at \notin {"position", "take", "keep"}
    PROVE  R!IInv'
PROOF
<1>1. /\ body' \in [Thread -> R!Body] /\ body'[t] = b
      /\ \A u \in Thread : u # t => body'[u] = body[u]
  BY GoesSays DEF R!IInv
<1>2. R!PrimeEmpty'
  BY <1>1 DEF R!IInv, R!PrimeEmpty
<1>3. generation' \in Nat
  BY DEF R!IInv, R!Typed
<1>4. \A u \in Thread : R!Fills(u)' =>
         \/ /\ R!Fills(u) /\ body'[u].filled = body[u].filled /\ body'[u].index = body[u].index
            /\ body'[u].at \in {"take", "keep"} <=> body[u].at \in {"take", "keep"}
         \/ body'[u].at = "read" /\ body'[u].filled = <<>>
  BY <1>1 DEF R!Fills
<1>5. \A u \in Thread : body[u].at \in {"take", "keep"} => body'[u].at = body[u].at
  BY <1>1
<1> QED BY <1>1, <1>2, <1>3, <1>4, <1>5, LeftAlone

LEMMA SeekStep ==
    ASSUME Count \in Nat, R!IInv, NEW t \in Thread, NEW i \in R!Sector, R!Seek(t, i)
    PROVE  R!IInv'
PROOF
<1> DEFINE b == [R!Ended EXCEPT !.at = "sector", !.index = i, !.left = FALSE]
           l(u) == [body[u] EXCEPT !.left = TRUE]
<1>1. b \in R!Body /\ b.at = "sector"
  <2>1. i \in Nat
    BY DEF R!Sector
  <2>2. R!Ended \in R!Body
    BY EndedSays
  <2> QED BY <2>1, <2>2 DEF R!Body
<1>2. \A u \in Thread : l(u) \in R!Body /\ l(u).at = body[u].at
                          /\ l(u).index = body[u].index /\ l(u).filled = body[u].filled
  <2> TAKE u \in Thread
  <2>1. body[u] \in R!Body
    BY DEF R!IInv, R!Typed
  <2> QED BY <2>1 DEF R!Body
<1>3. body' = [u \in Thread |-> IF u = t THEN b ELSE l(u)]
  BY DEF R!Seek
<1>4. body[t].at = "ended"
  BY DEF R!Seek
<1> HIDE DEF b, l
<1>5. body' \in [Thread -> R!Body]
  BY <1>1, <1>2, <1>3
<1>6. \A u \in Thread : \/ u = t /\ body'[u].at = "sector"
                        \/ /\ body'[u].at = body[u].at /\ body'[u].index = body[u].index
                           /\ body'[u].filled = body[u].filled
  BY <1>1, <1>2, <1>3
<1>7. R!PrimeEmpty'
  BY <1>6 DEF R!IInv, R!PrimeEmpty
<1>8. generation' \in Nat
  BY DEF R!Seek, R!IInv, R!Typed
<1>9. \A u \in Thread : R!Fills(u)' =>
         /\ R!Fills(u) /\ body'[u].filled = body[u].filled /\ body'[u].index = body[u].index
         /\ body'[u].at \in {"take", "keep"} <=> body[u].at \in {"take", "keep"}
  BY <1>6 DEF R!Fills
<1>10. \A u \in Thread : body[u].at \in {"take", "keep"} => body'[u].at = body[u].at
  BY <1>4, <1>6
<1>11. ring' = ring /\ cursor' = cursor /\ head' = head /\ closed' = closed
  BY DEF R!Seek
<1> QED BY <1>5, <1>7, <1>8, <1>9, <1>10, <1>11, LeftAlone

LEMMA SectorAtStep ==
    ASSUME R!IInv, NEW t \in Thread, R!SectorAt(t)
    PROVE  R!IInv'
PROOF
<1> DEFINE a == IF R!InRing(body[t].index) THEN "yield" ELSE "prime"
           b == [body[t] EXCEPT !.gen = generation, !.filled = <<>>, !.at = a]
<1>1. body[t] \in R!Body /\ generation \in Nat /\ a \in {"yield", "prime"} /\ <<>> \in R!Data
  BY DEF R!IInv, R!Typed, R!Data
<1>2. R!Goes(t, IF closed THEN R!Ended ELSE b)
  BY DEF R!SectorAt
<1> HIDE DEF a
<1>3. b \in R!Body /\ b.at \in {"yield", "prime"} /\ b.filled = <<>>
  BY <1>1 DEF R!Body
<1> HIDE DEF b
<1>4. body[t].at = "sector" /\ ring' = ring /\ UNCHANGED <<generation, closed, cursor, head>>
  BY DEF R!SectorAt
<1>5. CASE closed
  BY <1>2, <1>4, <1>5, EndedSays, OneGoes
<1>6. CASE ~closed
  BY <1>2, <1>3, <1>4, <1>6, OneGoes
<1> QED BY <1>5, <1>6

LEMMA PrimeStart ==
    ASSUME R!IInv, NEW t \in Thread, R!Prime(t)
    PROVE  R!IInv'
PROOF
<1> DEFINE b == [body[t] EXCEPT !.at = IF R!InRing(body[t].index) THEN "check" ELSE "read"]
<1>1. body[t] \in R!Body /\ body[t].at = "prime" /\ body[t].filled = <<>>
  BY DEF R!IInv, R!Typed, R!PrimeEmpty, R!Prime
<1>2. b \in R!Body /\ b.at \in {"check", "read"} /\ b.filled = <<>>
  BY <1>1 DEF R!Body
<1>3. R!Goes(t, IF R!Canceled(t) THEN R!Ended ELSE b)
  BY DEF R!Prime
<1> HIDE DEF b
<1>4. ring' \in {ring, None} /\ UNCHANGED <<generation, closed, cursor, head>>
  BY DEF R!Prime
<1>5. CASE R!Canceled(t)
  BY <1>1, <1>3, <1>4, <1>5, EndedSays, OneGoes
<1>6. CASE ~R!Canceled(t)
  BY <1>1, <1>2, <1>3, <1>4, <1>6, OneGoes
<1> QED BY <1>5, <1>6

\* A prime that has all it wanted, and is still wanted, puts it in place.
LEMMA PrimeStepStep ==
    ASSUME R!IInv, NEW t \in Thread, R!PrimeStep(t)
    PROVE  R!IInv'
PROOF
<1>1. body[t] \in R!Body /\ body[t].at = "read" /\ body[t].index \in Nat /\ body[t].filled \in R!Data
  BY BodySays DEF R!IInv, R!PrimeStep
<1>2. UNCHANGED <<generation, closed, cursor, head>>
  BY DEF R!PrimeStep
<1>3. CASE R!Goes(t, R!Ended) /\ ring' = ring
  BY <1>1, <1>2, <1>3, EndedSays, OneGoes
<1>4. ASSUME ~closed, ring' = [start |-> body[t].index, data |-> body[t].filled], R!Moves(t, "check")
      PROVE  R!IInv'
  <2>1. /\ body' \in [Thread -> R!Body] /\ body'[t].at = "check"
        /\ \A u \in Thread : u # t => body'[u] = body[u]
    BY <1>4, MovesSays DEF R!IInv
  <2>2. R!Typed'
    BY <1>1, <1>2, <1>4, <2>1 DEF R!IInv, R!Typed
  <2>3. R!RingIsTheTrack'
    BY <1>1, <1>4 DEF R!IInv, R!FilledTrue, R!Fills, R!RingIsTheTrack
  <2>4. R!PrimeEmpty'
    BY <2>1 DEF R!IInv, R!PrimeEmpty
  <2>5. \A u \in Thread : R!Fills(u)' => u # t /\ R!Fills(u) /\ body'[u] = body[u]
    BY <2>1 DEF R!Fills
  <2>6. R!FilledTrue'
    BY <1>4, <2>5 DEF R!IInv, R!FilledTrue
  <2>7. R!CursorTrue'
    BY <1>1, <1>2, <1>4, <2>1 DEF R!IInv, R!CursorTrue, R!Wanted, R!Failed
  <2> QED BY <2>2, <2>3, <2>4, <2>6, <2>7 DEF R!IInv
<1>5. ASSUME ring' = ring, R!Moves(t, "position")
      PROVE  R!IInv'
  <2>1. /\ body' \in [Thread -> R!Body] /\ body'[t].at = "position"
        /\ body'[t].index = body[t].index /\ body'[t].filled = body[t].filled
        /\ \A u \in Thread : u # t => body'[u] = body[u]
    BY <1>5, MovesSays DEF R!IInv
  <2>2. R!PrimeEmpty'
    BY <2>1 DEF R!IInv, R!PrimeEmpty
  <2>3. \A u \in Thread : R!Fills(u)' =>
           /\ R!Fills(u) /\ body'[u].filled = body[u].filled /\ body'[u].index = body[u].index
           /\ body'[u].at \in {"take", "keep"} <=> body[u].at \in {"take", "keep"}
    BY <1>1, <2>1 DEF R!Fills
  <2>4. \A u \in Thread : body[u].at \in {"take", "keep"} => body'[u].at = body[u].at
    BY <1>1, <2>1
  <2>5. generation' \in Nat
    BY <1>2 DEF R!IInv, R!Typed
  <2> QED BY <1>2, <1>5, <2>1, <2>2, <2>3, <2>4, <2>5, LeftAlone
<1>6. \/ R!Goes(t, R!Ended) /\ ring' = ring
      \/ /\ ~closed /\ R!Moves(t, "check")
         /\ ring' = [start |-> body[t].index, data |-> body[t].filled]
      \/ ring' = ring /\ R!Moves(t, "position")
  BY DEF R!PrimeStep, R!Canceled
<1> QED BY <1>3, <1>4, <1>5, <1>6

\* What the three steps of read_sector leave as it is, for the thread that is
\* alone with the source.
LEMMA SourceStep ==
    ASSUME R!IInv, R!Alone, NEW t \in Thread, R!Fills(t), NEW b \in R!Body,
           b.at \in {"take", "keep", "read"}, R!Goes(t, b),
           ring' = ring, generation' = generation, closed' = closed,
           cursor' \in Nat \cup {None}, head' \in Nat,
           ~closed =>
             /\ b.at = "read" /\ cursor' # None => head' = cursor'
             /\ b.at = "take" => head' = b.index + Len(b.filled)
             /\ b.at = "keep" => IF b.filled[Len(b.filled)] = None
                                 THEN head' + 1 = b.index + Len(b.filled)
                                 ELSE head' = b.index + Len(b.filled)
             /\ \A k \in 1 .. Len(b.filled) : b.filled[k] \in {b.index + k - 1, None}
    PROVE  R!IInv'
PROOF
<1>1. /\ body' \in [Thread -> R!Body] /\ body'[t] = b
      /\ \A u \in Thread : u # t => body'[u] = body[u]
  BY GoesSays DEF R!IInv
<1>2. \A u \in Thread : u # t => ~R!Fills(u)
  BY DEF R!Alone
<1>3. R!Typed'
  BY <1>1 DEF R!IInv, R!Typed
<1>4. R!RingIsTheTrack'
  BY DEF R!IInv, R!RingIsTheTrack
<1>5. R!PrimeEmpty'
  BY <1>1 DEF R!IInv, R!PrimeEmpty
<1>6. ASSUME ~closed'
      PROVE  R!CursorTrue' /\ R!FilledTrue'
  <2>1. \A u \in Thread : u # t => ~R!Fills(u)'
    BY <1>1, <1>2 DEF R!Fills
  <2>2. R!FilledTrue'
    <3> SUFFICES ASSUME NEW u \in Thread, R!Fills(u)', NEW k \in 1 .. Len(body'[u].filled)
                 PROVE  body'[u].filled[k] \in {body'[u].index + k - 1, None}
      BY DEF R!FilledTrue
    <3>1. u = t
      BY <2>1
    <3> QED BY <1>1, <1>6, <3>1
  <2>3. \A u \in Thread : body'[u].at \in {"take", "keep"} => u = t
    BY <2>1 DEF R!Fills
  <2>4. R!CursorTrue'
    BY <1>1, <1>6, <2>3 DEF R!CursorTrue, R!Wanted, R!Failed
  <2> QED BY <2>2, <2>4
<1> QED BY <1>3, <1>4, <1>5, <1>6 DEF R!IInv

LEMMA AtSays ==
    ASSUME R!IInv, NEW t \in Thread, NEW a \in {"take", "read"}
    PROVE  LET b == [body[t] EXCEPT !.at = a] IN
           /\ b \in R!Body /\ b.at = a /\ b.index = body[t].index /\ b.filled = body[t].filled
PROOF
<1>1. body[t] \in R!Body
  BY DEF R!IInv, R!Typed
<1> QED BY <1>1 DEF R!Body

LEMMA PositionStep ==
    ASSUME None \notin Nat, R!IInv, R!Alone, NEW t \in Thread, R!Position(t)
    PROVE  R!IInv'
PROOF
<1> DEFINE b == [body[t] EXCEPT !.at = "take"]
<1>1. /\ b \in R!Body /\ b.at = "take" /\ b.index = body[t].index /\ b.filled = body[t].filled
  BY AtSays
<1>2. R!Goes(t, b)
  BY DEF R!Position, R!Moves, R!Goes
<1> HIDE DEF b
<1>3. body[t].at = "position" /\ UNCHANGED <<ring, generation, closed, cursor>>
      /\ head' = IF cursor # R!Wanted(t) THEN R!Wanted(t) ELSE head
  BY DEF R!Position
<1>4. R!Wanted(t) \in Nat /\ head \in Nat /\ cursor \in Nat \cup {None}
  BY BodySays DEF R!IInv, R!Typed
<1>5. R!Fills(t) /\ \A u \in Thread : body[u].at \notin {"take", "keep"}
  BY <1>3 DEF R!Alone, R!Fills
<1>6. ASSUME ~closed
      PROVE  head' = R!Wanted(t)
  BY <1>3, <1>4, <1>5, <1>6 DEF R!IInv, R!CursorTrue
<1>7. ASSUME ~closed
      PROVE  /\ head' = b.index + Len(b.filled)
             /\ \A k \in 1 .. Len(b.filled) : b.filled[k] \in {b.index + k - 1, None}
  BY <1>1, <1>5, <1>6, <1>7 DEF R!IInv, R!FilledTrue, R!Wanted
<1>8. head' \in Nat /\ cursor' \in Nat \cup {None}
  BY <1>3, <1>4
<1> QED BY <1>1, <1>2, <1>3, <1>5, <1>7, <1>8, SourceStep

\* What a thread has read, and where the source stands then.
LEMMA GetsStep ==
    ASSUME None \notin Nat, R!IInv, R!Alone, NEW t \in Thread, body[t].at = "take",
           NEW x \in Nat \cup {None}, R!Gets(t, x), head' \in Nat,
           ring' = ring, generation' = generation, closed' = closed, cursor' = cursor,
           ~closed => \/ x = head /\ head' = head + 1
                      \/ x = None /\ head' = head
    PROVE  R!IInv'
PROOF
<1> DEFINE f == Append(body[t].filled, x)
           b == [body[t] EXCEPT !.at = "keep", !.filled = f]
<1>1. body[t] \in R!Body /\ body[t].filled \in R!Data /\ body[t].index \in Nat /\ head \in Nat
  BY BodySays DEF R!IInv, R!Typed
<1>2. /\ f \in R!Data /\ Len(f) = Len(body[t].filled) + 1
      /\ \A k \in 1 .. Len(body[t].filled) : f[k] = body[t].filled[k]
      /\ f[Len(f)] = x /\ Len(body[t].filled) \in Nat
  BY <1>1 DEF R!Data
<1>3. R!Goes(t, b)
  BY DEF R!Gets, R!Goes
<1> HIDE DEF f
<1>4. b \in R!Body /\ b.at = "keep" /\ b.index = body[t].index /\ b.filled = f
  BY <1>1, <1>2 DEF R!Body
<1> HIDE DEF b
<1>5. R!Fills(t)
  BY DEF R!Fills
<1>6. ASSUME ~closed
      PROVE  /\ IF b.filled[Len(b.filled)] = None THEN head' + 1 = b.index + Len(b.filled)
                                                 ELSE head' = b.index + Len(b.filled)
             /\ \A k \in 1 .. Len(b.filled) : b.filled[k] \in {b.index + k - 1, None}
  <2>1. head = body[t].index + Len(body[t].filled)
    BY <1>6 DEF R!IInv, R!CursorTrue, R!Wanted
  <2>2. \A k \in 1 .. Len(body[t].filled) : body[t].filled[k] \in {body[t].index + k - 1, None}
    BY <1>5, <1>6 DEF R!IInv, R!FilledTrue
  <2>3. b.index + Len(b.filled) = head + 1
    <3>1. Len(b.filled) = Len(body[t].filled) + 1 /\ b.index = body[t].index
      BY <1>2, <1>4
    <3>2. ASSUME NEW i \in Nat, NEW n \in Nat, head = i + n
          PROVE  i + (n + 1) = head + 1
      BY <3>2
    <3> QED BY <1>1, <1>2, <2>1, <3>1, <3>2
  <2>4. b.filled[Len(b.filled)] = x
    BY <1>2, <1>4
  <2>5. IF b.filled[Len(b.filled)] = None THEN head' + 1 = b.index + Len(b.filled)
                                          ELSE head' = b.index + Len(b.filled)
    BY <1>1, <1>6, <2>3, <2>4
  <2>6. ASSUME NEW k \in 1 .. Len(b.filled)
        PROVE  b.filled[k] \in {b.index + k - 1, None}
    <3>1. CASE k = Len(f)
      BY <1>1, <1>2, <1>4, <1>6, <2>1, <3>1
    <3>2. CASE k # Len(f)
      <4>1. k \in 1 .. Len(body[t].filled)
        BY <1>2, <1>4, <3>2
      <4>2. b.filled[k] = body[t].filled[k] /\ b.index = body[t].index
        BY <1>2, <1>4, <4>1
      <4>3. body[t].filled[k] \in {body[t].index + k - 1, None}
        BY <2>2, <4>1
      <4> QED BY <4>2, <4>3
    <3> QED BY <3>1, <3>2
  <2> QED BY <2>5, <2>6
<1>7. cursor' \in Nat \cup {None}
  BY DEF R!IInv, R!Typed
<1> QED BY <1>3, <1>4, <1>5, <1>6, <1>7, SourceStep

LEMMA TakeStep ==
    ASSUME None \notin Nat, R!IInv, R!Alone, NEW t \in Thread, R!Take(t)
    PROVE  R!IInv'
PROOF
<1>1. head \in Nat
  BY DEF R!IInv, R!Typed
<1>2. body[t].at = "take" /\ UNCHANGED <<ring, generation, closed, cursor>>
  BY DEF R!Take
<1>3. CASE ~closed /\ R!Gets(t, head) /\ head' = head + 1
  BY <1>1, <1>2, <1>3, GetsStep
<1>4. CASE R!Gets(t, None) /\ head' = head
  BY <1>1, <1>2, <1>4, GetsStep
<1> QED BY <1>3, <1>4 DEF R!Take

\* A read that fails leaves source and cursor alone: they agree as they did,
\* unless there was a seek before.
LEMMA KeepStep ==
    ASSUME R!IInv, R!Alone, R!FailsInPlace, NEW t \in Thread, R!Keep(t)
    PROVE  R!IInv'
PROOF
<1> DEFINE b == [body[t] EXCEPT !.at = "read"]
<1>1. /\ b \in R!Body /\ b.at = "read" /\ b.index = body[t].index /\ b.filled = body[t].filled
  BY AtSays
<1>2. R!Goes(t, b)
  BY DEF R!Keep, R!Moves, R!Goes
<1> HIDE DEF b
<1>3. body[t].at = "keep" /\ UNCHANGED <<ring, generation, closed, head>>
      /\ cursor' = IF R!Failed(t) THEN cursor ELSE R!Wanted(t)
  BY DEF R!Keep
<1>4. R!Wanted(t) \in Nat /\ head \in Nat /\ cursor \in Nat \cup {None} /\ R!Fills(t)
  BY <1>3, BodySays DEF R!IInv, R!Typed, R!Fills
<1>5. ASSUME ~closed
      PROVE  /\ cursor' # None => head' = cursor'
             /\ \A k \in 1 .. Len(b.filled) : b.filled[k] \in {b.index + k - 1, None}
  <2>1. IF R!Failed(t) THEN head + 1 = R!Wanted(t) ELSE head = R!Wanted(t)
    BY <1>3, <1>5 DEF R!IInv, R!CursorTrue
  <2>2. R!Failed(t) => cursor # None /\ cursor + 1 = R!Wanted(t)
    BY <1>3, <1>5 DEF R!FailsInPlace
  <2>3. cursor' # None => head' = cursor'
    BY <1>3, <1>4, <2>1, <2>2
  <2>4. \A k \in 1 .. Len(b.filled) : b.filled[k] \in {b.index + k - 1, None}
    BY <1>1, <1>4, <1>5 DEF R!IInv, R!FilledTrue
  <2> QED BY <2>3, <2>4
<1>6. head' \in Nat /\ cursor' \in Nat \cup {None}
  BY <1>3, <1>4
<1> QED BY <1>1, <1>2, <1>3, <1>4, <1>5, <1>6, SourceStep

LEMMA YieldStep ==
    ASSUME R!IInv, NEW t \in Thread, R!Check(t) \/ R!Yield(t)
    PROVE  R!IInv'
PROOF
<1> DEFINE c == [body[t] EXCEPT !.at = "yield"]
           s == [body[t] EXCEPT !.at = "sector", !.index = @ + 1]
<1>1. body[t] \in R!Body /\ body[t].index + 1 \in Nat
  BY BodySays DEF R!IInv
<1>2. c \in R!Body /\ c.at = "yield"
  BY <1>1 DEF R!Body
<1>3. s \in R!Body /\ s.at = "sector"
  BY <1>1 DEF R!Body
<1>4. R!Goes(t, R!Ended) \/ R!Goes(t, c) \/ R!Goes(t, s)
  BY DEF R!Check, R!Yield, R!Moves, R!Goes
<1> HIDE DEF c, s
<1>5. body[t].at \in {"check", "yield"} /\ UNCHANGED <<ring, generation, closed, cursor, head>>
  BY DEF R!Check, R!Yield
<1> QED BY <1>2, <1>3, <1>4, <1>5, EndedSays, OneGoes

LEMMA CloseStep ==
    ASSUME R!IInv, R!Close
    PROVE  R!IInv'
PROOF
<1>1. R!Typed'
  BY DEF R!IInv, R!Typed, R!Close
<1> QED BY <1>1 DEF R!Close, R!IInv, R!RingIsTheTrack, R!PrimeEmpty

LEMMA ReaderStep ==
    ASSUME Count \in Nat, None \notin Nat, R!IInv, R!Alone, R!FailsInPlace, [R!Next]_R!vars
    PROVE  R!IInv'
PROOF
<1>1. ASSUME UNCHANGED R!vars
      PROVE  R!IInv'
  <2>1. /\ ring' = ring /\ generation' = generation /\ closed' = closed /\ cursor' = cursor
        /\ head' = head /\ body' = body
    BY <1>1 DEF R!vars
  <2>2. R!Typed' /\ R!RingIsTheTrack' /\ R!PrimeEmpty'
    BY <2>1 DEF R!IInv, R!Typed, R!RingIsTheTrack, R!PrimeEmpty
  <2>3. R!CursorTrue => R!CursorTrue'
    BY <2>1 DEF R!CursorTrue, R!Wanted, R!Failed
  <2>4. R!FilledTrue => R!FilledTrue'
    BY <2>1 DEF R!FilledTrue, R!Fills
  <2> QED BY <2>1, <2>2, <2>3, <2>4 DEF R!IInv
<1>2. ASSUME NEW t \in Thread, \/ \E i \in R!Sector : R!Seek(t, i)
                               \/ R!SectorAt(t) \/ R!Prime(t) \/ R!PrimeStep(t)
      PROVE  R!IInv'
  BY <1>2, SeekStep, SectorAtStep, PrimeStart, PrimeStepStep
<1>3. ASSUME NEW t \in Thread, \/ R!Position(t) \/ R!Take(t) \/ R!Keep(t)
                               \/ R!Check(t) \/ R!Yield(t)
      PROVE  R!IInv'
  BY <1>3, PositionStep, TakeStep, KeepStep, YieldStep
<1> QED BY <1>1, <1>2, <1>3, CloseStep DEF R!Next

\* As long as never two threads fill the ring at a time, and no read fails
\* right after a seek, neither of which the code ensures, the ring is the track
\* or silence, however requests overtake each other, are left and canceled.
THEOREM AloneTheRingIsTheTrack ==
    ASSUME Count \in Nat, None \notin Nat
    PROVE  R!Spec /\ []R!Alone /\ []R!FailsInPlace => []R!RingIsTheTrack
PROOF
<1>1. R!Init => R!IInv
  BY ReaderInit
<1>2. R!IInv /\ R!Alone /\ R!FailsInPlace /\ [R!Next]_R!vars => R!IInv'
  BY ReaderStep
<1>3. R!IInv => R!RingIsTheTrack
  BY DEF R!IInv
<1> QED BY <1>1, <1>2, <1>3, PTL DEF R!Spec
=============================================================================
