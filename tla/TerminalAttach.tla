--------------------------- MODULE TerminalAttach ---------------------------
(***************************************************************************)
(* Terminal View of the Console: the slots of TerminalAttach               *)
(* (console/src/terminal-attach.ts) and the upgrade handler and bridge     *)
(* that take and return them (console/src/http-app.ts).  A viewer is one   *)
(* upgrade request, its socket and, once it is attached, its pty.          *)
(*                                                                         *)
(* An action is one macrotask.  The handler reserves and the WebSocket     *)
(* library completes or aborts the handshake in the macrotask in which the *)
(* look-up of the Channel is answered.                                     *)
(***************************************************************************)
EXTENDS Naturals, FiniteSets

CONSTANTS
  Viewers,     \* upgrade requests
  MaxAttach    \* CONSOLE_MAX_ATTACH

ASSUME MaxAttachAssumption == MaxAttach \in Nat
ASSUME ViewersAssumption == IsFiniteSet(Viewers)

VARIABLES
  active,      \* the counter of attached terminals
  reserved,    \* the counter of reservations held
  socket,      \* what each socket is to the handler
  pty          \* the tmux client of each viewer

attachVars == <<active, reserved, socket, pty>>

AttachInit ==
  /\ active = 0 /\ reserved = 0
  /\ socket = [v \in Viewers |-> "none"]
  /\ pty = [v \in Viewers |-> "none"]

Sockets == {"none", "refused", "aborting", "open", "closing", "closed"}
Ptys == {"none", "running", "exited", "killed"}

\* dispose of an attached terminal does something once.
Attached(v) == pty[v] = "running"

-----------------------------------------------------------------------------
\* Upgrades are refused with a plain HTTP status.  The loss of the MCP server
\* refuses several in one step.
Refused(V) ==
  /\ V # {} /\ \A v \in V : socket[v] = "none"
  /\ socket' = [v \in Viewers |-> IF v \in V THEN "refused" ELSE socket[v]]
  /\ UNCHANGED <<active, reserved, pty>>

\* resolveTarget or reserve throws for one: a session out of scope, a malformed
\* name or id, or no slot left.
TargetRefused(v) == Refused({v})

\* Seeded fault of SlotLeft: reservations are not counted.
SlotLeftOfActive == active < MaxAttach

\* reserve: reserved and active slots count together.
SlotLeft == active + reserved < MaxAttach

\* The handshake succeeds and commit spawns the pty: the reservation has come
\* and gone within the step.
Opens(v) ==
  /\ socket[v] = "none" /\ SlotLeft
  /\ socket' = [socket EXCEPT ![v] = "open"]
  /\ pty' = [pty EXCEPT ![v] = "running"]
  /\ active' = active + 1
  /\ UNCHANGED reserved

\* It succeeds, but the pty cannot be spawned: commit has given the slot back.
SpawnFails(v) ==
  /\ socket[v] = "none" /\ SlotLeft
  /\ socket' = [socket EXCEPT ![v] = "closing"]
  /\ UNCHANGED <<active, reserved, pty>>

\* The library aborts the handshake: the slot is held until the socket closes.
HandshakeAborts(v) ==
  /\ socket[v] = "none" /\ SlotLeft
  /\ socket' = [socket EXCEPT ![v] = "aborting"]
  /\ reserved' = reserved + 1
  /\ UNCHANGED <<active, pty>>

\* dispose of an attached terminal.
Dispose(v) ==
  IF Attached(v)
  THEN /\ active' = active - 1
       /\ pty' = [pty EXCEPT ![v] = "killed"]
  ELSE UNCHANGED <<active, pty>>

\* The tmux client ends by itself, or because it has been killed: the slot is
\* given back once and the socket is asked to close.
PtyExits(v) ==
  /\ pty[v] \in {"running", "killed"}
  /\ active' = IF Attached(v) THEN active - 1 ELSE active
  /\ pty' = [pty EXCEPT ![v] = "exited"]
  /\ socket' = [socket EXCEPT ![v] = IF @ = "open" THEN "closing" ELSE @]
  /\ UNCHANGED reserved

\* An error of the WebSocket disposes of the terminal before the close.
SocketFails(v) ==
  /\ socket[v] = "open"
  /\ socket' = [socket EXCEPT ![v] = "closing"]
  /\ Dispose(v)
  /\ UNCHANGED reserved

\* The socket closes, whoever has asked for it.
SocketCloses(v) ==
  \/ /\ socket[v] = "aborting"
     /\ socket' = [socket EXCEPT ![v] = "closed"]
     /\ reserved' = reserved - 1
     /\ UNCHANGED <<active, pty>>
  \/ /\ socket[v] \in {"open", "closing"}
     /\ socket' = [socket EXCEPT ![v] = "closed"]
     /\ Dispose(v)
     /\ UNCHANGED reserved

Reserve(v) == Opens(v) \/ SpawnFails(v) \/ HandshakeAborts(v)

\* The process ends: the kernel closes the sockets and hangs the ptys up.
AttachStops ==
  /\ active' = 0 /\ reserved' = 0
  /\ socket' = [v \in Viewers |-> IF socket[v] \in {"aborting", "open", "closing"}
                                  THEN "closed" ELSE socket[v]]
  /\ pty' = [v \in Viewers |-> IF Attached(v) THEN "killed" ELSE pty[v]]

AttachNext ==
  \/ \E V \in SUBSET Viewers : Refused(V)
  \/ \E v \in Viewers : Reserve(v) \/ PtyExits(v) \/ SocketFails(v) \/ SocketCloses(v)
  \/ AttachStops

AttachSpec == AttachInit /\ [][AttachNext]_attachVars

-----------------------------------------------------------------------------
\* The counters are exact and within the limit, whatever ends a terminal: its
\* process, its socket, both, or a handshake that fails; and no tmux client that
\* has not been asked to stop outlives its socket (dispose, commit, reserve).
SlotsExact ==
  /\ active = Cardinality({v \in Viewers : Attached(v)})
  /\ reserved = Cardinality({v \in Viewers : socket[v] = "aborting"})
  /\ active + reserved <= MaxAttach
  /\ \A v \in Viewers : Attached(v) => socket[v] = "open"
=============================================================================
