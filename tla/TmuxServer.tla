----------------------------- MODULE TmuxServer -----------------------------
(***************************************************************************)
(* The tmux server of the configured socket, as src/tmux-backend.ts, the   *)
(* Console and deployment/tmux-endpoint-keeper.sh use it: it starts with   *)
(* the first session and exits with the last one, or crashes at any time.  *)
(* A new server counts its panes and processes anew, so their ids come     *)
(* back, and its own pid may be that of an earlier one: only the time at   *)
(* which a process started (/proc/<pid>/stat) tells servers apart.         *)
(*                                                                         *)
(* kill-session -t takes a name that no session has for the beginning of   *)
(* one: the session that begins with it is killed, unless there are many.  *)
(***************************************************************************)
EXTENDS Naturals, FiniteSets

CONSTANTS
  Sessions,     \* names of sessions
  Prefixes,     \* the pairs of names of which the first begins the second
  ServerPids,   \* pids that a server may get
  MaxServers,   \* bound of the model: servers that are started
  MaxPanes,     \* bound of the model: panes that one server makes
  MaxSpawns     \* bound of the model: processes that one server starts in panes

ASSUME PidsArePositive == 0 \notin ServerPids
ASSUME PrefixesAreProper == \A s \in Sessions : <<s, s>> \notin Prefixes

VARIABLES
  generation,   \* how many servers have been started: the start time of the last
  serverPid,    \* its pid, or 0 when it has gone
  made,         \* panes and pane processes that it has started
  panes         \* its panes

serverVars == <<generation, serverPid, made, panes>>

Running == serverPid # 0

ServerInit ==
  /\ generation = 0 /\ serverPid = 0
  /\ made = [panes |-> 0, spawns |-> 0]
  /\ panes = {}

SessionsOf(ps) == {p.session : p \in ps}

\* The identity of what runs in a pane: no two servers start at the same time,
\* no server uses a pane id twice, and none gets a pid again while it runs.
Instance(p) == [pane |-> p.id, pid |-> p.pid, generation |-> generation]
Instances == {Instance(p) : p \in panes}

\* new-session; the first one starts the server.
NewSession(s) ==
  /\ s \notin SessionsOf(panes)
  /\ IF Running
     THEN /\ made.panes < MaxPanes /\ made.spawns < MaxSpawns
          /\ made' = [panes |-> made.panes + 1, spawns |-> made.spawns + 1]
          /\ UNCHANGED <<generation, serverPid>>
     ELSE /\ generation < MaxServers
          /\ generation' = generation + 1
          /\ serverPid' \in ServerPids
          /\ made' = [panes |-> 1, spawns |-> 1]
  /\ panes' = panes \cup {[id |-> made'.panes, pid |-> made'.spawns, session |-> s]}

\* What is left when the panes ps go.
Remove(ps) ==
  /\ panes' = panes \ ps
  /\ serverPid' = IF panes \subseteq ps THEN 0 ELSE serverPid
  /\ UNCHANGED <<generation, made>>

\* The session that a command given -t n is about: the one that has this name, else
\* the only one whose name begins so.
Resolved(n) ==
  LET longer == {s \in SessionsOf(panes) : <<n, s>> \in Prefixes}
  IN  IF n \in SessionsOf(panes) THEN {n} ELSE IF Cardinality(longer) = 1 THEN longer ELSE {}

\* kill-session -t n
PanesOf(s) == {p \in panes : p.session = s}
KillSession(n) == \E s \in Resolved(n) : Remove(PanesOf(s))

\* The process in a pane ends; respawn-pane starts another one in it.
PaneExits(p) == Remove({p})
Respawn(p) ==
  /\ made.spawns < MaxSpawns
  /\ made' = [made EXCEPT !.spawns = @ + 1]
  /\ panes' = (panes \ {p}) \cup {[p EXCEPT !.pid = made.spawns + 1]}
  /\ UNCHANGED <<generation, serverPid>>

\* The window of a pane moves to another session, or the session is renamed.
Move(p, s) ==
  /\ s # p.session
  /\ panes' = (panes \ {p}) \cup {[p EXCEPT !.session = s]}
  /\ UNCHANGED <<generation, serverPid, made>>

Crash ==
  /\ Running
  /\ serverPid' = 0 /\ panes' = {}
  /\ UNCHANGED <<generation, made>>
=============================================================================
