------------------------------ MODULE Endpoint ------------------------------
(***************************************************************************)
(* Who makes and ends sessions on purpose: supervisors that run            *)
(* deployment/tmux-endpoint-keeper.sh, and the session lifecycle of the    *)
(* Console (console/src/session-lifecycle.ts, handleLifecycle of           *)
(* console/src/http-app.ts), whose tmux commands run after the checks.     *)
(***************************************************************************)
EXTENDS TmuxServer

CONSTANTS
  Supervisors,  \* runs of the keeper script, one after another for each
  Keeper,       \* TMUX_KEEPER_SESSION, which is among the protected sessions
  InScope,      \* the names TMUX_ALLOWED_SESSIONS lets the Console use: all if unset
  MaxAsked      \* bound of the model: commands the Console has under way

ASSUME KeeperIsSession == Keeper \in Sessions

\* No name in scope begins that of the keeper.  Nothing in the code ensures it, for
\* that looks at whole names only.
KeeperOutOfReach == \A n \in InScope : <<n, Keeper>> \notin Prefixes

VARIABLES
  script,       \* where each supervisor is, or how its last run has ended
  calm,         \* nothing has gone wrong for it since that run began
  asked         \* commands that the Console has asked tmux for

endpointVars == <<script, calm, asked>>

EndpointInit ==
  /\ script = [s \in Supervisors |-> "idle"]
  /\ calm = [s \in Supervisors |-> TRUE]
  /\ asked = {}

Rest == {"idle", "ok", "failed"}
KeeperExists == Keeper \in SessionsOf(panes)
KeeperGoes == KeeperExists /\ Keeper \notin SessionsOf(panes')

\* A command of the script of s is answered, and has changed nothing.
Goes(s, stage) == script' = [script EXCEPT ![s] = stage] /\ UNCHANGED <<calm, asked>>
Learns(s, stage) == Goes(s, stage) /\ UNCHANGED serverVars

\* A run begins: ensure, the one operation of the script that changes anything.
Begin(s) ==
  /\ script[s] \in Rest
  /\ script' = [script EXCEPT ![s] = "ensure"]
  /\ calm' = [calm EXCEPT ![s] = TRUE]
  /\ UNCHANGED <<asked, serverVars>>

\* ensure: the keeper is there, or is to be made.
EnsureLooks(s) ==
  /\ script[s] = "ensure"
  /\ Learns(s, IF KeeperExists THEN "ok" ELSE "create")

\* It is made, or another supervisor has been faster.
EnsureCreates(s) ==
  /\ script[s] = "create"
  /\ IF KeeperExists THEN Learns(s, "confirm") ELSE NewSession(Keeper) /\ Goes(s, "ok")

\* Seeded fault of EnsureConfirms: to lose the race is to fail.
EnsureConfirmsNothing(s) ==
  /\ script[s] = "confirm"
  /\ Learns(s, "failed")

EnsureConfirms(s) ==
  /\ script[s] = "confirm"
  /\ Learns(s, IF KeeperExists THEN "ok" ELSE "failed")

\* A command that fails for another reason says no to the script.
ScriptCommandFails(s) ==
  /\ script[s] \notin Rest
  /\ script' = [script EXCEPT ![s] =
       CASE @ = "ensure" -> "create" [] @ = "create" -> "confirm" [] OTHER -> "failed"]
  /\ calm' = [calm EXCEPT ![s] = FALSE]
  /\ UNCHANGED <<asked, serverVars>>

Script(s) ==
  \/ Begin(s) \/ EnsureLooks(s) \/ EnsureCreates(s) \/ EnsureConfirms(s)
  \/ ScriptCommandFails(s)

-----------------------------------------------------------------------------
\* killSession: a name in scope that is not itself a protected one.  createSession
\* has the scope, and a working directory and profile that may be refused as well.
MayKill(n) == n \in InScope /\ n # Keeper
MayCreate(n) == n \in InScope

\* The checks have passed; the tmux command is started.
LifecycleAsks(c) ==
  /\ c \notin asked /\ Cardinality(asked) < MaxAsked
  /\ c[1] = "kill" => MayKill(c[2])
  /\ c[1] = "create" => MayCreate(c[2])
  /\ asked' = asked \cup {c}
  /\ UNCHANGED <<script, calm, serverVars>>

\* It runs, before or after the ten seconds that its answer may take, or not.  The
\* session that is killed is the one tmux finds for the name: it need neither have
\* been checked nor be in scope.  A keeper that is killed by another name, the
\* beginning of its own, disturbs every supervisor.
LifecycleRuns(c) ==
  /\ c \in asked
  /\ asked' = asked \ {c}
  /\ \/ c[1] = "kill" /\ KillSession(c[2])
     \/ c[1] = "create" /\ NewSession(c[2])
     \/ UNCHANGED serverVars
  /\ calm' = IF KeeperGoes /\ c[2] # Keeper THEN [s \in Supervisors |-> FALSE] ELSE calm
  /\ UNCHANGED script

Lifecycle == \E c \in {"kill", "create"} \X Sessions : LifecycleAsks(c) \/ LifecycleRuns(c)

\* Panes come and go by themselves, too, and the server may crash.  A keeper that
\* goes in this way disturbs every supervisor.
Outside ==
  /\ \/ \E s \in Sessions \ {Keeper} : NewSession(s)
     \/ \E p \in panes : PaneExits(p) \/ Respawn(p) \/ \E s \in Sessions : Move(p, s)
     \/ Crash
  /\ calm' = IF KeeperGoes THEN [s \in Supervisors |-> FALSE] ELSE calm
  /\ UNCHANGED <<script, asked>>

-----------------------------------------------------------------------------
\* Whoever races for the keeper and whatever sessions the Console makes and
\* kills: a supervisor that nothing has disturbed has ended well, the keeper is
\* there, and so is the server (keeper_exists after new-session, protectedSessions).
\* The Console never ends the keeper by its name; that it may end it by the
\* beginning of its name is one of the disturbances, as is a crash.
EnsureSound ==
  \A s \in Supervisors : calm[s] /\ script[s] \in {"ok", "failed"} =>
    script[s] # "failed" /\ KeeperExists
=============================================================================
