-------------------------- MODULE TmuxScopeProofs --------------------------
(***************************************************************************)
(* Proofs about TmuxScope, for any numbers of sessions, servers, panes,    *)
(* processes, pids and supervisors, and any command under way.             *)
(*                                                                         *)
(* A server never goes back: its panes and processes are numbered upwards, *)
(* and another server is a later one (ServerMoves).  So whatever has been  *)
(* seen to run in the pane stays a lower bound of what runs in it (Seen).  *)
(* A sample that sees the same process before and after its capture, of    *)
(* servers of the same start time, has no room for another one in between. *)
(*                                                                         *)
(* All that holds whatever sessions are called.  What the Console may do   *)
(* to the keeper depends on the names in scope (KeeperOutlivesKills): if   *)
(* one begins that of the keeper, tmux may find the keeper for it.         *)
(***************************************************************************)
EXTENDS TmuxScope, TLAPS

ServerTypes ==
  /\ generation \in Nat /\ serverPid \in ServerPids \cup {0}
  /\ made \in [panes : Nat, spawns : Nat]
  /\ panes \subseteq [id : Nat, pid : Nat, session : Sessions]

\* A pane belongs to a server that runs, which has numbered it once.
PanesOK ==
  /\ ~Running => panes = {}
  /\ \A p \in panes : p.id <= made.panes /\ p.pid <= made.spawns
  /\ \A p, q \in panes : p.id = q.id => p = q

ServerOK == ServerTypes /\ PanesOK

\* What a step of the server never takes back.
ServerMoves ==
  /\ generation <= generation'
  /\ Running /\ serverPid' = serverPid => generation' = generation
  /\ generation' = generation =>
       /\ made.spawns <= made'.spawns
       /\ \A q \in panes' : q.pid > made.spawns \/ \E p \in panes : p.id = q.id /\ p.pid = q.pid

-----------------------------------------------------------------------------
\* The steps of the server.
LEMMA NewSessionMoves ==
  ASSUME ServerOK, NEW s \in Sessions, NewSession(s)
  PROVE  ServerOK' /\ ServerMoves
<1>1. CASE Running
  <2>1. /\ made' = [panes |-> made.panes + 1, spawns |-> made.spawns + 1]
        /\ generation' = generation /\ serverPid' = serverPid
        /\ panes' = panes \cup {[id |-> made.panes + 1, pid |-> made.spawns + 1, session |-> s]}
    BY <1>1 DEF NewSession
  <2>2. ServerTypes' BY <2>1 DEF ServerOK, ServerTypes
  <2>3. PanesOK' BY <1>1, <2>1 DEF ServerOK, ServerTypes, PanesOK, Running
  <2>4. ServerMoves BY <2>1 DEF ServerOK, ServerTypes, ServerMoves
  <2> QED BY <2>2, <2>3, <2>4 DEF ServerOK
<1>2. CASE ~Running
  <2>1. /\ made' = [panes |-> 1, spawns |-> 1]
        /\ generation' = generation + 1 /\ serverPid' \in ServerPids
        /\ panes' = {[id |-> 1, pid |-> 1, session |-> s]}
    BY <1>2 DEF NewSession, ServerOK, PanesOK
  <2>2. ServerTypes' BY <2>1 DEF ServerOK, ServerTypes
  <2>3. PanesOK' BY <2>1, PidsArePositive DEF PanesOK, Running
  <2>4. ServerMoves BY <1>2, <2>1 DEF ServerOK, ServerTypes, ServerMoves
  <2> QED BY <2>2, <2>3, <2>4 DEF ServerOK
<1> QED BY <1>1, <1>2

\* Panes and processes go, come and move; the server never goes back.
LEMMA RemoveMoves ==
  ASSUME ServerOK, NEW ps, Remove(ps)
  PROVE  ServerOK' /\ ServerMoves
<1>1. ServerTypes' BY DEF ServerOK, ServerTypes, Remove
<1>2. PanesOK' BY DEF ServerOK, PanesOK, Remove, Running
<1>3. ServerMoves BY DEF ServerOK, ServerTypes, ServerMoves, Remove
<1> QED BY <1>1, <1>2, <1>3 DEF ServerOK

LEMMA RespawnMoves ==
  ASSUME ServerOK, NEW p \in panes, Respawn(p)
  PROVE  ServerOK' /\ ServerMoves
<1> DEFINE q == [p EXCEPT !.pid = made.spawns + 1]
<1>0. p \in [id : Nat, pid : Nat, session : Sessions] BY DEF ServerOK, ServerTypes
<1>1. /\ q \in [id : Nat, pid : Nat, session : Sessions]
      /\ q.id = p.id /\ q.pid = made.spawns + 1
  BY <1>0 DEF ServerOK, ServerTypes
<1>2. /\ made' = [made EXCEPT !.spawns = @ + 1] /\ panes' = (panes \ {p}) \cup {q}
      /\ generation' = generation /\ serverPid' = serverPid
  BY DEF Respawn
<1>3. made' \in [panes : Nat, spawns : Nat] /\ made'.panes = made.panes /\ made'.spawns = made.spawns + 1
  BY <1>2 DEF ServerOK, ServerTypes
<1> HIDE DEF q
<1>4. ServerTypes' BY <1>1, <1>2, <1>3 DEF ServerOK, ServerTypes
<1>5. PanesOK' BY <1>1, <1>2, <1>3 DEF ServerOK, ServerTypes, PanesOK, Running
<1>6. ServerMoves BY <1>1, <1>2, <1>3 DEF ServerOK, ServerTypes, ServerMoves
<1> QED BY <1>4, <1>5, <1>6 DEF ServerOK

LEMMA MoveMoves ==
  ASSUME ServerOK, NEW p \in panes, NEW s \in Sessions, Move(p, s)
  PROVE  ServerOK' /\ ServerMoves
<1> DEFINE q == [p EXCEPT !.session = s]
<1>0. p \in [id : Nat, pid : Nat, session : Sessions] BY DEF ServerOK, ServerTypes
<1>1. q \in [id : Nat, pid : Nat, session : Sessions] /\ q.id = p.id /\ q.pid = p.pid
  BY <1>0
<1>2. /\ panes' = (panes \ {p}) \cup {q}
      /\ generation' = generation /\ serverPid' = serverPid /\ made' = made
  BY DEF Move
<1> HIDE DEF q
<1>4. ServerTypes' BY <1>1, <1>2 DEF ServerOK, ServerTypes
<1>5. PanesOK' BY <1>1, <1>2 DEF ServerOK, ServerTypes, PanesOK, Running
<1>6. ServerMoves BY <1>1, <1>2 DEF ServerOK, ServerTypes, ServerMoves
<1> QED BY <1>4, <1>5, <1>6 DEF ServerOK

LEMMA CrashMoves ==
  ASSUME ServerOK, Crash
  PROVE  ServerOK' /\ ServerMoves
BY DEF ServerOK, ServerTypes, PanesOK, Running, ServerMoves, Crash

LEMMA RestMoves ==
  ASSUME ServerOK, UNCHANGED serverVars
  PROVE  ServerOK' /\ ServerMoves
BY DEF ServerOK, ServerTypes, PanesOK, Running, ServerMoves, serverVars

-----------------------------------------------------------------------------
\* Supervisors, the lifecycle of the Console and the world outside.
Stages == {"idle", "ok", "failed", "ensure", "create", "confirm"}

EndpointTypes ==
  /\ script \in [Supervisors -> Stages]
  /\ calm \in [Supervisors -> BOOLEAN]
  /\ asked \subseteq {"kill", "create"} \X Sessions

\* Whatever the Console has under way has passed its checks.
EndpointOK == EndpointTypes /\ \A c \in asked : c[1] = "kill" => MayKill(c[2])

\* Whoever has been told that the keeper is there, and was disturbed by nothing, is
\* right.
KeeperTold ==
  \A s \in Supervisors : calm[s] =>
    script[s] # "failed" /\ (script[s] \in {"confirm", "ok"} => KeeperExists)

\* A session that is created is there.
LEMMA NewSessionThere ==
  ASSUME NEW s, NewSession(s)
  PROVE  s \in SessionsOf(panes')
<1> DEFINE p == [id |-> made'.panes, pid |-> made'.spawns, session |-> s]
<1>1. p \in panes' BY DEF NewSession
<1>2. p.session = s OBVIOUS
<1> QED BY <1>1, <1>2 DEF SessionsOf

\* What a step of the script does to the server.
LEMMA ScriptServer ==
  ASSUME NEW s \in Supervisors, Script(s)
  PROVE  asked' = asked /\ (UNCHANGED serverVars \/ (NewSession(Keeper) /\ Goes(s, "ok")))
BY DEF Script, Begin, EnsureLooks, EnsureCreates, EnsureConfirms, ScriptCommandFails, Learns, Goes

LEMMA ScriptMoves ==
  ASSUME ServerOK, EndpointOK, NEW s \in Supervisors, Script(s)
  PROVE  ServerOK' /\ ServerMoves /\ EndpointOK'
<1>1. ServerOK' /\ ServerMoves BY ScriptServer, RestMoves, NewSessionMoves, KeeperIsSession
<1>2. script' \in [Supervisors -> Stages] /\ calm' \in [Supervisors -> BOOLEAN]
  <2>1. CASE Begin(s) BY <2>1 DEF EndpointOK, EndpointTypes, Stages, Begin
  <2>2. CASE EnsureLooks(s)
    BY <2>2 DEF EndpointOK, EndpointTypes, Stages, EnsureLooks, Learns, Goes
  <2>3. CASE EnsureCreates(s)
    BY <2>3 DEF EndpointOK, EndpointTypes, Stages, EnsureCreates, Learns, Goes
  <2>4. CASE EnsureConfirms(s)
    BY <2>4 DEF EndpointOK, EndpointTypes, Stages, EnsureConfirms, Learns, Goes
  <2>5. CASE ScriptCommandFails(s)
    BY <2>5 DEF EndpointOK, EndpointTypes, Stages, ScriptCommandFails
  <2> QED BY <2>1, <2>2, <2>3, <2>4, <2>5 DEF Script
<1> QED BY <1>1, <1>2, ScriptServer DEF EndpointOK, EndpointTypes, MayKill

LEMMA ScriptTells ==
  ASSUME EndpointOK, KeeperTold, NEW s \in Supervisors, Script(s)
  PROVE  KeeperTold'
<1>1. CASE UNCHANGED serverVars
  <2>1. KeeperExists' <=> KeeperExists BY <1>1 DEF KeeperExists, SessionsOf, serverVars
  <2>2. CASE Begin(s)
    BY <2>1, <2>2 DEF EndpointOK, EndpointTypes, KeeperTold, Stages, Begin, Rest
  <2>3. CASE EnsureLooks(s)
    BY <2>1, <2>3 DEF EndpointOK, EndpointTypes, KeeperTold, Stages, EnsureLooks, Learns, Goes
  <2>4. CASE EnsureCreates(s)
    <3>1. script' = [script EXCEPT ![s] = IF KeeperExists THEN "confirm" ELSE "ok"]
          /\ calm' = calm /\ (~KeeperExists => KeeperExists')
      <4>1. CASE KeeperExists BY <2>4, <4>1 DEF EnsureCreates, Learns, Goes
      <4>2. CASE ~KeeperExists
        BY <2>4, <4>2, NewSessionThere DEF EnsureCreates, Goes, KeeperExists, SessionsOf
      <4> QED BY <4>1, <4>2
    <3> QED BY <2>1, <3>1 DEF EndpointOK, EndpointTypes, KeeperTold, Stages
  <2>5. CASE EnsureConfirms(s)
    BY <2>1, <2>5 DEF EndpointOK, EndpointTypes, KeeperTold, Stages, EnsureConfirms, Learns, Goes
  <2>6. CASE ScriptCommandFails(s)
    BY <2>1, <2>6 DEF EndpointOK, EndpointTypes, KeeperTold, Stages, ScriptCommandFails
  <2> QED BY <2>2, <2>3, <2>4, <2>5, <2>6 DEF Script
<1>2. CASE NewSession(Keeper) /\ Goes(s, "ok")
  <2>1. KeeperExists' BY <1>2, NewSessionThere DEF KeeperExists, SessionsOf
  <2> QED BY <1>2, <2>1 DEF EndpointOK, EndpointTypes, KeeperTold, Stages, Goes
<1> QED BY <1>1, <1>2, ScriptServer

\* The keeper stays, or everybody is disturbed.
LEMMA KeeperStays ==
  ASSUME KeeperTold, script' = script,
         \/ calm' = calm /\ (KeeperExists => KeeperExists')
         \/ calm' = [s \in Supervisors |-> FALSE]
  PROVE  KeeperTold'
BY DEF KeeperTold

\* tmux finds the session of a name, or one that begins with it.
LEMMA ResolvedByPrefix ==
  ASSUME NEW n, NEW s \in Resolved(n)
  PROVE  s = n \/ <<n, s>> \in Prefixes
BY DEF Resolved

LEMMA LifecycleMoves ==
  ASSUME ServerOK, EndpointOK, Lifecycle
  PROVE  ServerOK' /\ ServerMoves /\ EndpointOK'
<1>1. PICK c \in {"kill", "create"} \X Sessions : LifecycleAsks(c) \/ LifecycleRuns(c)
  BY DEF Lifecycle
<1>2. CASE LifecycleAsks(c)
  <2>1. EndpointOK' BY <1>1, <1>2 DEF EndpointOK, EndpointTypes, LifecycleAsks, MayKill
  <2> QED BY <1>2, <2>1, RestMoves DEF LifecycleAsks
<1>3. CASE LifecycleRuns(c)
  <2>1. EndpointOK' BY <1>3 DEF LifecycleRuns, EndpointOK, EndpointTypes, MayKill
  <2>2. CASE KillSession(c[2]) BY <2>1, <2>2, RemoveMoves DEF KillSession
  <2>3. CASE NewSession(c[2]) BY <1>1, <2>1, <2>3, NewSessionMoves
  <2>4. CASE UNCHANGED serverVars BY <2>1, <2>4, RestMoves
  <2> QED BY <1>3, <2>2, <2>3, <2>4 DEF LifecycleRuns
<1> QED BY <1>1, <1>2, <1>3

\* A keeper that is killed is killed by another name, and then nobody is told that it
\* is there.
LEMMA LifecycleTells ==
  ASSUME EndpointOK, KeeperTold, Lifecycle
  PROVE  KeeperTold'
<1>1. PICK c \in {"kill", "create"} \X Sessions : LifecycleAsks(c) \/ LifecycleRuns(c)
  BY DEF Lifecycle
<1>2. script' = script BY <1>1 DEF LifecycleAsks, LifecycleRuns
<1>3. CASE LifecycleAsks(c)
  <2>1. UNCHANGED serverVars /\ calm' = calm BY <1>3 DEF LifecycleAsks
  <2>2. KeeperExists => KeeperExists' BY <2>1 DEF KeeperExists, SessionsOf, serverVars
  <2> QED BY <1>2, <2>1, <2>2, KeeperStays
<1>4. CASE LifecycleRuns(c)
  <2>1. CASE c[2] # Keeper
    <3>1. \/ calm' = calm /\ ~KeeperGoes
          \/ calm' = [s \in Supervisors |-> FALSE]
      BY <1>4, <2>1 DEF LifecycleRuns
    <3>2. ~KeeperGoes => (KeeperExists => KeeperExists') BY DEF KeeperGoes, KeeperExists
    <3> QED BY <1>2, <3>1, <3>2, KeeperStays
  <2>2. CASE c[2] = Keeper
    <3>1. c[1] # "kill" BY <1>4, <2>2 DEF LifecycleRuns, EndpointOK, MayKill
    <3>2. calm' = calm BY <1>4, <2>2 DEF LifecycleRuns
    <3>3. NewSession(c[2]) \/ UNCHANGED serverVars BY <1>4, <3>1 DEF LifecycleRuns
    <3>4. KeeperExists => KeeperExists'
      BY <3>3 DEF KeeperExists, SessionsOf, NewSession, serverVars
    <3> QED BY <1>2, <3>2, <3>4, KeeperStays
  <2> QED BY <2>1, <2>2
<1> QED BY <1>1, <1>3, <1>4

\* Out of reach, the keeper outlives what the Console does.
LEMMA KeeperSpared ==
  ASSUME KeeperOutOfReach, EndpointOK, Lifecycle
  PROVE  ~KeeperGoes
<1>1. PICK c \in {"kill", "create"} \X Sessions : LifecycleAsks(c) \/ LifecycleRuns(c)
  BY DEF Lifecycle
<1>2. KeeperExists => Keeper \in SessionsOf(panes')
  <2>1. CASE UNCHANGED serverVars BY <2>1 DEF KeeperExists, SessionsOf, serverVars
  <2>2. CASE NewSession(c[2]) BY <2>2 DEF KeeperExists, SessionsOf, NewSession
  <2>3. CASE LifecycleRuns(c) /\ c[1] = "kill" /\ KillSession(c[2])
    <3>1. PICK s \in Resolved(c[2]) : Remove(PanesOf(s)) BY <2>3 DEF KillSession
    <3>2. c[2] \in InScope /\ c[2] # Keeper
      BY <2>3 DEF LifecycleRuns, EndpointOK, MayKill
    <3>3. s # Keeper BY <3>1, <3>2, ResolvedByPrefix DEF KeeperOutOfReach
    <3> QED BY <3>1, <3>3 DEF KeeperExists, SessionsOf, Remove, PanesOf
  <2> QED BY <1>1, <2>1, <2>2, <2>3 DEF LifecycleAsks, LifecycleRuns
<1> QED BY <1>2 DEF KeeperGoes

LEMMA OutsideMoves ==
  ASSUME ServerOK, EndpointOK, Outside
  PROVE  ServerOK' /\ ServerMoves /\ EndpointOK'
<1>1. ServerOK' /\ ServerMoves
  <2>1. CASE \E s \in Sessions \ {Keeper} : NewSession(s) BY <2>1, NewSessionMoves
  <2>2. CASE \E p \in panes : PaneExits(p) BY <2>2, RemoveMoves DEF PaneExits
  <2>3. CASE \E p \in panes : Respawn(p) BY <2>3, RespawnMoves
  <2>4. CASE \E p \in panes : \E s \in Sessions : Move(p, s) BY <2>4, MoveMoves
  <2>5. CASE Crash BY <2>5, CrashMoves
  <2> QED BY <2>1, <2>2, <2>3, <2>4, <2>5 DEF Outside
<1>2. EndpointOK' BY DEF Outside, EndpointOK, EndpointTypes, MayKill
<1> QED BY <1>1, <1>2

LEMMA OutsideTells ==
  ASSUME KeeperTold, Outside
  PROVE  KeeperTold'
<1>1. \/ calm' = calm /\ (KeeperExists => KeeperExists')
      \/ calm' = [s \in Supervisors |-> FALSE]
  BY DEF Outside, KeeperExists, KeeperGoes
<1> QED BY <1>1, KeeperStays DEF Outside

\* Whatever others do to the server, it never goes back.
LEMMA OthersMove ==
  ASSUME ServerOK, EndpointOK, Others
  PROVE  ServerOK' /\ ServerMoves /\ EndpointOK'
BY ScriptMoves, LifecycleMoves, OutsideMoves DEF Others

-----------------------------------------------------------------------------
\* Process x has run in the pane, under the server started at g: while that server
\* lasts, no earlier process runs there.
Seen(g, x) ==
  /\ g \in Nat /\ x \in Nat /\ g <= generation
  /\ g = generation => x <= made.spawns /\ \A p \in Found : x <= p.pid

\* The pane with the process of the observer has gone.
Gone == bound \notin Instances

Id == [pane : {Target}, pid : Nat]
Captures == [pane : {Target}, pid : Nat, generation : Nat]
SampleStages == {"before", "proc before", "capture", "after", "proc after"}
ClosedStages == {"generation before", "proc generation before", "inventory",
                 "generation after", "proc generation after"}
ValidateStages == {"validate", "proc validate"}

JobTypes ==
  /\ job \in [at : {"idle"} \cup SampleStages \cup ClosedStages \cup ValidateStages,
              id : Id \cup {None} \cup ServerPids, pid : ServerPids \cup {0}, proc : Nat,
              captured : Captures \cup {None}]
  /\ outcome.is \in {"failed", "present", "closed", "valid"}

\* What the job has read, in the order in which it was so.
JobOK ==
  /\ At("proc before") =>
       /\ job.id \in Id /\ job.pid # 0
       /\ serverPid = job.pid => Seen(generation, job.id.pid)
  /\ job.at \in {"capture", "after", "proc after"} => job.id \in Id /\ Seen(job.proc, job.id.pid)
  /\ job.at \in {"after", "proc after"} =>
       /\ job.captured \in Captures /\ job.proc <= job.captured.generation
       /\ Seen(job.captured.generation, job.captured.pid)
       /\ job.captured.generation = job.proc => job.id.pid <= job.captured.pid
  /\ At("proc after") => (generation = job.proc => job.captured.pid <= job.id.pid)
  /\ job.at \in ClosedStages => Gone

BoundOK == bound # None => bound \in Captures /\ Seen(bound.generation, bound.pid)

SamplerOK ==
  /\ JobTypes /\ JobOK /\ BoundOK
  /\ SampleOfOne
  /\ outcome.is = "closed" => Gone

ScopeInv == ServerOK /\ EndpointOK /\ SamplerOK

-----------------------------------------------------------------------------
\* What the others do leaves true what has been read.
LEMMA SeenLasts ==
  ASSUME ServerOK, ServerOK', ServerMoves, NEW g, NEW x, Seen(g, x)
  PROVE  Seen(g, x)'
<1>1. g <= generation' BY DEF Seen, ServerOK, ServerTypes, ServerMoves
<1>2. ASSUME g = generation' PROVE x <= made'.spawns /\ \A q \in Found' : x <= q.pid
  <2>1. generation' = generation BY <1>2 DEF Seen, ServerOK, ServerTypes, ServerMoves
  <2>2. x <= made.spawns /\ \A p \in Found : x <= p.pid BY <1>2, <2>1 DEF Seen
  <2>3. made.spawns \in Nat /\ made'.spawns \in Nat /\ made.spawns <= made'.spawns
    BY <2>1 DEF ServerOK, ServerTypes, ServerMoves
  <2>4. ASSUME NEW q \in Found' PROVE x <= q.pid
    <3>1. q \in panes' /\ q.id = Target /\ q.pid \in Nat BY DEF Found, ServerOK, ServerTypes
    <3>2. q.pid > made.spawns \/ \E p \in panes : p.id = q.id /\ p.pid = q.pid
      BY <2>1, <3>1 DEF ServerMoves
    <3> QED BY <2>2, <2>3, <3>1, <3>2 DEF Seen, Found
  <2> QED BY <2>2, <2>3, <2>4 DEF Seen
<1> QED BY <1>1, <1>2 DEF Seen

\* A pane that has gone with its process does not come back with it.
LEMMA GoneLasts ==
  ASSUME ServerOK, ServerOK', ServerMoves, BoundOK, Gone, bound' = bound
  PROVE  Gone'
<1> SUFFICES ASSUME NEW q \in panes',
                    bound = [pane |-> q.id, pid |-> q.pid, generation |-> generation']
             PROVE  FALSE
  BY DEF Gone, Instances, Instance
<1>1. q.id \in Nat /\ q.pid \in Nat /\ generation' \in Nat BY DEF ServerOK, ServerTypes
<1>2. bound # None BY <1>1, NoneIsNoInstance
<1>3. bound.pid = q.pid /\ bound.generation = generation' OBVIOUS
<1>4. generation' <= generation /\ (generation = generation' => q.pid <= made.spawns)
  BY <1>2, <1>3 DEF BoundOK, Seen
<1>5. generation' = generation BY <1>1, <1>4 DEF ServerMoves, ServerOK, ServerTypes
<1>6. \E p \in panes : p.id = q.id /\ p.pid = q.pid
  BY <1>1, <1>4, <1>5 DEF ServerMoves, ServerOK, ServerTypes
<1> QED BY <1>5, <1>6 DEF Gone, Instances, Instance

\* What the sampler has read stays true while others move the server.
LEMMA OthersKeep ==
  ASSUME ServerOK, ServerOK', ServerMoves, SamplerOK, PidsLast, UNCHANGED samplerVars
  PROVE  SamplerOK'
<1>1. job' = job /\ outcome' = outcome /\ bound' = bound BY DEF samplerVars
<1>2. Gone => Gone' BY <1>1, GoneLasts DEF SamplerOK
<1>3. BoundOK' BY <1>1, SeenLasts DEF SamplerOK, BoundOK
<1>4. JobOK'
  <2>1. ASSUME At("proc before"), serverPid' = job.pid PROVE Seen(generation, job.id.pid)'
    <3>1. job.pid # 0 /\ (serverPid = job.pid => Seen(generation, job.id.pid))
      BY <2>1 DEF SamplerOK, JobOK
    <3>2. serverPid' = serverPid /\ Running BY <2>1, <3>1 DEF PidsLast, Running
    <3>3. generation' = generation BY <3>2 DEF ServerMoves
    <3>4. PICK g, x : g = generation /\ x = job.id.pid OBVIOUS
    <3>5. Seen(g, x) BY <2>1, <3>1, <3>2, <3>4
    <3>6. Seen(g, x)' BY <3>5, SeenLasts
    <3> QED BY <1>1, <3>3, <3>4, <3>6 DEF Seen
  <2>2. ASSUME At("proc after"), generation' = job.proc PROVE job.captured.pid <= job.id.pid
    <3>1. /\ job.proc <= job.captured.generation /\ job.captured.generation <= generation
          /\ job.captured.generation \in Nat /\ job.proc \in Nat
      BY <2>2 DEF SamplerOK, JobOK, JobTypes, At, Seen
    <3>2. generation \in Nat /\ generation <= job.proc BY <2>2 DEF ServerMoves, ServerOK, ServerTypes
    <3>3. generation = job.proc
      <4> DEFINE p == job.proc  c == job.captured.generation
      <4>1. p \in Nat /\ c \in Nat /\ p <= c /\ c <= generation /\ generation <= p BY <3>1, <3>2
      <4> HIDE DEF p, c
      <4>2. generation = p BY <3>2, <4>1
      <4> QED BY <4>2 DEF p
    <3> QED BY <2>2, <3>3 DEF SamplerOK, JobOK
  <2>3. ASSUME job.at \in {"capture", "after", "proc after"} PROVE Seen(job.proc, job.id.pid)'
    BY <1>1, <2>3, SeenLasts DEF SamplerOK, JobOK
  <2>4. ASSUME job.at \in {"after", "proc after"}
        PROVE  Seen(job.captured.generation, job.captured.pid)'
    BY <1>1, <2>4, SeenLasts DEF SamplerOK, JobOK
  <2>5. JobOK BY DEF SamplerOK
  <2> QED BY <1>1, <1>2, <2>1, <2>2, <2>3, <2>4, <2>5 DEF JobOK, At
<1> QED BY <1>1, <1>2, <1>3, <1>4 DEF SamplerOK, JobTypes, SampleOfOne

-----------------------------------------------------------------------------
\* The steps of the sampler: the server is as it was.
LEMMA ServerStill ==
  ASSUME UNCHANGED serverVars
  PROVE  /\ generation' = generation /\ serverPid' = serverPid /\ made' = made /\ panes' = panes
         /\ Found' = Found /\ Instances' = Instances
BY DEF serverVars, Found, Instances, Instance

\* A read adds to the job and changes nothing else.
LEMMA ReadKeeps ==
  ASSUME SamplerOK, UNCHANGED serverVars, outcome' = outcome, bound' = bound,
         job' \in [at : {"idle"} \cup SampleStages \cup ClosedStages \cup ValidateStages,
                  id : Id \cup {None} \cup ServerPids, pid : ServerPids \cup {0}, proc : Nat,
                  captured : Captures \cup {None}],
         JobOK'
  PROVE  SamplerOK'
<1>1. BoundOK' BY ServerStill DEF SamplerOK, BoundOK, Seen
<1> QED BY <1>1, ServerStill DEF SamplerOK, JobTypes, SampleOfOne, Gone

\* An answer that is not a sample leaves the identity of the observer alone.
LEMMA AnswerKeeps ==
  ASSUME SamplerOK, UNCHANGED serverVars, job' = NoJob, bound' = bound,
         outcome'.is \in {"failed", "closed", "valid"},
         outcome'.is = "closed" => Gone
  PROVE  SamplerOK'
<1>1. BoundOK' BY ServerStill DEF SamplerOK, BoundOK, Seen
<1>2. NoJob.at = "idle" BY DEF NoJob
<1>3. JobTypes' BY DEF NoJob, JobTypes
<1>4. JobOK' BY <1>2 DEF JobOK, At, SampleStages, ClosedStages
<1>5. SampleOfOne' BY DEF SampleOfOne
<1>6. (outcome.is = "closed" => Gone)' BY ServerStill DEF Gone
<1> QED BY <1>1, <1>3, <1>4, <1>5, <1>6 DEF SamplerOK

\* A sample that throws has nothing left to be true.
LEMMA ThrowKeeps ==
  ASSUME SamplerOK, UNCHANGED serverVars, Throws
  PROVE  SamplerOK'
<1>1. job' = NoJob /\ bound' = bound /\ outcome'.is = "failed" BY DEF Throws, Ends, NoOutcome
<1> QED BY <1>1, AnswerKeeps

\* The commands of a sample, one by one.
LEMMA StartKeeps ==
  ASSUME SamplerOK, UNCHANGED serverVars, NEW stage \in {"before", "validate"}, Starts(stage)
  PROVE  SamplerOK'
<1>1. /\ job' = [job EXCEPT !.at = stage] /\ outcome' = NoOutcome /\ bound' = bound
  BY DEF Starts
<1>2. NoOutcome.is = "failed" BY DEF NoOutcome
<1>3. JobTypes' BY <1>1, <1>2 DEF SamplerOK, JobTypes, SampleStages, ValidateStages
<1>4. job'.at = stage BY <1>1 DEF SamplerOK, JobTypes
<1>5. JobOK' BY <1>4 DEF JobOK, At, ClosedStages
<1>6. BoundOK' BY <1>1, ServerStill DEF SamplerOK, BoundOK, Seen
<1> QED BY <1>1, <1>2, <1>3, <1>5, <1>6 DEF SamplerOK, SampleOfOne

\* What a query shows of the pane has been seen there.
LEMMA ShownIsSeen ==
  ASSUME ServerOK, NEW p \in Found
  PROVE  Shown(p) \in Id /\ Shown(p).pid = p.pid /\ Seen(generation, p.pid) /\ serverPid # 0
<1>1. p \in panes /\ p.id = Target /\ p.pid \in Nat BY DEF ServerOK, ServerTypes, Found
<1>2. Shown(p) \in Id /\ Shown(p).pid = p.pid BY <1>1 DEF Shown, Id
<1>3. \A q \in Found : q = p BY <1>1 DEF Found, ServerOK, PanesOK
<1>4. p.pid <= made.spawns /\ serverPid # 0 BY <1>1 DEF ServerOK, PanesOK, Running
<1>5. Seen(generation, p.pid) BY <1>1, <1>3, <1>4 DEF Seen, ServerOK, ServerTypes
<1> QED BY <1>2, <1>4, <1>5

LEMMA QueryBeforeKeeps ==
  ASSUME ServerOK, SamplerOK, UNCHANGED serverVars, QueryBefore
  PROVE  SamplerOK'
<1>1. CASE Throws BY <1>1, ThrowKeeps
<1>2. ASSUME NEW p \in Found, Reads([job EXCEPT !.at = "proc before", !.id = Shown(p), !.pid = serverPid])
      PROVE  SamplerOK'
  <2>1. /\ job' = [job EXCEPT !.at = "proc before", !.id = Shown(p), !.pid = serverPid]
        /\ outcome' = outcome /\ bound' = bound
    BY <1>2 DEF Reads
  <2>2. /\ job'.at = "proc before" /\ job'.id = Shown(p) /\ job'.pid = serverPid
    BY <2>1 DEF SamplerOK, JobTypes
  <2>3. JobOK' BY <2>2, ServerStill, ShownIsSeen DEF JobOK, At, ClosedStages, Seen
  <2>4. serverPid \in ServerPids \cup {0} BY DEF ServerOK, ServerTypes
  <2> QED BY <2>1, <2>3, <2>4, ShownIsSeen, ReadKeeps DEF SamplerOK, JobTypes, SampleStages
<1>3. CASE Missing /\ Reads([job EXCEPT !.at = "generation before"])
  <2>1. job' = [job EXCEPT !.at = "generation before"] /\ outcome' = outcome /\ bound' = bound
    BY <1>3 DEF Reads
  <2>2. job'.at = "generation before" BY <2>1 DEF SamplerOK, JobTypes
  <2>3. Gone
    <3> SUFFICES ASSUME NEW q \in panes,
                        bound = [pane |-> q.id, pid |-> q.pid, generation |-> generation]
                 PROVE  FALSE
      BY DEF Gone, Instances, Instance
    <3>1. bound # None BY NoneIsNoInstance DEF ServerOK, ServerTypes
    <3>2. q.id = Target BY <3>1 DEF SamplerOK, BoundOK, Captures
    <3> QED BY <1>3, <3>2 DEF Missing, Found
  <2>4. JobOK' BY <2>1, <2>2, <2>3, ServerStill DEF JobOK, At, Gone
  <2> QED BY <2>1, <2>4, ReadKeeps DEF SamplerOK, JobTypes, ClosedStages
<1> QED BY <1>1, <1>2, <1>3 DEF QueryBefore

LEMMA ProcBeforeKeeps ==
  ASSUME ServerOK, SamplerOK, UNCHANGED serverVars, ProcBefore
  PROVE  SamplerOK'
<1>1. /\ job' = [job EXCEPT !.at = "capture", !.pid = 0, !.proc = generation]
      /\ outcome' = outcome /\ bound' = bound
  BY DEF ProcBefore, Reads
<1>2. job'.at = "capture" /\ job'.id = job.id /\ job'.proc = generation
  BY <1>1 DEF SamplerOK, JobTypes
<1>3. job.id \in Id /\ Seen(generation, job.id.pid)
  BY DEF ProcBefore, ReadsProc, SamplerOK, JobOK, At
<1>4. JobOK' BY <1>2, <1>3, ServerStill DEF JobOK, At, ClosedStages, Seen
<1>5. generation \in Nat BY DEF ServerOK, ServerTypes
<1> QED BY <1>1, <1>4, <1>5, ReadKeeps DEF SamplerOK, JobTypes, SampleStages

LEMMA CaptureKeeps ==
  ASSUME ServerOK, SamplerOK, UNCHANGED serverVars, Capture
  PROVE  SamplerOK'
<1>1. PICK p \in Found : Reads([job EXCEPT !.at = "after", !.captured = Instance(p)])
  BY DEF Capture
<1>2. /\ job' = [job EXCEPT !.at = "after", !.captured = Instance(p)]
      /\ outcome' = outcome /\ bound' = bound
  BY <1>1 DEF Reads
<1>3. /\ job'.at = "after" /\ job'.id = job.id /\ job'.proc = job.proc
      /\ job'.captured = Instance(p)
  BY <1>2 DEF SamplerOK, JobTypes
<1>4. /\ Instance(p) \in Captures
      /\ Instance(p).pid = p.pid /\ Instance(p).generation = generation
  BY DEF Instance, Captures, Found, ServerOK, ServerTypes
<1>5. job.id \in Id /\ Seen(job.proc, job.id.pid)
  BY DEF Capture, At, SamplerOK, JobOK
<1>6. job.proc <= generation /\ (generation = job.proc => job.id.pid <= p.pid)
  BY <1>5 DEF Seen
<1>7. Seen(generation, p.pid) BY ShownIsSeen
<1>8. JobOK' BY <1>3, <1>4, <1>5, <1>6, <1>7, ServerStill DEF JobOK, At, ClosedStages, Seen
<1> QED BY <1>2, <1>4, <1>8, ReadKeeps DEF SamplerOK, JobTypes, SampleStages

LEMMA QueryAfterKeeps ==
  ASSUME ServerOK, SamplerOK, UNCHANGED serverVars, QueryAfter
  PROVE  SamplerOK'
<1>1. PICK p \in Found :
        \/ Shown(p) = job.id /\ Reads([job EXCEPT !.at = "proc after", !.pid = serverPid])
        \/ Throws
  BY DEF QueryAfter
<1>2. CASE Throws BY <1>2, ThrowKeeps
<1>3. CASE Shown(p) = job.id /\ Reads([job EXCEPT !.at = "proc after", !.pid = serverPid])
  <2>1. /\ job' = [job EXCEPT !.at = "proc after", !.pid = serverPid]
        /\ outcome' = outcome /\ bound' = bound
    BY <1>3 DEF Reads
  <2>2. /\ job'.at = "proc after" /\ job'.id = job.id /\ job'.proc = job.proc
        /\ job'.captured = job.captured
    BY <2>1 DEF SamplerOK, JobTypes
  <2>3. /\ job.id \in Id /\ Seen(job.proc, job.id.pid)
        /\ job.captured \in Captures /\ job.proc <= job.captured.generation
        /\ Seen(job.captured.generation, job.captured.pid)
        /\ job.captured.generation = job.proc => job.id.pid <= job.captured.pid
    BY DEF QueryAfter, At, SamplerOK, JobOK
  <2>4. job.id.pid = p.pid BY <1>3, ShownIsSeen
  <2>5. generation = job.proc => job.captured.pid <= job.id.pid
    <3> SUFFICES ASSUME generation = job.proc PROVE job.captured.pid <= job.id.pid OBVIOUS
    <3>1. job.captured.generation = generation BY <2>3 DEF Seen, ServerOK, ServerTypes
    <3> QED BY <2>3, <2>4, <3>1 DEF Seen
  <2>6. JobOK' BY <2>2, <2>3, <2>5, ServerStill DEF JobOK, At, ClosedStages, Seen
  <2>7. serverPid \in ServerPids \cup {0} BY DEF ServerOK, ServerTypes
  <2> QED BY <2>1, <2>6, <2>7, ReadKeeps DEF SamplerOK, JobTypes, SampleStages
<1> QED BY <1>1, <1>2, <1>3

LEMMA ProcAfterKeeps ==
  ASSUME ServerOK, SamplerOK, UNCHANGED serverVars, ProcAfter
  PROVE  SamplerOK'
<1>1. CASE Throws BY <1>1, ThrowKeeps
<1>2. CASE job.proc = generation /\ ~Throws
  <2> DEFINE i == Identity(job.id, job.proc)
  <2>1. /\ job' = NoJob /\ bound' = i
        /\ outcome' = [is |-> "present", identity |-> i, captured |-> job.captured]
    BY <1>2 DEF ProcAfter, Ends
  <2>2. /\ job.id \in Id /\ Seen(job.proc, job.id.pid)
        /\ job.captured \in Captures /\ job.proc <= job.captured.generation
        /\ Seen(job.captured.generation, job.captured.pid)
        /\ job.captured.generation = job.proc => job.id.pid <= job.captured.pid
        /\ job.captured.pid <= job.id.pid
    BY <1>2 DEF ProcAfter, At, SamplerOK, JobOK
  <2>3. job.captured.generation = job.proc
    BY <1>2, <2>2 DEF Seen, ServerOK, ServerTypes, Captures
  <2>4. job.captured.pid = job.id.pid BY <2>2, <2>3 DEF Id, Captures
  <2>5. i \in Captures /\ i.pid = job.id.pid /\ i.generation = job.proc
    BY <2>2 DEF Identity, Id, Captures, Seen
  <2>6. i = job.captured BY <2>2, <2>3, <2>4 DEF Identity, Id, Captures
  <2> HIDE DEF i
  <2>7. BoundOK' BY <2>1, <2>2, <2>5, ServerStill DEF BoundOK, Seen
  <2>8. NoJob.at = "idle" BY DEF NoJob
  <2>9. JobTypes' BY <2>1 DEF NoJob, JobTypes
  <2>10. JobOK' BY <2>1, <2>8 DEF JobOK, At, SampleStages, ClosedStages
  <2> QED BY <2>1, <2>6, <2>7, <2>9, <2>10 DEF SamplerOK, SampleOfOne
<1> QED BY <1>1, <1>2 DEF ProcAfter

\* A read on the way to the answer that the pane has gone, or of a validation.
LEMMA LaterKeeps ==
  ASSUME SamplerOK, UNCHANGED serverVars, NEW j, Reads(j),
         j \in [at : ClosedStages \cup ValidateStages,
                id : Id \cup {None} \cup ServerPids, pid : ServerPids \cup {0}, proc : Nat,
                captured : Captures \cup {None}],
         j.at \in ClosedStages => job.at \in ClosedStages
  PROVE  SamplerOK'
<1>1. job' = j /\ outcome' = outcome /\ bound' = bound BY DEF Reads
<1>2. j.at \in ClosedStages \cup ValidateStages OBVIOUS
<1>3. j.at \in ClosedStages => Gone BY DEF SamplerOK, JobOK
<1>4. JobOK'
  BY <1>1, <1>2, <1>3, ServerStill DEF JobOK, At, Gone, ClosedStages, ValidateStages
<1> QED BY <1>1, <1>4, ReadKeeps

LEMMA GenerationPidKeeps ==
  ASSUME ServerOK, SamplerOK, UNCHANGED serverVars,
         NEW stage \in ClosedStages, NEW next \in ClosedStages, GenerationPid(stage, next)
  PROVE  SamplerOK'
<1> DEFINE j == [job EXCEPT !.at = next, !.pid = serverPid]
<1>1. Reads(j) /\ job.at \in ClosedStages BY DEF GenerationPid, At
<1>2. j \in [at : ClosedStages \cup ValidateStages,
             id : Id \cup {None} \cup ServerPids, pid : ServerPids \cup {0}, proc : Nat,
             captured : Captures \cup {None}]
  BY DEF ServerOK, ServerTypes, SamplerOK, JobTypes
<1> HIDE DEF j
<1> QED BY <1>1, <1>2, LaterKeeps

LEMMA GenerationBeforeKeeps ==
  ASSUME ServerOK, SamplerOK, UNCHANGED serverVars, GenerationBefore
  PROVE  SamplerOK'
<1> DEFINE j == [job EXCEPT !.at = "inventory", !.proc = generation, !.id = job.pid]
<1>1. Reads(j) /\ job.at \in ClosedStages BY DEF GenerationBefore, At, ClosedStages
<1>2. job.pid = serverPid /\ job.pid \in ServerPids
  BY DEF GenerationBefore, ReadsProc, Running, ServerOK, ServerTypes
<1>3. j \in [at : ClosedStages \cup ValidateStages,
             id : Id \cup {None} \cup ServerPids, pid : ServerPids \cup {0}, proc : Nat,
             captured : Captures \cup {None}]
  BY <1>2 DEF ServerOK, ServerTypes, SamplerOK, JobTypes, ClosedStages
<1> HIDE DEF j
<1> QED BY <1>1, <1>3, LaterKeeps

LEMMA InventoryKeeps ==
  ASSUME ServerOK, SamplerOK, UNCHANGED serverVars, Inventory
  PROVE  SamplerOK'
<1>1. CASE Throws BY <1>1, ThrowKeeps
<1>2. CASE ~Throws
  <2> DEFINE j == [job EXCEPT !.at = "generation after"]
  <2>1. Reads(j) /\ job.at \in ClosedStages BY <1>2 DEF Inventory, At, ClosedStages
  <2>2. j \in [at : ClosedStages \cup ValidateStages,
               id : Id \cup {None} \cup ServerPids, pid : ServerPids \cup {0}, proc : Nat,
               captured : Captures \cup {None}]
    BY DEF SamplerOK, JobTypes, ClosedStages
  <2> HIDE DEF j
  <2> QED BY <2>1, <2>2, LaterKeeps
<1> QED BY <1>1, <1>2

LEMMA GenerationAfterKeeps ==
  ASSUME ServerOK, SamplerOK, UNCHANGED serverVars, GenerationAfter
  PROVE  SamplerOK'
<1>1. CASE Throws BY <1>1, ThrowKeeps
<1>2. CASE ~Throws
  <2>1. job' = NoJob /\ bound' = bound /\ outcome'.is = "closed"
    BY <1>2 DEF GenerationAfter, Ends, NoOutcome
  <2>2. Gone BY DEF GenerationAfter, At, ClosedStages, SamplerOK, JobOK
  <2> QED BY <2>1, <2>2, AnswerKeeps
<1> QED BY <1>1, <1>2

LEMMA QueryValidatedKeeps ==
  ASSUME ServerOK, SamplerOK, UNCHANGED serverVars, QueryValidated
  PROVE  SamplerOK'
<1>1. CASE Throws BY <1>1, ThrowKeeps
<1>2. ASSUME NEW p \in Found, Reads([job EXCEPT !.at = "proc validate", !.id = Shown(p), !.pid = serverPid])
      PROVE  SamplerOK'
  <2> DEFINE j == [job EXCEPT !.at = "proc validate", !.id = Shown(p), !.pid = serverPid]
  <2>1. j \in [at : ClosedStages \cup ValidateStages,
               id : Id \cup {None} \cup ServerPids, pid : ServerPids \cup {0}, proc : Nat,
               captured : Captures \cup {None}]
    BY ShownIsSeen DEF ServerOK, ServerTypes, SamplerOK, JobTypes, ValidateStages
  <2>2. j.at = "proc validate" BY DEF SamplerOK, JobTypes
  <2>3. Reads(j) BY <1>2
  <2> HIDE DEF j
  <2> QED BY <2>1, <2>2, <2>3, LaterKeeps DEF ClosedStages
<1> QED BY <1>1, <1>2 DEF QueryValidated

LEMMA ProcValidatedKeeps ==
  ASSUME ServerOK, SamplerOK, UNCHANGED serverVars, ProcValidated
  PROVE  SamplerOK'
<1>1. CASE Throws BY <1>1, ThrowKeeps
<1>2. CASE ~Throws
  <2>1. job' = NoJob /\ bound' = bound /\ outcome'.is = "valid"
    BY <1>2 DEF ProcValidated, Ends, NoOutcome
  <2> QED BY <2>1, AnswerKeeps
<1> QED BY <1>1, <1>2

\* Every command of the sampler keeps what is said of it.
LEMMA SamplerKeeps ==
  ASSUME ServerOK, SamplerOK, UNCHANGED serverVars, Sampler
  PROVE  SamplerOK'
<1>1. CASE StartSample \/ StartValidation BY <1>1, StartKeeps DEF StartSample, StartValidation
<1>2. CASE CommandFails BY <1>2, ThrowKeeps DEF CommandFails
<1>3. CASE QueryBefore \/ ProcBefore \/ Capture \/ QueryAfter \/ ProcAfter
  BY <1>3, QueryBeforeKeeps, ProcBeforeKeeps, CaptureKeeps, QueryAfterKeeps, ProcAfterKeeps
<1>4. CASE \/ GenerationPid("generation before", "proc generation before")
           \/ GenerationPid("generation after", "proc generation after")
  BY <1>4, GenerationPidKeeps DEF ClosedStages
<1>5. CASE GenerationBefore \/ Inventory \/ GenerationAfter
  BY <1>5, GenerationBeforeKeeps, InventoryKeeps, GenerationAfterKeeps
<1>6. CASE QueryValidated \/ ProcValidated
  BY <1>6, QueryValidatedKeeps, ProcValidatedKeeps
<1> QED BY <1>1, <1>2, <1>3, <1>4, <1>5, <1>6 DEF Sampler

-----------------------------------------------------------------------------
\* At first there is neither server nor job.
THEOREM ScopeInitial == Init => ScopeInv
<1> SUFFICES ASSUME Init PROVE ScopeInv OBVIOUS
<1>1. ServerOK BY DEF Init, ServerInit, ServerOK, ServerTypes, PanesOK, Running
<1>2. EndpointOK BY DEF Init, EndpointInit, EndpointOK, EndpointTypes, Stages
<1>3. SamplerOK
  <2>1. job = NoJob /\ outcome = NoOutcome /\ bound = None BY DEF Init, SamplerInit
  <2>2. NoJob.at = "idle" /\ NoOutcome.is = "failed" BY DEF NoJob, NoOutcome
  <2>3. JobTypes BY <2>1, <2>2 DEF JobTypes, NoJob
  <2>4. JobOK BY <2>1, <2>2 DEF JobOK, At, SampleStages, ClosedStages
  <2> QED BY <2>1, <2>2, <2>3, <2>4 DEF SamplerOK, BoundOK, SampleOfOne
<1> QED BY <1>1, <1>2, <1>3 DEF ScopeInv

\* Every command of the sampler, of a supervisor, of the Console and of whoever else
\* uses tmux preserves ScopeInv, whatever the names of sessions are and whichever
\* of them a kill finds: the server numbers upwards, what has been read of the pane
\* stays a lower bound, and what the Console asks for has passed its checks.
THEOREM ScopeInductive == ScopeInv /\ [Next]_vars => ScopeInv'
<1> SUFFICES ASSUME ScopeInv, [Next]_vars PROVE ScopeInv' OBVIOUS
<1> USE DEF ScopeInv
<1>1. CASE Sampler /\ UNCHANGED <<serverVars, endpointVars>>
  <2>1. UNCHANGED serverVars /\ UNCHANGED endpointVars BY <1>1
  <2>2. EndpointOK' BY <2>1 DEF EndpointOK, EndpointTypes, MayKill, endpointVars
  <2> QED BY <1>1, <2>1, <2>2, RestMoves, SamplerKeeps
<1>2. CASE Others /\ PidsLast /\ UNCHANGED samplerVars BY <1>2, OthersMove, OthersKeep
<1>3. CASE UNCHANGED vars
  <2>1. /\ UNCHANGED serverVars /\ UNCHANGED samplerVars /\ UNCHANGED endpointVars
    BY <1>3 DEF vars
  <2>2. EndpointOK' BY <2>1 DEF EndpointOK, EndpointTypes, MayKill, endpointVars
  <2>3. PidsLast BY <2>1 DEF PidsLast, serverVars
  <2> QED BY <2>1, <2>2, <2>3, RestMoves, OthersKeep
<1> QED BY <1>1, <1>2, <1>3 DEF Next

\* Whatever sampler, supervisors, Console and others do, ScopeInv holds (tmux-
\* backend.ts, session-lifecycle.ts, tmux-endpoint-keeper.sh).
THEOREM ScopeInvariant == Spec => []ScopeInv
BY ScopeInitial, ScopeInductive, PTL DEF Spec

\* Whatever panes, processes and servers come and go between its commands, what a
\* sample has captured is of the process whose identity it reports (SampleOfOne).
THEOREM SamplesOfOneProcess == Spec => []SampleOfOne
<1>1. ScopeInv => SampleOfOne BY DEF ScopeInv, SamplerOK
<1> QED BY <1>1, ScopeInvariant, PTL

\* A pane is reported closed only when the process that the observer was bound to
\* is gone, and then it does not come back (ClosedIsGone).
THEOREM ClosedForGood == Spec => []ClosedIsGone
<1>1. ScopeInv => ClosedIsGone BY DEF ScopeInv, SamplerOK, ClosedIsGone, Gone
<1> QED BY <1>1, ScopeInvariant, PTL

\* Any number of supervisors that race for the keeper end well, whatever sessions the
\* Console makes and kills meanwhile, unless the keeper is lost to a crash, to its
\* own end, or to a kill by the beginning of its name (EnsureSound).
THEOREM SupervisorsEndWell == Spec => []EnsureSound
<1>1. Init => KeeperTold BY DEF Init, EndpointInit, KeeperTold
<1>2. ASSUME ScopeInv, KeeperTold, [Next]_vars PROVE KeeperTold'
  <2>1. CASE Others BY <1>2, <2>1, ScriptTells, LifecycleTells, OutsideTells DEF Others, ScopeInv
  <2>2. CASE UNCHANGED <<serverVars, endpointVars>>
    BY <1>2, <2>2 DEF KeeperTold, KeeperExists, SessionsOf, serverVars, endpointVars
  <2> QED BY <1>2, <2>1, <2>2 DEF Next, vars
<1>3. KeeperTold => EnsureSound BY DEF KeeperTold, EnsureSound
<1> QED BY <1>1, <1>2, <1>3, ScopeInvariant, PTL DEF Spec

\* Where no name in scope begins that of the keeper, no command of the Console ends it
\* (the protected sessions of session-lifecycle.ts); its own checks do not ensure that.
THEOREM KeeperOutlivesKills ==
  ASSUME KeeperOutOfReach
  PROVE  Spec => [][Lifecycle => ~KeeperGoes]_vars
<1>1. ScopeInv => [Lifecycle => ~KeeperGoes]_vars BY KeeperSpared DEF ScopeInv
<1> QED BY <1>1, ScopeInvariant, PTL
=============================================================================
