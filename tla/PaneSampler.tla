---------------------------- MODULE PaneSampler ----------------------------
(***************************************************************************)
(* Observation of one pane by src/tmux-backend.ts: sampleObservation and   *)
(* validateObservation, one action for each tmux command and each read of  *)
(* /proc, between which the tmux server does what it likes.                *)
(***************************************************************************)
EXTENDS TmuxServer

CONSTANTS
  Target,     \* the id of the pane
  Allowed,    \* allowedSessions
  None

ASSUME NoneIsNoInstance == None \notin [pane : Nat, pid : Nat, generation : Nat]

VARIABLES
  job,        \* the sample or validation under way and what it has read
  outcome,    \* what the last one has answered
  bound       \* the identity that was sampled last: that of the observer

samplerVars == <<job, outcome, bound>>

NoJob == [at |-> "idle", id |-> None, pid |-> 0, proc |-> 0, captured |-> None]
NoOutcome == [is |-> "failed", identity |-> None, captured |-> None]

SamplerInit == job = NoJob /\ outcome = NoOutcome /\ bound = None

At(stage) == job.at = stage
Reads(j) == job' = j /\ UNCHANGED <<outcome, bound>>
Ends(o) == job' = NoJob /\ outcome' = o /\ bound' = IF o.is = "present" THEN o.identity ELSE bound
Throws == Ends(NoOutcome)

\* Seeded fault of Found: the pane is looked for in the inventory of the scope.
FoundInScope == {p \in panes : p.id = Target /\ p.session \in Allowed}

\* The observed pane, if it is there: display-message finds at most one.
Found == {p \in panes : p.id = Target}

\* queryIdentity: pane id and pid of the process in it, with the pid of the
\* server.  What it tells nothing about is when that server was started.  The id of
\* the window, which it tells as well, changes only with a move.
Shown(p) == [pane |-> p.id, pid |-> p.pid]

\* procIdentity: when the process of that pid was started; it throws when there
\* is none.
ReadsProc(pid) == Running /\ serverPid = pid

\* The answer of the last job has been taken when the next one starts.
Starts(stage) == At("idle") /\ job' = [job EXCEPT !.at = stage] /\ outcome' = NoOutcome /\ UNCHANGED bound
StartSample == Starts("before")
StartValidation == bound # None /\ Starts("validate")

\* A command or a read fails or takes too long: the answer is an error.
CommandFails == ~At("idle") /\ Throws

\* "can't find pane" is an answer of a server that runs.
Missing == Running /\ Found = {}

\* The identity before the capture, or the question whether the pane is gone.
QueryBefore ==
  /\ At("before")
  /\ \/ \E p \in Found :
          IF p.session \in Allowed
          THEN Reads([job EXCEPT !.at = "proc before", !.id = Shown(p), !.pid = serverPid])
          ELSE Throws
     \/ Missing /\ Reads([job EXCEPT !.at = "generation before"])

ProcBefore ==
  /\ At("proc before") /\ ReadsProc(job.pid)
  /\ Reads([job EXCEPT !.at = "capture", !.pid = 0, !.proc = generation])

Capture ==
  /\ At("capture")
  /\ \E p \in Found : Reads([job EXCEPT !.at = "after", !.captured = Instance(p)])

\* Seeded fault of QueryAfter: the identity is not compared.
QueryAfterTrusting ==
  /\ At("after")
  /\ \E p \in Found :
       IF p.session \in Allowed THEN Reads([job EXCEPT !.at = "proc after", !.pid = serverPid])
       ELSE Throws

QueryAfter ==
  /\ At("after")
  /\ \E p \in Found :
       IF p.session \in Allowed /\ Shown(p) = job.id
       THEN Reads([job EXCEPT !.at = "proc after", !.pid = serverPid])
       ELSE Throws

\* The identity of a sample: pane, process and server.
Identity(id, proc) == [pane |-> id.pane, pid |-> id.pid, generation |-> proc]

ProcAfter ==
  /\ At("proc after") /\ ReadsProc(job.pid)
  /\ IF job.proc = generation
     THEN Ends([is |-> "present", identity |-> Identity(job.id, job.proc), captured |-> job.captured])
     ELSE Throws

\* queryServerGeneration asks for the pid of the server and when it was started.
GenerationPid(stage, next) == At(stage) /\ Running /\ Reads([job EXCEPT !.at = next, !.pid = serverPid])

GenerationBefore ==
  /\ At("proc generation before") /\ ReadsProc(job.pid)
  /\ Reads([job EXCEPT !.at = "inventory", !.proc = generation, !.id = job.pid])

\* listVisiblePanes between the two: only panes of allowed sessions are listed.  If
\* it is listed after all the sample fails, whatever the second generation is.
Inventory ==
  /\ At("inventory") /\ Running
  /\ IF \E p \in Found : p.session \in Allowed
     THEN Throws
     ELSE Reads([job EXCEPT !.at = "generation after"])

\* Whether it is the server of the observer is not asked.
GenerationAfter ==
  /\ At("proc generation after") /\ ReadsProc(job.pid)
  /\ IF job.pid = job.id /\ job.proc = generation THEN Ends([NoOutcome EXCEPT !.is = "closed"])
     ELSE Throws

\* validateObservation
QueryValidated ==
  /\ At("validate")
  /\ \E p \in Found :
       IF p.session \in Allowed
       THEN Reads([job EXCEPT !.at = "proc validate", !.id = Shown(p), !.pid = serverPid])
       ELSE Throws

ProcValidated ==
  /\ At("proc validate") /\ ReadsProc(job.pid)
  /\ IF Identity(job.id, generation) = bound THEN Ends([NoOutcome EXCEPT !.is = "valid"])
     ELSE Throws

Sampler ==
  \/ StartSample \/ StartValidation \/ CommandFails
  \/ QueryBefore \/ ProcBefore \/ Capture \/ QueryAfter \/ ProcAfter
  \/ GenerationPid("generation before", "proc generation before") \/ GenerationBefore
  \/ Inventory
  \/ GenerationPid("generation after", "proc generation after") \/ GenerationAfter
  \/ QueryValidated \/ ProcValidated

-----------------------------------------------------------------------------
\* A sample is of one pane process: what was captured belongs to the identity
\* that is reported, whatever pane or server has come and gone in between.
SampleOfOne == outcome.is = "present" => outcome.captured = outcome.identity

\* A pane that is reported closed has gone for good, with its process: it has not
\* merely moved out of scope, nor did the server only fail to answer.
ClosedIsGone == outcome.is = "closed" => bound \notin Instances
=============================================================================
