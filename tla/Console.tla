------------------------------ MODULE Console ------------------------------
(***************************************************************************)
(* A request from the page to the terminal and back: the page              *)
(* (console/public/app.js), the HTTP routes and the upgrade handler        *)
(* (console/src/http-app.ts), the MCP client (McpClient), the Terminal     *)
(* View (TerminalAttach), the tools of the MCP server                      *)
(* (src/tmux-backend.ts) and the tmux server, with the end of the Console. *)
(*                                                                         *)
(* An action is one macrotask of the page, of the Console or of the MCP    *)
(* server, or a step of tmux.  What the Console does when a call of the    *)
(* MCP client is over belongs to the same macrotask: Follows.              *)
(*                                                                         *)
(* The code of an error matters only in so far as it is TIMEOUT: every     *)
(* other code is "FAILED".                                                 *)
(***************************************************************************)
EXTENDS McpClient, TerminalAttach, Sequences

CONSTANT Kinds  \* the requests that are made

ASSUME RequestsAssumption == Calls = Viewers
ASSUME KindsAssumption == Kinds \subseteq {"send", "type", "control", "attach"}
ASSUME OutcomesAssumption == {"ok", "TIMEOUT", "FAILED"} \subseteq Outcomes
ASSUME NoneOfThese == None \notin {"send", "type", "control", "attach", "delivered", "ambiguous", "rejected"}

VARIABLES
  kind,       \* what each request asks for, None before it is made
  answer,     \* the answer of the Console to a POST, with its event
  told,       \* the POST requests whose outcome the page has heard
  sending,    \* the POST for which the composer is locked, or None
  tool,       \* the handler of each request in the MCP server
  late,       \* commands whose tmux client has been killed, or is orphaned
  buffers,    \* the named buffers of tmux: whose text each one holds
  screen      \* what has been written to the pane

pageVars == <<told, sending>>
httpVars == <<kind, answer>>
tmuxVars == <<tool, late, buffers, screen>>
vars == <<mcpVars, attachVars, pageVars, httpVars, tmuxVars>>

Requests == Calls
Texts == {"send", "type"}                 \* write_text with submit or without
Composed == {"send", "type", "control"}   \* POST requests of the composer

NoTool == [at |-> "none", child |-> None, code |-> "ok", stray |-> FALSE]

Init ==
  /\ McpInit /\ AttachInit
  /\ kind = [r \in Requests |-> None]
  /\ answer = [r \in Requests |-> None] /\ told = {}
  /\ sending = None
  /\ tool = [r \in Requests |-> NoTool]
  /\ late = {} /\ buffers = <<>> /\ screen = <<>>

-----------------------------------------------------------------------------
\* What the Console does in the macrotask in which calls are sent or over.
Sends(r) == call'[r].at = "sent" /\ call[r].at # "sent"
Ends(r) == call'[r].at = "over" /\ call[r].at # "over"

\* The server validates the arguments and asks tmux for its panes.
ToolsStart == tool' =
  [r \in Requests |-> IF Sends(r) THEN [NoTool EXCEPT !.at = "list", !.child = call'[r].child]
                      ELSE tool[r]]

\* The answer to a mutation, by the code with which the call has ended: 200
\* with an event "delivered", 504 with an event "ambiguous", another status and
\* no event.
Answer(o) == CASE o = "ok" -> "delivered" [] o = TIMEOUT -> "ambiguous" [] OTHER -> "rejected"

Answered == answer' =
  [r \in Requests |-> IF Ends(r) /\ kind'[r] # "attach" THEN Answer(call'[r].outcome) ELSE answer[r]]

\* An upgrade goes on when its Channel has been looked up.
Upgraded == LET U == {r \in Requests : kind'[r] = "attach" /\ Ends(r)} IN
  \/ U = {} /\ UNCHANGED attachVars
  \/ \E r \in U : U = {r} /\ call'[r].outcome = "ok" /\ (Reserve(r) \/ TargetRefused(r))
  \/ (\A r \in U : call'[r].outcome # "ok") /\ Refused(U)

Follows == ToolsStart /\ Answered /\ Upgraded

-----------------------------------------------------------------------------
\* readJsonBody and the checks of the body: a text may be too long.
BodyRefused(r, k) ==
  /\ k \in Texts
  /\ answer' = [answer EXCEPT ![r] = "rejected"]
  /\ UNCHANGED <<mcpVars, attachVars, tool>>

\* A request arrives: its body is refused, or its tool is called.  Requests that
\* have not been made are alike.
Arrive(r, k) ==
  /\ kind[r] = None /\ r = CHOOSE q \in Requests : kind[q] = None
  /\ k \in Kinds /\ ~released
  /\ kind' = [kind EXCEPT ![r] = k]
  /\ UNCHANGED <<told, late, buffers, screen>>
  /\ (McpCall(r) /\ Follows) \/ BodyRefused(r, k)

\* The page: sendText and sendControl lock the composer; the Terminal View is a
\* page of its own.
Usable == sending = None
Send(r) == Usable /\ sending' = r /\ \E k \in Composed : Arrive(r, k)
OpenTerminal(r) == Arrive(r, "attach") /\ UNCHANGED sending

\* Seeded fault of Freed: a network error leaves the composer locked.
FreedByAnswer(r, w) == IF sending = r /\ w # "network" THEN None ELSE sending

\* The finally of sendText and sendControl.
Freed(r, w) == IF sending = r THEN None ELSE sending

\* The page hears the answer, or that there will be none: the connection is
\* lost, or the Console has gone.
Hear(r, w) ==
  /\ kind[r] \notin {None, "attach"} /\ r \notin told
  /\ w = "network" \/ (w = answer[r] /\ w # None)
  /\ told' = told \cup {r}
  /\ sending' = Freed(r, w)
  /\ UNCHANGED <<mcpVars, attachVars, httpVars, tmuxVars>>

-----------------------------------------------------------------------------
\* The steps of the MCP client, with what follows from them.
Connection ==
  /\ ~released
  /\ \/ ConnectSucceeds \/ ConnectFails \/ HungUp \/ Redial \/ CooledDown
     \/ \E r \in Requests : RequestTimesOut(r)
  /\ UNCHANGED <<pageVars, kind, late, buffers, screen>>
  /\ Follows

\* What the tool of request r asks of tmux next; "reply" when it has finished.
Asks(r) == <<tool[r].at, r>>
InTmux(r) == tool[r].at \in {"list", "load", "paste", "key", "cleanup"}

\* The process of the server ends: its tools end with it, and the command that
\* each one has asked tmux for may still run.
ServerExits(k) ==
  LET gone == {r \in Requests : tool[r].child = k /\ tool[r].at \notin {"none", "done", "dead"}} IN
  /\ ChildExits(k)
  /\ tool' = [r \in Requests |-> IF r \in gone THEN [NoTool EXCEPT !.at = "dead"] ELSE tool[r]]
  /\ late' = late \cup {Asks(r) : r \in {q \in gone : InTmux(q) /\ tool[q].at # "list"}}
  /\ UNCHANGED <<pageVars, kind, buffers, screen>>
  /\ IF released THEN UNCHANGED <<answer, attachVars>> ELSE Answered /\ Upgraded

\* The tool answers; a call that has been given up takes no notice.
Reply(r) ==
  /\ tool[r].at = "reply"
  /\ UNCHANGED <<pageVars, kind, late, buffers, screen>>
  /\ IF call[r] = SentTo(tool[r].child) /\ ~released
     THEN Respond(r, tool[r].code) /\ Answered /\ Upgraded
     ELSE UNCHANGED <<mcpVars, answer, attachVars>>
  /\ tool' = [tool EXCEPT ![r] = [NoTool EXCEPT !.at = "done", !.stray = tool[r].stray]]

-----------------------------------------------------------------------------
\* Seeded fault of BufferName: one name for all.
BufferNameOfAll(r) == CHOOSE q \in Requests : TRUE

\* The name of a buffer is drawn at random for each call.
BufferName(r) == r

Without(n) == [m \in DOMAIN buffers \ {n} |-> buffers[m]]
Holds(n) == n \in DOMAIN buffers

\* tmux can carry out command c, if the pane is there; what it does then.
Can(c) == c[1] \in {"paste", "cleanup"} => Holds(BufferName(c[2]))

Do(c) == LET r == c[2] IN
  /\ buffers' = CASE c[1] = "load" -> [m \in DOMAIN buffers \cup {BufferName(r)} |->
                                         IF m = BufferName(r) THEN r ELSE buffers[m]]
                  [] c[1] \in {"paste", "cleanup"} -> Without(BufferName(r))
                  [] OTHER -> buffers
  /\ screen' = CASE c[1] = "paste" -> Append(screen, <<buffers[BufferName(r)], "text">>)
                 [] c[1] = "key" -> Append(screen, <<r, "key">>)
                 [] OTHER -> screen

\* The stage of writeText, sendControl or getChannel after one that succeeds.
After(k, stage) ==
  CASE stage = "list" -> IF k \in Texts THEN "load" ELSE IF k = "control" THEN "key" ELSE "reply"
    [] stage = "load" -> "paste"
    [] stage = "paste" -> IF k = "send" THEN "key" ELSE "reply"
    [] OTHER -> "reply"

\* Seeded fault of AfterFailure: the buffer is left to tmux.
AfterFailureLeaving(stage) == "reply"

\* A buffer that may exist is deleted.
AfterFailure(stage) == IF stage \in {"load", "paste"} THEN "cleanup" ELSE "reply"

\* A failure of the clean-up does not replace the code of the tool.
Failed(r, code) ==
  [tool[r] EXCEPT !.at = AfterFailure(@), !.code = IF tool[r].at = "cleanup" THEN @ ELSE code,
                  !.stray = @ \/ tool[r].at = "cleanup" \/ (tool[r].at = "load" /\ code = TIMEOUT)]

\* validateOrdinaryText: a text with control characters goes no further.
ArgumentRefused(r) ==
  /\ tool[r].at = "list" /\ kind[r] \in Texts
  /\ tool' = [tool EXCEPT ![r].at = "reply", ![r].code = "FAILED"]
  /\ UNCHANGED <<mcpVars, attachVars, pageVars, httpVars, late, buffers, screen>>

\* The command of r succeeds, fails, or takes too long: its client is killed,
\* and it may still run.
TmuxSucceeds(r) ==
  /\ InTmux(r) /\ Can(Asks(r)) /\ Do(Asks(r))
  /\ tool' = [tool EXCEPT ![r].at = After(kind[r], @)]
  /\ UNCHANGED <<mcpVars, attachVars, pageVars, httpVars, late>>

TmuxFails(r) ==
  /\ InTmux(r)
  /\ tool' = [tool EXCEPT ![r] = Failed(r, "FAILED")]
  /\ UNCHANGED <<mcpVars, attachVars, pageVars, httpVars, late, buffers, screen>>

TmuxTimesOut(r) ==
  /\ InTmux(r)
  /\ tool' = [tool EXCEPT ![r] = Failed(r, TIMEOUT)]
  /\ late' = IF tool[r].at = "list" THEN late ELSE late \cup {Asks(r)}
  /\ UNCHANGED <<mcpVars, attachVars, pageVars, httpVars, buffers, screen>>

\* A command without a client runs, or does not.
LateCommand(c) ==
  /\ c \in late /\ late' = late \ {c}
  /\ (Can(c) /\ Do(c)) \/ UNCHANGED <<buffers, screen>>
  /\ UNCHANGED <<mcpVars, attachVars, pageVars, httpVars, tool>>

-----------------------------------------------------------------------------
\* The Terminal View once it is attached.
Terminal(r) ==
  /\ PtyExits(r) \/ SocketFails(r) \/ SocketCloses(r)
  /\ ~released
  /\ UNCHANGED <<mcpVars, pageVars, httpVars, tmuxVars>>

\* The Console exits: it has been killed, or has waited two seconds for its
\* connections to close, or has closed them and the MCP client.
Exit ==
  /\ McpClose /\ AttachStops
  /\ UNCHANGED <<pageVars, httpVars, tmuxVars>>

Next ==
  \/ \E r \in Requests : Send(r) \/ OpenTerminal(r)
  \/ \E r \in Requests : \E w \in {"delivered", "ambiguous", "rejected", "network"} : Hear(r, w)
  \/ Connection
  \/ \E k \in Children : ServerExits(k)
  \/ \E r \in Requests : Reply(r) \/ ArgumentRefused(r) \/ TmuxSucceeds(r) \/ TmuxFails(r) \/ TmuxTimesOut(r) \/ Terminal(r)
  \/ \E c \in late : LateCommand(c)
  \/ Exit

\* The connection, the tools and their commands all have timers; the operating
\* system reports the end of a process.
Fairness ==
  /\ WF_vars(Connection)
  /\ \A k \in Children : WF_vars(child[k] = "stopping" /\ ServerExits(k))
  /\ \A r \in Requests :
       /\ WF_vars(Reply(r))
       /\ WF_vars(TmuxSucceeds(r) \/ TmuxFails(r) \/ TmuxTimesOut(r))
       /\ WF_vars((answer[r] # None \/ released) /\ \E w \in {"delivered", "ambiguous", "rejected", "network"} : Hear(r, w))

Spec == Init /\ [][Next]_vars /\ Fairness

-----------------------------------------------------------------------------
\* How often request r has reached the pane.
Written(r, what) == Cardinality({i \in DOMAIN screen : screen[i] = <<r, what>>})

\* No request reaches the pane twice, whatever is lost, killed or retried, no
\* Enter comes before its text, and what is answered "delivered" is there in
\* full: the text, then the key.
DeliveredIsThere == \A r \in Requests :
  /\ Written(r, "text") <= 1 /\ Written(r, "key") <= 1
  /\ \A i \in DOMAIN screen : screen[i] = <<r, "key">> /\ kind[r] = "send" =>
       \E j \in 1..(i - 1) : screen[j] = <<r, "text">>
  /\ answer[r] = "delivered" =>
       /\ kind[r] \in Texts => Written(r, "text") = 1
       /\ kind[r] \notin {"type"} => Written(r, "key") = 1

\* A tool that has come to its end has left no buffer with the operator's text
\* in the tmux server, unless its clean-up failed or its load was overtaken.
BuffersGone == \A r \in Requests :
  tool[r].at \in {"reply", "done"} /\ ~tool[r].stray => ~Holds(BufferName(r))

\* Every POST is answered and frees the composer, and every upgrade is decided,
\* whatever the server, the connection and tmux do.
EveryRequestEnds == \A r \in Requests :
  kind[r] # None ~> IF kind[r] = "attach" THEN socket[r] # "none" \/ released
                    ELSE r \in told /\ sending # r
=============================================================================
