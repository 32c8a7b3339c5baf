----------------------------- MODULE McpClient -----------------------------
(***************************************************************************)
(* StdioMcpClient of the Console (console/src/mcp-client.ts): one cached   *)
(* connection to a child process that runs the MCP server, made on demand  *)
(* with retries and a cool-down, and the calls that are made over it.      *)
(*                                                                         *)
(* An action is one macrotask of the Console.  What follows an awaited     *)
(* promise runs as a microtask of the same macrotask, so a call whose      *)
(* connection is made is sent in the same step, and a call whose child has *)
(* gone is over in the same step.                                          *)
(***************************************************************************)
EXTENDS Naturals, FiniteSets

CONSTANTS
  Calls,      \* calls of the tools; each is made at most once
  Children,   \* processes that the transport may spawn
  Outcomes,   \* what a child may answer: "ok" or the code of an error
  Attempts,   \* reconnectAttempts
  None

ASSUME AttemptsAssumption == Attempts \in Nat \ {0}
ASSUME NoneAssumption == None \notin Children

VARIABLES
  child,      \* what each process is doing
  cached,     \* the process of this.client and this.transport, or None
  dial,       \* this.connecting: where connectWithRetry is
  cooling,    \* Date.now() < this.unavailableUntil
  released,   \* close has been called
  call        \* what each call awaits

mcpVars == <<child, cached, dial, cooling, released, call>>

\* Codes with which a call can end, beside those of the tool itself.
TIMEOUT == "TIMEOUT"
UNAVAILABLE == "MCP_UNAVAILABLE"
REQUEST_FAILED == "MCP_REQUEST_FAILED"

NotDialling == [at |-> "off", child |-> None, attempt |-> 0]
NotCalled == [at |-> "idle", child |-> None, outcome |-> None]

McpInit ==
  /\ child = [k \in Children |-> "none"]
  /\ cached = None
  /\ dial = NotDialling
  /\ cooling = FALSE
  /\ released = FALSE
  /\ call = [c \in Calls |-> NotCalled]

Waiting == [at |-> "connecting", child |-> None, outcome |-> None]
SentTo(k) == [at |-> "sent", child |-> k, outcome |-> None]
Over(o) == [at |-> "over", child |-> None, outcome |-> o]

\* The calls in S that are in a state r go on to Then.
Proceed(r, Then) == call' = [c \in Calls |-> IF call[c] = r THEN Then ELSE call[c]]

-----------------------------------------------------------------------------
\* connectOnce spawns a process and asks it to initialize.  Processes that do
\* not run are alike: which one is spawned does not matter.
Dial(attempt) == LET k == CHOOSE k \in Children : child[k] = "none" IN
  /\ \E l \in Children : child[l] = "none"
  /\ child' = [child EXCEPT ![k] = "starting"]
  /\ dial' = [at |-> "connect", child |-> k, attempt |-> attempt]

\* Seeded fault of EnsureClient: a connection that is being made is not joined.
EnsureClientAlone(c) ==
  /\ IF cached # None
     THEN /\ call' = [call EXCEPT ![c] = SentTo(cached)]
          /\ UNCHANGED <<child, dial>>
     ELSE /\ call' = [call EXCEPT ![c] = Waiting]
          /\ Dial(1)

\* ensureClient: the cached client, the connection being made, refusal while
\* it cools down, or a new connection.
EnsureClient(c) ==
  \/ /\ cached # None
     /\ call' = [call EXCEPT ![c] = SentTo(cached)]
     /\ UNCHANGED <<child, dial>>
  \/ /\ cached = None /\ dial.at # "off"
     /\ call' = [call EXCEPT ![c] = Waiting]
     /\ UNCHANGED <<child, dial>>
  \/ /\ cached = None /\ dial.at = "off" /\ cooling
     /\ call' = [call EXCEPT ![c] = Over(UNAVAILABLE)]
     /\ UNCHANGED <<child, dial>>
  \/ /\ cached = None /\ dial.at = "off" /\ ~cooling
     /\ call' = [call EXCEPT ![c] = Waiting]
     /\ Dial(1)

\* A tool is called.  Nobody calls once the client has been closed: the
\* process is about to exit.
McpCall(c) ==
  /\ call[c].at = "idle" /\ ~released
  /\ EnsureClient(c)
  /\ UNCHANGED <<cached, cooling, released>>

\* The child has answered initialize: the client is cached, and the calls that
\* awaited it are sent.
ConnectSucceeds ==
  /\ dial.at = "connect"
  /\ child' = [child EXCEPT ![dial.child] = "up"]
  /\ cached' = dial.child
  /\ dial' = NotDialling
  /\ Proceed(Waiting, SentTo(dial.child))
  /\ UNCHANGED <<cooling, released>>

\* It has exited, refused or not answered: the transport is closed first.
ConnectFails ==
  /\ dial.at = "connect"
  /\ child' = [child EXCEPT ![dial.child] = "stopping"]
  /\ dial' = [dial EXCEPT !.at = "hangup"]
  /\ UNCHANGED <<cached, cooling, released, call>>

\* The transport has closed: wait before the next attempt, or give up, cool
\* down and reject every call that awaited the connection.
HungUp ==
  /\ dial.at = "hangup"
  /\ child' = [child EXCEPT ![dial.child] = "none"]
  /\ IF dial.attempt < Attempts
     THEN /\ dial' = [dial EXCEPT !.at = "delay", !.child = None]
          /\ UNCHANGED <<cooling, call>>
     ELSE /\ dial' = NotDialling
          /\ cooling' = TRUE
          /\ Proceed(Waiting, Over(UNAVAILABLE))
  /\ UNCHANGED <<cached, released>>

\* The delay before the next attempt has passed.
Redial ==
  /\ dial.at = "delay"
  /\ Dial(dial.attempt + 1)
  /\ UNCHANGED <<cached, cooling, released, call>>

CooledDown == cooling /\ cooling' = FALSE
              /\ UNCHANGED <<child, cached, dial, released, call>>

\* onclose: the process is gone, the cache forgets it if it is the cached one,
\* and the calls sent to it are rejected while this.client is null.
ChildExits(k) ==
  /\ child[k] \in {"up", "stopping"} /\ dial.child # k
  /\ child' = [child EXCEPT ![k] = "none"]
  /\ cached' = IF cached = k THEN None ELSE cached
  /\ Proceed(SentTo(k), Over(UNAVAILABLE))
  /\ UNCHANGED <<dial, cooling, released>>

\* The SDK gives up on a call after its time; the server is not disturbed.
RequestTimesOut(c) ==
  /\ call[c].at = "sent"
  /\ call' = [call EXCEPT ![c] = Over(TIMEOUT)]
  /\ UNCHANGED <<child, cached, dial, cooling, released>>

\* The child answers a call: with a result, an error of the tool, or an error
\* of the protocol.
Respond(c, o) ==
  /\ call[c].at = "sent"
  /\ call' = [call EXCEPT ![c] = Over(o)]
  /\ UNCHANGED <<child, cached, dial, cooling, released>>

\* close forgets the client and stops its process; a connection that is being
\* made goes on.
McpClose ==
  /\ ~released /\ released' = TRUE
  /\ cached' = None
  /\ child' = [k \in Children |-> IF k = cached THEN "stopping" ELSE child[k]]
  /\ UNCHANGED <<dial, cooling, call>>

McpNext ==
  \/ ConnectSucceeds \/ ConnectFails \/ HungUp \/ Redial \/ CooledDown \/ McpClose
  \/ \E k \in Children : ChildExits(k)
  \/ \E c \in Calls : McpCall(c) \/ RequestTimesOut(c) \/ \E o \in Outcomes : Respond(c, o)

McpSpec == McpInit /\ [][McpNext]_mcpVars

-----------------------------------------------------------------------------
\* There is at most one process, and every reference to one is to a process
\* that lives: the cached client is up, a call is sent to a process that has
\* not ended, a call that awaits a connection has one coming, and while it cools
\* down there is neither a connection nor one being made.
ConnectionSound ==
  /\ \A k, l \in Children : child[k] # "none" /\ child[l] # "none" => k = l
  /\ cached # None => child[cached] = "up" /\ dial = NotDialling
  /\ cooling => cached = None /\ dial = NotDialling
  /\ \A c \in Calls :
       /\ call[c].at = "sent" => child[call[c].child] \in {"up", "stopping"}
       /\ call[c].at = "connecting" => dial.at # "off"
=============================================================================
