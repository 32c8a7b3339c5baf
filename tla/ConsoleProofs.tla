---------------------------- MODULE ConsoleProofs ----------------------------
(***************************************************************************)
(* Proofs about a request from the page to the terminal and back, for any  *)
(* number of requests, processes and attempts: first about the two         *)
(* components of Console by themselves, then about their composition.      *)
(*                                                                         *)
(* The MCP client: McpInv adds to ConnectionSound which process there is   *)
(* in each state of the connection: the cached one, the one that is        *)
(* dialled, or, once the client has been closed, one that is stopping.     *)
(*                                                                         *)
(* The slots of the Terminal View, for any limit: SlotsExact is inductive  *)
(* together with the types: what each action does to the two counters it   *)
(* does to the two sets they count.                                        *)
(*                                                                         *)
(* The composition implements the specifications of its components, so     *)
(* what they promise it keeps; what is promised of the pane and of the     *)
(* buffers of tmux follows from what each stage of a tool has done, which  *)
(* Staged and BufferKept state.                                            *)
(***************************************************************************)
EXTENDS Console, FiniteSetTheorems, SequenceTheorems, TLAPS

ChildStates == {"none", "starting", "up", "stopping"}
DialStates == {"off", "connect", "hangup", "delay"}

McpTypes ==
  /\ child \in [Children -> ChildStates]
  /\ cached \in Children \cup {None}
  /\ dial \in [at : DialStates, child : Children \cup {None}, attempt : Nat]
  /\ cooling \in BOOLEAN /\ released \in BOOLEAN
  /\ call \in [Calls -> [at : {"idle", "connecting", "sent", "over"},
                         child : Children \cup {None},
                         outcome : Outcomes \cup {None, TIMEOUT, UNAVAILABLE}]]
  /\ \A c \in Calls :
       /\ call[c].at = "sent" => call[c].child \in Children /\ call[c] = SentTo(call[c].child)
       /\ call[c].at = "connecting" => call[c] = Waiting

NoneLives == \A k \in Children : child[k] = "none"
OnlyLives(l) == \A k \in Children : k # l => child[k] = "none"

\* The process in each state of the connection.
Cached == cached # None => child[cached] = "up" /\ OnlyLives(cached) /\ dial = NotDialling /\ ~cooling
Dialled ==
  /\ dial.at = "off" => dial = NotDialling
  /\ dial.at # "off" => cached = None /\ ~cooling
  /\ dial.at \in {"connect", "hangup"} =>
       /\ dial.child \in Children /\ OnlyLives(dial.child)
       /\ child[dial.child] = IF dial.at = "connect" THEN "starting" ELSE "stopping"
  /\ dial.at = "delay" => NoneLives /\ dial.child = None
Unconnected ==
  cached = None /\ dial.at = "off" =>
    /\ ~released => NoneLives
    /\ \A k, l \in Children : child[k] # "none" /\ child[l] # "none" => k = l
    /\ \A k \in Children : child[k] \in {"none", "stopping"}

\* A call is sent to a process that lives, and awaits a connection that is made.
CallsGo ==
  \A c \in Calls :
    /\ call[c].at = "sent" => child[call[c].child] \in {"up", "stopping"} /\ dial.at = "off"
    /\ call[c].at = "connecting" => dial.at # "off"

McpInv == McpTypes /\ Cached /\ Dialled /\ Unconnected /\ CallsGo

\* It is what is to be shown.
LEMMA McpInvImplies == McpInv => ConnectionSound
<1> SUFFICES ASSUME McpInv PROVE ConnectionSound
  OBVIOUS
<1>1. \A k, l \in Children : child[k] # "none" /\ child[l] # "none" => k = l
  <2>1. CASE cached # None
    BY <2>1 DEF McpInv, McpTypes, Cached, OnlyLives
  <2>2. CASE dial.at \in {"connect", "hangup"}
    BY <2>2 DEF McpInv, Dialled, OnlyLives
  <2>3. CASE dial.at = "delay"
    BY <2>3 DEF McpInv, Dialled, NoneLives
  <2>4. CASE cached = None /\ dial.at = "off"
    BY <2>4 DEF McpInv, Unconnected
  <2> QED BY <2>1, <2>2, <2>3, <2>4 DEF McpInv, McpTypes, DialStates
<1>2. /\ cached # None => child[cached] = "up" /\ dial = NotDialling
      /\ cooling => cached = None /\ dial = NotDialling
  BY DEF McpInv, Cached, Dialled
<1>3. \A c \in Calls :
        /\ call[c].at = "sent" => child[call[c].child] \in {"up", "stopping"}
        /\ call[c].at = "connecting" => dial.at # "off"
  BY DEF McpInv, CallsGo
<1> QED BY <1>1, <1>2, <1>3 DEF ConnectionSound

\* The client starts with no process and no connection (the constructor of
\* StdioMcpClient).
THEOREM McpInitial == McpInit => McpInv
<1> SUFFICES ASSUME McpInit PROVE McpInv
  OBVIOUS
<1>1. McpTypes
  BY DEF McpInit, McpTypes, ChildStates, DialStates, NotDialling, NotCalled
<1>2. Cached /\ Dialled /\ Unconnected
  BY DEF McpInit, Cached, Dialled, Unconnected, NotDialling, NoneLives
<1>3. CallsGo
  BY DEF McpInit, CallsGo, NotCalled
<1> QED BY <1>1, <1>2, <1>3 DEF McpInv

-----------------------------------------------------------------------------
\* The process that is dialled exists and was not running.
LEMMA DialSpawns ==
  ASSUME McpTypes, NEW n \in Nat, Dial(n)
  PROVE  \E k \in Children :
           /\ child[k] = "none" /\ child' = [child EXCEPT ![k] = "starting"]
           /\ dial' = [at |-> "connect", child |-> k, attempt |-> n]
BY DEF Dial

\* Dialling when nothing lives leads to a state of the invariant.
LEMMA DialKeeps ==
  ASSUME McpInv, NoneLives, NEW n \in Nat, Dial(n), cached = None, ~cooling,
         UNCHANGED <<cached, cooling, released>>
  PROVE  /\ child' \in [Children -> ChildStates]
         /\ dial' \in [at : DialStates, child : Children \cup {None}, attempt : Nat]
         /\ dial'.at = "connect" /\ Cached' /\ Dialled' /\ Unconnected'
<1>1. PICK k \in Children :
        /\ child[k] = "none" /\ child' = [child EXCEPT ![k] = "starting"]
        /\ dial' = [at |-> "connect", child |-> k, attempt |-> n]
  BY DialSpawns DEF McpInv
<1>2. child' \in [Children -> ChildStates]
  BY <1>1 DEF McpInv, McpTypes, ChildStates
<1>3. dial' \in [at : DialStates, child : Children \cup {None}, attempt : Nat] /\ dial'.at = "connect"
  BY <1>1 DEF DialStates
<1>4. Dialled'
  BY <1>1 DEF McpInv, McpTypes, NoneLives, OnlyLives, Dialled
<1>5. Cached' /\ Unconnected'
  BY <1>3 DEF Cached, Unconnected
<1> QED BY <1>2, <1>3, <1>4, <1>5

\* Nobody has been sent a call while nothing lives.
LEMMA NobodySent ==
  ASSUME McpInv, NoneLives, NEW c \in Calls
  PROVE  call[c].at # "sent"
BY DEF McpInv, McpTypes, CallsGo, NoneLives

LEMMA McpCallKeeps ==
  ASSUME McpInv, NEW c \in Calls, McpCall(c)
  PROVE  McpInv'
<1>1. CASE cached # None /\ call' = [call EXCEPT ![c] = SentTo(cached)] /\ UNCHANGED <<child, dial>>
  <2>1. McpTypes'
    BY <1>1 DEF McpInv, McpTypes, McpCall, SentTo, Waiting
  <2>2. CallsGo'
    BY <1>1 DEF McpInv, McpTypes, McpCall, SentTo, Cached, CallsGo, NotDialling
  <2> QED BY <1>1, <2>1, <2>2 DEF McpInv, McpCall, Cached, Dialled, Unconnected, NoneLives, OnlyLives
<1>2. CASE dial.at # "off" /\ call' = [call EXCEPT ![c] = Waiting] /\ UNCHANGED <<child, dial>>
  <2>1. McpTypes'
    BY <1>2 DEF McpInv, McpTypes, McpCall, Waiting, SentTo
  <2>2. CallsGo'
    BY <1>2 DEF McpInv, McpTypes, McpCall, Waiting, CallsGo
  <2> QED BY <1>2, <2>1, <2>2 DEF McpInv, McpCall, Cached, Dialled, Unconnected, NoneLives, OnlyLives
<1>3. CASE call' = [call EXCEPT ![c] = Over(UNAVAILABLE)] /\ UNCHANGED <<child, dial>>
  <2>1. McpTypes'
    BY <1>3 DEF McpInv, McpTypes, McpCall, Over, SentTo, Waiting
  <2>2. CallsGo'
    BY <1>3 DEF McpInv, McpTypes, McpCall, Over, CallsGo
  <2> QED BY <1>3, <2>1, <2>2 DEF McpInv, McpCall, Cached, Dialled, Unconnected, NoneLives, OnlyLives
<1>4. CASE cached = None /\ dial.at = "off" /\ ~cooling /\ call' = [call EXCEPT ![c] = Waiting] /\ Dial(1)
  <2>1. NoneLives
    BY <1>4 DEF McpInv, McpCall, Unconnected
  <2>2. /\ child' \in [Children -> ChildStates]
        /\ dial' \in [at : DialStates, child : Children \cup {None}, attempt : Nat]
        /\ dial'.at = "connect" /\ Cached' /\ Dialled' /\ Unconnected'
    BY <1>4, <2>1, DialKeeps DEF McpCall
  <2>3. McpTypes'
    BY <1>4, <2>2 DEF McpInv, McpTypes, McpCall, Waiting, SentTo
  <2>4. CallsGo'
    BY <1>4, <2>1, <2>2, NobodySent DEF McpInv, McpTypes, Waiting, CallsGo
  <2> QED BY <2>2, <2>3, <2>4 DEF McpInv
<1> QED BY <1>1, <1>2, <1>3, <1>4 DEF McpCall, EnsureClient

LEMMA ConnectSucceedsKeeps == ASSUME McpInv, ConnectSucceeds PROVE McpInv'
<1> DEFINE k == dial.child
<1>1. k \in Children /\ OnlyLives(k) /\ cached = None /\ ~cooling
  BY DEF McpInv, Dialled, ConnectSucceeds
<1>2. child' = [child EXCEPT ![k] = "up"] /\ cached' = k /\ dial' = NotDialling
  BY DEF ConnectSucceeds
<1>3. \A c \in Calls : call'[c] = IF call[c] = Waiting THEN SentTo(k) ELSE call[c]
  BY DEF ConnectSucceeds, Proceed
<1>4. \A c \in Calls : call[c].at # "sent"
  BY DEF McpInv, CallsGo, ConnectSucceeds
<1> HIDE DEF k
<1>5. McpTypes'
  <2>1. call' \in [Calls -> [at : {"idle", "connecting", "sent", "over"},
                         child : Children \cup {None},
                         outcome : Outcomes \cup {None, TIMEOUT, UNAVAILABLE}]]
    BY <1>1 DEF McpInv, McpTypes, ConnectSucceeds, Proceed, SentTo, k
  <2>2. \A c \in Calls : call'[c].at = "sent" =>
       call'[c].child \in Children /\ call'[c] = SentTo(call'[c].child)
    BY <1>1, <1>3, <1>4 DEF SentTo
  <2>5. \A c \in Calls : call'[c].at # "connecting"
    BY <1>3 DEF McpInv, McpTypes, SentTo
  <2>3. child' \in [Children -> ChildStates] /\ cached' \in Children \cup {None}
    BY <1>1, <1>2 DEF McpInv, McpTypes, ChildStates
  <2>4. dial' \in [at : DialStates, child : Children \cup {None}, attempt : Nat]
    BY <1>2 DEF NotDialling, DialStates
  <2> QED BY <2>1, <2>2, <2>3, <2>4, <2>5 DEF McpInv, McpTypes, ConnectSucceeds, SentTo
<1>6. Cached' /\ Dialled' /\ Unconnected'
  BY <1>1, <1>2, NoneAssumption DEF McpInv, McpTypes, ConnectSucceeds, Cached, Dialled, Unconnected, OnlyLives, NotDialling
<1>7. CallsGo'
  <2> SUFFICES ASSUME NEW c \in Calls
               PROVE  /\ call'[c].at = "sent" => child'[call'[c].child] \in {"up", "stopping"} /\ dial'.at = "off"
                      /\ call'[c].at # "connecting"
    BY DEF CallsGo
  <2>1. CASE call[c] = Waiting
    BY <2>1, <1>1, <1>2, <1>3 DEF McpInv, McpTypes, SentTo, NotDialling
  <2>2. CASE call[c] # Waiting
    <3>1. call[c].at # "connecting"
      BY <2>2 DEF McpInv, McpTypes, Waiting
    <3> QED BY <2>2, <3>1, <1>3, <1>4
  <2> QED BY <2>1, <2>2
<1> QED BY <1>5, <1>6, <1>7 DEF McpInv

LEMMA ConnectFailsKeeps == ASSUME McpInv, ConnectFails PROVE McpInv'
<1>1. dial.child \in Children /\ child[dial.child] = "starting"
  BY DEF McpInv, Dialled, ConnectFails
<1>2. McpTypes'
  BY DEF McpInv, McpTypes, ConnectFails, ChildStates, DialStates, SentTo, Waiting
<1>3. CallsGo'
  BY <1>1 DEF McpInv, McpTypes, ConnectFails, CallsGo, DialStates
<1>4. Cached' /\ Dialled' /\ Unconnected'
  BY <1>1 DEF McpInv, McpTypes, ConnectFails, Cached, Dialled, Unconnected, OnlyLives
<1> QED BY <1>2, <1>3, <1>4 DEF McpInv

LEMMA HungUpKeeps == ASSUME McpInv, HungUp PROVE McpInv'
<1>1. /\ dial.child \in Children /\ OnlyLives(dial.child) /\ cached = None /\ ~cooling
      /\ \A c \in Calls : call[c].at # "sent"
  BY DEF McpInv, Dialled, CallsGo, HungUp
<1>2. NoneLives'
  BY <1>1 DEF McpInv, McpTypes, HungUp, NoneLives, OnlyLives
<1>3. child' \in [Children -> ChildStates]
  BY DEF McpInv, McpTypes, HungUp, ChildStates
<1>4. CASE dial.attempt < Attempts
  <2>1. McpTypes'
    BY <1>3, <1>4 DEF McpInv, McpTypes, HungUp, DialStates, SentTo, Waiting
  <2>2. CallsGo'
    BY <1>1, <1>4 DEF McpInv, McpTypes, HungUp, CallsGo
  <2>3. /\ dial'.at = "delay" /\ dial'.child = None /\ cached' = None /\ ~cooling'
    BY <1>1, <1>4 DEF McpInv, McpTypes, HungUp
  <2>4. Cached' /\ Unconnected' BY <2>3 DEF Cached, Unconnected
  <2>5. Dialled' BY <1>2, <2>3 DEF Dialled
  <2> QED BY <2>1, <2>2, <2>4, <2>5 DEF McpInv
<1>5. CASE ~(dial.attempt < Attempts)
  <2>1. /\ dial' = NotDialling /\ cooling' = TRUE /\ cached' = None
        /\ \A c \in Calls : call'[c] = IF call[c] = Waiting THEN Over(UNAVAILABLE) ELSE call[c]
    BY <1>1, <1>5 DEF HungUp, Proceed
  <2>2. call' \in [Calls -> [at : {"idle", "connecting", "sent", "over"},
                             child : Children \cup {None},
                             outcome : Outcomes \cup {None, TIMEOUT, UNAVAILABLE}]]
    BY <1>5 DEF McpInv, McpTypes, HungUp, Proceed, Over
  <2>3. \A c \in Calls : call'[c].at \notin {"sent", "connecting"}
    BY <1>1, <2>1 DEF McpInv, McpTypes, Over
  <2>4. McpTypes'
    BY <1>3, <2>1, <2>2, <2>3 DEF McpInv, McpTypes, HungUp, NotDialling, DialStates
  <2>5. CallsGo'
    BY <2>3 DEF CallsGo
  <2>6. Cached' /\ Dialled' /\ Unconnected'
    BY <1>2, <2>1 DEF Cached, Dialled, Unconnected, NotDialling, NoneLives
  <2> QED BY <2>4, <2>5, <2>6 DEF McpInv
<1> QED BY <1>4, <1>5

LEMMA RedialKeeps == ASSUME McpInv, Redial PROVE McpInv'
<1>1. NoneLives /\ cached = None /\ ~cooling
  BY DEF McpInv, Dialled, Redial
<1>2. dial.attempt + 1 \in Nat
  BY DEF McpInv, McpTypes
<1>3. /\ child' \in [Children -> ChildStates]
      /\ dial' \in [at : DialStates, child : Children \cup {None}, attempt : Nat]
      /\ dial'.at = "connect" /\ Cached' /\ Dialled' /\ Unconnected'
  BY <1>1, <1>2, DialKeeps DEF Redial
<1>4. McpTypes'
  BY <1>3 DEF McpInv, McpTypes, Redial, SentTo, Waiting
<1>5. CallsGo'
  BY <1>1, <1>3, NobodySent DEF McpInv, CallsGo, Redial
<1> QED BY <1>3, <1>4, <1>5 DEF McpInv

LEMMA CooledDownKeeps == ASSUME McpInv, CooledDown PROVE McpInv'
<1>1. McpTypes' /\ CallsGo'
  BY DEF McpInv, McpTypes, CallsGo, CooledDown, SentTo, Waiting
<1>2. Cached' /\ Dialled' /\ Unconnected'
  BY DEF McpInv, CooledDown, Cached, Dialled, Unconnected, NoneLives, OnlyLives
<1> QED BY <1>1, <1>2 DEF McpInv

LEMMA ChildExitsKeeps == ASSUME McpInv, NEW k \in Children, ChildExits(k) PROVE McpInv'
<1>1. dial.at = "off" \/ dial.at = "delay" \/ OnlyLives(dial.child)
  BY DEF McpInv, McpTypes, DialStates, Dialled
<1>2. dial.at = "off"
  BY <1>1 DEF McpInv, McpTypes, Dialled, OnlyLives, NoneLives, ChildExits
<1>3. child' \in [Children -> ChildStates] /\ cached' \in Children \cup {None}
  BY DEF McpInv, McpTypes, ChildExits, ChildStates
<1>4. \A c \in Calls : call'[c] = IF call[c] = SentTo(k) THEN Over(UNAVAILABLE) ELSE call[c]
  BY DEF ChildExits, Proceed
<1>5. \A c \in Calls : call'[c].at = "sent" => call'[c] = call[c] /\ call[c].child # k
  BY <1>4 DEF McpInv, McpTypes, Over, SentTo
<1>6. McpTypes'
  <2>1. call' \in [Calls -> [at : {"idle", "connecting", "sent", "over"},
                             child : Children \cup {None},
                             outcome : Outcomes \cup {None, TIMEOUT, UNAVAILABLE}]]
    BY DEF McpInv, McpTypes, ChildExits, Proceed, Over
  <2>2. \A c \in Calls : call'[c].at = "connecting" => call'[c] = Waiting
    BY <1>4 DEF McpInv, McpTypes, Over
  <2>3. \A c \in Calls :
          call'[c].at = "sent" => call'[c].child \in Children /\ call'[c] = SentTo(call'[c].child)
    BY <1>5 DEF McpInv, McpTypes
  <2>4. UNCHANGED <<dial, cooling, released>>
    BY DEF ChildExits
  <2> QED BY <1>3, <2>1, <2>2, <2>3, <2>4 DEF McpInv, McpTypes, SentTo, Waiting
<1>7. CallsGo'
  <2> SUFFICES ASSUME NEW c \in Calls
               PROVE  /\ call'[c].at = "sent" => child'[call'[c].child] \in {"up", "stopping"} /\ dial'.at = "off"
                      /\ call'[c].at = "connecting" => dial'.at # "off"
    BY DEF CallsGo
  <2>1. call'[c].at # "connecting"
    BY <1>2, <1>4 DEF McpInv, CallsGo, Over
  <2>2. ASSUME call'[c].at = "sent"
        PROVE  child'[call'[c].child] \in {"up", "stopping"} /\ dial'.at = "off"
    BY <1>2, <1>5, <2>2 DEF McpInv, McpTypes, CallsGo, ChildExits
  <2> QED BY <2>1, <2>2
<1>8. Cached' /\ Dialled' /\ Unconnected'
  <2>1. CASE cached = None
    BY <1>2, <2>1 DEF McpInv, McpTypes, ChildExits, Cached, Dialled, Unconnected, NoneLives, NotDialling
  <2>2. CASE cached # None
    <3>1. cached = k
      BY <2>2 DEF McpInv, McpTypes, Cached, OnlyLives, ChildExits
    <3>2. cached' = None /\ NoneLives' /\ dial' = NotDialling
      BY <2>2, <3>1 DEF McpInv, McpTypes, Cached, OnlyLives, ChildExits, NoneLives
    <3> QED BY <3>2 DEF Cached, Dialled, Unconnected, NoneLives, NotDialling
  <2> QED BY <2>1, <2>2
<1> QED BY <1>6, <1>7, <1>8 DEF McpInv

\* A call that ends changes nothing else.
LEMMA EndsKeeps ==
  ASSUME McpInv, NEW c \in Calls, NEW o \in Outcomes \cup {TIMEOUT},
         call[c].at = "sent", call' = [call EXCEPT ![c] = Over(o)],
         UNCHANGED <<child, cached, dial, cooling, released>>
  PROVE  McpInv'
<1>1. McpTypes'
  BY DEF McpInv, McpTypes, Over, SentTo, Waiting
<1>2. CallsGo'
  BY DEF McpInv, McpTypes, CallsGo, Over
<1>3. Cached' /\ Dialled' /\ Unconnected'
  BY DEF McpInv, Cached, Dialled, Unconnected, NoneLives, OnlyLives
<1> QED BY <1>1, <1>2, <1>3 DEF McpInv

LEMMA McpCloseKeeps == ASSUME McpInv, McpClose PROVE McpInv'
<1>1. McpTypes'
  BY DEF McpInv, McpTypes, McpClose, ChildStates, SentTo, Waiting
<1>2. CallsGo'
  BY DEF McpInv, McpTypes, McpClose, CallsGo
<1>3. CASE cached = None
  <2>1. child' = child
    BY <1>3, NoneAssumption DEF McpInv, McpTypes, McpClose
  <2> QED BY <1>1, <1>2, <1>3, <2>1 DEF McpInv, McpClose, Cached, Dialled, Unconnected, OnlyLives, NoneLives
<1>4. CASE cached # None
  <2>1. OnlyLives(cached) /\ dial' = NotDialling /\ cached' = None /\ released'
    BY <1>4 DEF McpInv, Cached, McpClose
  <2>2. \A k \in Children : child'[k] = IF k = cached THEN "stopping" ELSE "none"
    BY <2>1 DEF McpClose, OnlyLives
  <2> QED BY <1>1, <1>2, <2>1, <2>2 DEF McpInv, Cached, Dialled, Unconnected, NotDialling
<1> QED BY <1>3, <1>4

-----------------------------------------------------------------------------
\* Every step of the client keeps the invariant.
THEOREM McpInductive == McpInv /\ [McpNext]_mcpVars => McpInv'
<1> SUFFICES ASSUME McpInv, [McpNext]_mcpVars PROVE McpInv'
  OBVIOUS
<1>1. CASE UNCHANGED mcpVars
  BY <1>1 DEF mcpVars, McpInv, McpTypes, Cached, Dialled, Unconnected, CallsGo, NoneLives, OnlyLives,
              SentTo, Waiting
<1>2. CASE ConnectSucceeds \/ ConnectFails \/ HungUp \/ Redial \/ CooledDown \/ McpClose
  BY <1>2, ConnectSucceedsKeeps, ConnectFailsKeeps, HungUpKeeps, RedialKeeps, CooledDownKeeps, McpCloseKeeps
<1>3. ASSUME NEW k \in Children, ChildExits(k) PROVE McpInv'
  BY <1>3, ChildExitsKeeps
<1>4. ASSUME NEW c \in Calls, McpCall(c) PROVE McpInv'
  BY <1>4, McpCallKeeps
<1>5. ASSUME NEW c \in Calls, RequestTimesOut(c) PROVE McpInv'
  BY <1>5, EndsKeeps DEF RequestTimesOut
<1>6. ASSUME NEW c \in Calls, NEW o \in Outcomes, Respond(c, o) PROVE McpInv'
  BY <1>6, EndsKeeps DEF Respond
<1> QED BY <1>1, <1>2, <1>3, <1>4, <1>5, <1>6 DEF McpNext

\* For any number of calls, processes and attempts there is at most one process
\* of the MCP server, the cached client is the one that is up, and every call is
\* sent to a process that lives or has a connection coming: ensureClient,
\* connectWithRetry, onclose and close.
THEOREM ConnectionKept == McpSpec => []ConnectionSound
BY McpInvImplies, McpInitial, McpInductive, PTL DEF McpSpec

-----------------------------------------------------------------------------

Terminals == {v \in Viewers : Attached(v)}
Held == {v \in Viewers : socket[v] = "aborting"}

AttachTypes ==
  /\ active \in Nat /\ reserved \in Nat
  /\ socket \in [Viewers -> Sockets] /\ pty \in [Viewers -> Ptys]

AttachInv == AttachTypes /\ SlotsExact

\* Viewers of any kind are finitely many.
LEMMA ViewersFinite ==
  ASSUME NEW V \in SUBSET Viewers
  PROVE  IsFiniteSet(V) /\ Cardinality(V) \in Nat
BY ViewersAssumption, FS_Subset, FS_CardinalityType

\* One viewer more, or one less, in a set of viewers.
LEMMA OneMore ==
  ASSUME NEW V \in SUBSET Viewers, NEW v \in Viewers, v \notin V
  PROVE  Cardinality(V \cup {v}) = Cardinality(V) + 1
BY ViewersFinite, FS_AddElement

\* Taking one viewer away takes one from the count.
LEMMA OneLess ==
  ASSUME NEW V \in SUBSET Viewers, NEW v \in V
  PROVE  Cardinality(V \ {v}) = Cardinality(V) - 1 /\ Cardinality(V) > 0
<1>1. IsFiniteSet(V) /\ Cardinality(V) \in Nat /\ V # {}
  BY ViewersFinite
<1>2. Cardinality(V) # 0
  BY <1>1, FS_EmptySet
<1>3. Cardinality(V \ {v}) = Cardinality(V) - 1
  BY <1>1, FS_RemoveElement
<1>4. Cardinality(V) > 0
  BY <1>1, <1>2
<1> QED BY <1>3, <1>4

\* What the invariant says of the counters.
LEMMA Counts ==
  ASSUME AttachInv
  PROVE  /\ active = Cardinality(Terminals) /\ reserved = Cardinality(Held)
         /\ active \in Nat /\ reserved \in Nat /\ active + reserved <= MaxAttach
BY DEF AttachInv, AttachTypes, SlotsExact, Terminals, Held

\* What is to be shown of each step: the counters follow the sets.
LEMMA InvFrom ==
  ASSUME AttachTypes', MaxAttach \in Nat,
         active' = Cardinality(Terminals'), reserved' = Cardinality(Held'),
         active' + reserved' <= MaxAttach,
         \A v \in Viewers : Attached(v)' => socket'[v] = "open"
  PROVE  AttachInv'
BY DEF AttachInv, SlotsExact, Terminals, Held

\* No terminal is attached and no slot reserved at the start
\* (TerminalAttachManager).
THEOREM AttachInitial == AttachInit => AttachInv
<1> SUFFICES ASSUME AttachInit PROVE AttachInv
  OBVIOUS
<1>1. Terminals = {} /\ Held = {}
  BY DEF AttachInit, Terminals, Held, Attached
<1>2. AttachTypes
  BY DEF AttachInit, AttachTypes, Sockets, Ptys
<1>3. Cardinality(Terminals) = 0 /\ Cardinality(Held) = 0
  BY <1>1, FS_EmptySet
<1> QED BY <1>2, <1>3, MaxAttachAssumption DEF AttachInv, SlotsExact, AttachInit, Terminals, Held, Attached

-----------------------------------------------------------------------------
LEMMA RefusedKeeps ==
  ASSUME AttachInv, NEW V \in SUBSET Viewers, Refused(V)
  PROVE  AttachInv'
<1>1. AttachTypes'
  BY DEF AttachInv, AttachTypes, Refused, Sockets
<1>2. Terminals' = Terminals /\ Held' = Held
  BY DEF AttachInv, AttachTypes, Refused, Terminals, Held, Attached
<1>3. \A v \in Viewers : Attached(v)' => socket'[v] = "open"
  BY DEF AttachInv, AttachTypes, SlotsExact, Refused, Attached
<1> QED BY <1>1, <1>2, <1>3, InvFrom, MaxAttachAssumption DEF AttachInv, SlotsExact, Refused, Terminals, Held

LEMMA OpensKeeps ==
  ASSUME AttachInv, NEW v \in Viewers, Opens(v)
  PROVE  AttachInv'
<1>1. AttachTypes'
  BY DEF AttachInv, AttachTypes, Opens, Sockets, Ptys
<1>2. v \notin Terminals /\ Terminals' = Terminals \cup {v} /\ Held' = Held
  BY DEF AttachInv, AttachTypes, SlotsExact, Opens, Terminals, Held, Attached
<1>3. Cardinality(Terminals') = Cardinality(Terminals) + 1
  BY <1>2, OneMore DEF Terminals
<1>4. \A w \in Viewers : Attached(w)' => socket'[w] = "open"
  BY DEF AttachInv, AttachTypes, SlotsExact, Opens, Attached
<1>5. active' + reserved' <= MaxAttach
  BY MaxAttachAssumption DEF Opens, SlotLeft, AttachInv, AttachTypes
<1> QED BY <1>1, <1>2, <1>3, <1>4, <1>5, InvFrom, MaxAttachAssumption
        DEF AttachInv, SlotsExact, Opens, Terminals, Held

LEMMA SpawnFailsKeeps ==
  ASSUME AttachInv, NEW v \in Viewers, SpawnFails(v)
  PROVE  AttachInv'
<1>1. AttachTypes'
  BY DEF AttachInv, AttachTypes, SpawnFails, Sockets
<1>2. Terminals' = Terminals /\ Held' = Held
  BY DEF AttachInv, AttachTypes, SpawnFails, Terminals, Held, Attached
<1>3. \A w \in Viewers : Attached(w)' => socket'[w] = "open"
  BY DEF AttachInv, AttachTypes, SlotsExact, SpawnFails, Attached
<1> QED BY <1>1, <1>2, <1>3, InvFrom, MaxAttachAssumption DEF AttachInv, SlotsExact, SpawnFails, Terminals, Held

LEMMA HandshakeAbortsKeeps ==
  ASSUME AttachInv, NEW v \in Viewers, HandshakeAborts(v)
  PROVE  AttachInv'
<1>1. AttachTypes'
  BY DEF AttachInv, AttachTypes, HandshakeAborts, Sockets
<1>2. v \notin Held /\ Held' = Held \cup {v} /\ Terminals' = Terminals
  BY DEF AttachInv, AttachTypes, HandshakeAborts, Terminals, Held, Attached
<1>3. Cardinality(Held') = Cardinality(Held) + 1
  BY <1>2, OneMore DEF Held
<1>4. \A w \in Viewers : Attached(w)' => socket'[w] = "open"
  BY DEF AttachInv, AttachTypes, SlotsExact, HandshakeAborts, Attached
<1>5. active' + reserved' <= MaxAttach
  BY MaxAttachAssumption DEF HandshakeAborts, SlotLeft, AttachInv, AttachTypes
<1> QED BY <1>1, <1>2, <1>3, <1>4, <1>5, InvFrom, MaxAttachAssumption
        DEF AttachInv, SlotsExact, HandshakeAborts, Terminals, Held

\* A terminal that is over, for whichever reason, gives its slot back once.
LEMMA Gone ==
  ASSUME AttachInv, NEW v \in Viewers, AttachTypes', reserved' = reserved, Held' = Held,
         Terminals' = Terminals \ {v},
         active' = IF Attached(v) THEN active - 1 ELSE active,
         \A w \in Viewers : Attached(w)' => socket'[w] = "open"
  PROVE  AttachInv'
<1>1. active' = Cardinality(Terminals') /\ active' <= active
  <2>1. CASE Attached(v)
    <3>1. v \in Terminals /\ Terminals \in SUBSET Viewers
      BY <2>1 DEF Terminals
    <3>2. Cardinality(Terminals \ {v}) = Cardinality(Terminals) - 1
      BY <3>1, OneLess
    <3> QED BY <2>1, <3>2, Counts
  <2>2. CASE ~Attached(v)
    <3>1. Terminals' = Terminals
      BY <2>2 DEF Terminals
    <3>2. active' = active
      BY <2>2
    <3> QED BY <3>1, <3>2, Counts
  <2> QED BY <2>1, <2>2
<1>2. reserved' = Cardinality(Held')
  BY Counts
<1>3. active' \in Nat /\ active' + reserved' <= MaxAttach
  BY <1>1, Counts, MaxAttachAssumption DEF AttachTypes
<1> QED BY <1>1, <1>2, <1>3, InvFrom, MaxAttachAssumption

LEMMA PtyExitsKeeps ==
  ASSUME AttachInv, NEW v \in Viewers, PtyExits(v)
  PROVE  AttachInv'
<1>1. Terminals' = Terminals \ {v} /\ Held' = Held
  BY DEF AttachInv, AttachTypes, PtyExits, Terminals, Held, Attached
<1>2. \A w \in Viewers : Attached(w)' => socket'[w] = "open"
  BY DEF AttachInv, AttachTypes, SlotsExact, PtyExits, Attached
<1>3. v \in Terminals => active > 0
  BY OneLess DEF AttachInv, AttachTypes, SlotsExact, Terminals
<1>4. AttachTypes'
  BY <1>3 DEF AttachInv, AttachTypes, PtyExits, Sockets, Ptys, Terminals
<1> QED BY <1>1, <1>2, <1>4, Gone DEF PtyExits

\* dispose gives back the slot that its terminal held, and no other.
LEMMA DisposeGives ==
  ASSUME AttachInv, NEW v \in Viewers, Dispose(v)
  PROVE  /\ Terminals' = Terminals \ {v}
         /\ active' = IF Attached(v) THEN active - 1 ELSE active
         /\ active' \in Nat /\ pty' \in [Viewers -> Ptys]
         /\ \A w \in Viewers : Attached(w)' => Attached(w) /\ w # v
<1>1. v \in Terminals => active > 0
  BY OneLess DEF AttachInv, AttachTypes, SlotsExact, Terminals
<1> QED BY <1>1 DEF AttachInv, AttachTypes, Dispose, Terminals, Attached, Ptys

LEMMA SocketFailsKeeps ==
  ASSUME AttachInv, NEW v \in Viewers, SocketFails(v)
  PROVE  AttachInv'
<1>1. AttachTypes' /\ Held' = Held
  BY DisposeGives DEF AttachInv, AttachTypes, SocketFails, Sockets, Held
<1>2. \A w \in Viewers : Attached(w)' => socket'[w] = "open"
  BY DisposeGives DEF AttachInv, AttachTypes, SlotsExact, SocketFails
<1> QED BY <1>1, <1>2, DisposeGives, Gone DEF SocketFails

LEMMA SocketClosesKeeps ==
  ASSUME AttachInv, NEW v \in Viewers, SocketCloses(v)
  PROVE  AttachInv'
<1>1. CASE socket[v] = "aborting"
  <2>1. v \in Held /\ Held' = Held \ {v} /\ Terminals' = Terminals
    BY <1>1 DEF AttachInv, AttachTypes, SocketCloses, Terminals, Held, Attached
  <2>2. Cardinality(Held') = Cardinality(Held) - 1 /\ Cardinality(Held) > 0
    BY <2>1, OneLess DEF Held
  <2>3. AttachTypes'
    <3>1. reserved - 1 \in Nat
      BY <2>2, Counts
    <3> QED BY <1>1, <3>1 DEF AttachInv, AttachTypes, SocketCloses, Sockets
  <2>4. \A w \in Viewers : Attached(w)' => socket'[w] = "open"
    BY <1>1 DEF AttachInv, AttachTypes, SlotsExact, SocketCloses, Attached
  <2>5. active' = active /\ reserved' = reserved - 1
    BY <1>1 DEF SocketCloses
  <2> QED BY <2>1, <2>2, <2>3, <2>4, <2>5, InvFrom, MaxAttachAssumption
          DEF AttachInv, AttachTypes, SlotsExact, Terminals, Held
<1>2. CASE socket[v] # "aborting"
  <2>1. AttachTypes' /\ Held' = Held
    BY <1>2, DisposeGives DEF AttachInv, AttachTypes, SocketCloses, Sockets, Held
  <2>2. \A w \in Viewers : Attached(w)' => socket'[w] = "open"
    BY <1>2, DisposeGives DEF AttachInv, AttachTypes, SlotsExact, SocketCloses
  <2> QED BY <1>2, <2>1, <2>2, DisposeGives, Gone DEF SocketCloses
<1> QED BY <1>1, <1>2

LEMMA AttachStopsKeeps ==
  ASSUME AttachInv, AttachStops
  PROVE  AttachInv'
<1>1. AttachTypes'
  BY DEF AttachInv, AttachTypes, AttachStops, Sockets, Ptys, Attached
<1>2. Terminals' = {} /\ Held' = {}
  BY DEF AttachInv, AttachTypes, AttachStops, Terminals, Held, Attached
<1>3. Cardinality(Terminals') = 0 /\ Cardinality(Held') = 0
  BY <1>2, FS_EmptySet
<1>4. \A v \in Viewers : ~Attached(v)'
  BY <1>2 DEF Terminals
<1> QED BY <1>1, <1>3, <1>4, InvFrom, MaxAttachAssumption DEF AttachStops

-----------------------------------------------------------------------------
\* Every step keeps the counters exact.
THEOREM AttachInductive == AttachInv /\ [AttachNext]_attachVars => AttachInv'
<1> SUFFICES ASSUME AttachInv, [AttachNext]_attachVars PROVE AttachInv'
  OBVIOUS
<1>1. CASE UNCHANGED attachVars
  BY <1>1 DEF attachVars, AttachInv, AttachTypes, SlotsExact, Attached
<1>2. ASSUME NEW V \in SUBSET Viewers, Refused(V) PROVE AttachInv'
  BY <1>2, RefusedKeeps
<1>3. ASSUME NEW v \in Viewers, Reserve(v) PROVE AttachInv'
  BY <1>3, OpensKeeps, SpawnFailsKeeps, HandshakeAbortsKeeps DEF Reserve
<1>4. ASSUME NEW v \in Viewers, PtyExits(v) \/ SocketFails(v) \/ SocketCloses(v) PROVE AttachInv'
  BY <1>4, PtyExitsKeeps, SocketFailsKeeps, SocketClosesKeeps
<1>5. CASE AttachStops
  BY <1>5, AttachStopsKeeps
<1> QED BY <1>1, <1>2, <1>3, <1>4, <1>5 DEF AttachNext

\* For any number of viewers and any limit, active and reserved count exactly
\* the terminals that run and the handshakes that are aborted, together they are
\* within CONSOLE_MAX_ATTACH, and no tmux client outlives its socket: reserve,
\* commit and dispose.
THEOREM SlotsKept == AttachSpec => []SlotsExact
<1>1. AttachInv => SlotsExact
  BY DEF AttachInv
<1> QED BY <1>1, AttachInitial, AttachInductive, PTL DEF AttachSpec

-----------------------------------------------------------------------------
(* The composition.                                                        *)

Codes == {"ok", TIMEOUT, "FAILED"}
Commands == {"list", "load", "paste", "key", "cleanup"}
Stages == Commands \cup {"none", "reply", "done", "dead"}
Tools == [at : Stages, child : Children \cup {None}, code : Codes, stray : BOOLEAN]
ToolTypes == tool \in [Requests -> Tools]

-----------------------------------------------------------------------------
(* The composition takes steps of its components.                          *)

\* What an upgrade does, when its look-up is over, is a step of the Terminal
\* View.
LEMMA UpgradedAttach == ASSUME Upgraded PROVE [AttachNext]_attachVars
<1> DEFINE U == {r \in Requests : kind'[r] = "attach" /\ Ends(r)}
<1>1. U \in SUBSET Viewers
  BY RequestsAssumption DEF Requests
<1>2. \/ UNCHANGED attachVars
      \/ \E r \in U : Reserve(r) \/ TargetRefused(r)
      \/ Refused(U)
  BY DEF Upgraded
<1> HIDE DEF U
<1> QED BY <1>1, <1>2 DEF AttachNext, TargetRefused

\* What the Console does when calls end is one step of the Terminal View at
\* most.
LEMMA FollowsAttach == ASSUME Follows PROVE [AttachNext]_attachVars
BY UpgradedAttach DEF Follows

\* Each kind of step of the Console is a step, or a stutter, of both
\* components.
LEMMA ArriveSteps ==
  ASSUME NEW r \in Requests, NEW k, Arrive(r, k)
  PROVE  [McpNext]_mcpVars /\ [AttachNext]_attachVars
<1>1. CASE McpCall(r) /\ Follows
  BY <1>1, FollowsAttach DEF McpNext, Requests
<1>2. CASE BodyRefused(r, k)
  BY <1>2 DEF BodyRefused
<1> QED BY <1>1, <1>2 DEF Arrive

LEMMA ConnectionSteps == ASSUME Connection PROVE McpNext /\ [AttachNext]_attachVars
BY FollowsAttach DEF Connection, McpNext, Requests

LEMMA ReplySteps ==
  ASSUME ToolTypes, NEW r \in Requests, Reply(r)
  PROVE  [McpNext]_mcpVars /\ [AttachNext]_attachVars
<1>1. CASE Respond(r, tool[r].code) /\ Answered /\ Upgraded
  <2>1. tool[r].code \in Outcomes
    BY OutcomesAssumption DEF ToolTypes, Tools, Codes, TIMEOUT
  <2> QED BY <1>1, <2>1, UpgradedAttach DEF McpNext, Requests
<1>2. CASE UNCHANGED <<mcpVars, answer, attachVars>>
  BY <1>2
<1> QED BY <1>1, <1>2 DEF Reply

LEMMA TerminalSteps ==
  ASSUME NEW r \in Requests, Terminal(r)
  PROVE  UNCHANGED mcpVars /\ AttachNext
BY RequestsAssumption DEF Terminal, AttachNext, Requests

LEMMA ServerExitsSteps ==
  ASSUME NEW k \in Children, ServerExits(k)
  PROVE  McpNext /\ [AttachNext]_attachVars
BY UpgradedAttach DEF ServerExits, McpNext

LEMMA StepsOfBoth ==
  ASSUME ToolTypes, [Next]_vars
  PROVE  [McpNext]_mcpVars /\ [AttachNext]_attachVars
<1>1. ASSUME NEW r \in Requests, Send(r) \/ OpenTerminal(r)
      PROVE  [McpNext]_mcpVars /\ [AttachNext]_attachVars
  BY <1>1, ArriveSteps DEF Send, OpenTerminal
<1>2. ASSUME NEW r \in Requests, NEW w, Hear(r, w) PROVE UNCHANGED <<mcpVars, attachVars>>
  BY <1>2 DEF Hear
<1>3. ASSUME NEW r \in Requests,
             ArgumentRefused(r) \/ TmuxSucceeds(r) \/ TmuxFails(r) \/ TmuxTimesOut(r)
      PROVE  UNCHANGED <<mcpVars, attachVars>>
  BY <1>3 DEF ArgumentRefused, TmuxSucceeds, TmuxFails, TmuxTimesOut
<1>4. ASSUME NEW c \in late, LateCommand(c) PROVE UNCHANGED <<mcpVars, attachVars>>
  BY <1>4 DEF LateCommand
<1>5. CASE Exit
  BY <1>5 DEF Exit, McpNext, AttachNext
<1>6. CASE UNCHANGED vars
  BY <1>6 DEF vars
<1>7. CASE Connection
  BY <1>7, ConnectionSteps
<1>8. ASSUME NEW k \in Children, ServerExits(k) PROVE McpNext /\ [AttachNext]_attachVars
  BY <1>8, ServerExitsSteps
<1>9. ASSUME NEW r \in Requests, Reply(r) \/ Terminal(r)
      PROVE  [McpNext]_mcpVars /\ [AttachNext]_attachVars
  BY <1>9, ReplySteps, TerminalSteps
<1> QED BY <1>1, <1>2, <1>3, <1>4, <1>5, <1>6, <1>7, <1>8, <1>9 DEF Next

-----------------------------------------------------------------------------
(* What the stages of a tool have done to the pane and to the buffers.     *)

\* What has been written; nothing is written twice.
Occurs(r, what) == \E i \in DOMAIN screen : screen[i] = <<r, what>>
Distinct == \A i, j \in DOMAIN screen : screen[i] = screen[j] => i = j

\* An Enter comes after its text.
Ordered == \A r \in Requests : \A i \in DOMAIN screen :
  screen[i] = <<r, "key">> /\ kind[r] = "send" => \E j \in 1..(i - 1) : screen[j] = <<r, "text">>

Complete(r) ==
  /\ kind[r] \in Texts => Occurs(r, "text")
  /\ kind[r] \in {"send", "control"} => Occurs(r, "key")

\* A command is asked of tmux once, so what is still to be asked or still to run
\* has not been written.
Staged(r) ==
  /\ tool[r].at \in {"none", "list", "load", "paste"} => ~Occurs(r, "text") /\ <<"paste", r>> \notin late
  /\ tool[r].at \in {"none", "list", "load", "paste", "key"} => ~Occurs(r, "key") /\ <<"key", r>> \notin late
  /\ <<"paste", r>> \in late => ~Occurs(r, "text")
  /\ <<"key", r>> \in late => ~Occurs(r, "key") /\ (kind[r] = "send" => Occurs(r, "text"))
  /\ tool[r].at \in {"load", "paste", "cleanup"} => kind[r] \in Texts
  /\ tool[r].at = "key" => kind[r] \in {"send", "control"} /\ (kind[r] = "send" => Occurs(r, "text"))

\* What a tool or the Console reports.
Reported(r) ==
  /\ tool[r].at \in {"none", "list", "load", "paste", "key"} => tool[r].code = "ok"
  /\ tool[r].at = "cleanup" => tool[r].code # "ok"
  /\ tool[r].at = "reply" /\ tool[r].code = "ok" => Complete(r)
  /\ answer[r] = "delivered" => kind[r] \in Composed /\ Complete(r)

\* Whose buffer there may be.
BufferKept(r) ==
  /\ tool[r].at \in {"none", "list", "load", "key"} => ~Holds(r)
  /\ tool[r].at \in {"reply", "done"} /\ ~tool[r].stray => ~Holds(r)
  /\ <<"load", r>> \in late =>
       tool[r].at = "dead" \/ (tool[r].stray /\ tool[r].at \in {"cleanup", "reply", "done"})

\* A tool runs for a call that has been sent, a call is one of a request.
Begun(r) ==
  /\ call[r].at \in {"idle", "connecting"} => tool[r] = NoTool
  /\ kind[r] = None => call[r].at = "idle" /\ answer[r] = None

TmuxTypes ==
  /\ ToolTypes
  /\ kind \in [Requests -> {None, "send", "type", "control", "attach"}]
  /\ answer \in [Requests -> {None, "delivered", "ambiguous", "rejected"}]
  /\ late \in SUBSET (Commands \X Requests)
  /\ DOMAIN buffers \in SUBSET Requests /\ \A n \in DOMAIN buffers : buffers[n] = n
  /\ screen \in Seq(Requests \X {"text", "key"})

Soundly == Distinct /\ Ordered
           /\ \A r \in Requests : Staged(r) /\ Reported(r) /\ BufferKept(r) /\ Begun(r)
ConsoleInv == McpInv /\ AttachInv /\ TmuxTypes /\ Soundly

\* Nothing has been asked or written at the start.
LEMMA ConsoleInitial == Init => ConsoleInv
<1> SUFFICES ASSUME Init PROVE ConsoleInv
  OBVIOUS
<1>1. McpInv /\ AttachInv
  BY McpInitial, AttachInitial DEF Init
<1>2. NoTool \in Tools
  BY DEF NoTool, Tools, Stages, Codes
<1>3. late = {} /\ screen = <<>> /\ DOMAIN buffers = {} /\ DOMAIN screen = {}
  BY DEF Init
<1>4. TmuxTypes
  <2>1. tool \in [Requests -> Tools]
    BY <1>2 DEF Init
  <2>2. screen \in Seq(Requests \X {"text", "key"})
    BY <1>3
  <2> QED BY <1>3, <2>1, <2>2 DEF Init, TmuxTypes, ToolTypes
<1>5. Distinct /\ Ordered
  BY <1>3 DEF Distinct, Ordered
<1>6. ASSUME NEW r \in Requests PROVE Staged(r) /\ Reported(r) /\ BufferKept(r) /\ Begun(r)
  <2>1. /\ tool[r] = NoTool /\ kind[r] = None /\ answer[r] = None /\ ~Holds(r)
        /\ ~Occurs(r, "text") /\ ~Occurs(r, "key") /\ late = {} /\ call[r].at = "idle"
    BY <1>3 DEF Init, McpInit, NotCalled, Requests, Holds, Occurs
  <2> QED BY <2>1, NoneOfThese DEF NoTool, Staged, Reported, BufferKept, Begun
<1> QED BY <1>1, <1>4, <1>5, <1>6 DEF ConsoleInv, Soundly

-----------------------------------------------------------------------------
(* What tmux does for a command.                                           *)

\* What a command of tmux does to the buffers and to the screen.
LEMMA CommandTypes ==
  ASSUME TmuxTypes, NEW r \in Requests, NEW x \in Commands, Can(<<x, r>>), Do(<<x, r>>)
  PROVE  /\ DOMAIN buffers' \in SUBSET Requests /\ \A n \in DOMAIN buffers' : buffers'[n] = n
         /\ \A n \in Requests : Holds(n)' => Holds(n) \/ (n = r /\ x = "load")
         /\ x \in {"paste", "cleanup"} => ~Holds(r)'
         /\ screen' = CASE x = "paste" -> Append(screen, <<r, "text">>)
                        [] x = "key" -> Append(screen, <<r, "key">>)
                        [] OTHER -> screen
<1>1. <<x, r>>[1] = x /\ <<x, r>>[2] = r
  OBVIOUS
<1>2. CASE x = "load"
  BY <1>1, <1>2 DEF TmuxTypes, Do, BufferName, Holds
<1>3. CASE x \in {"paste", "cleanup"}
  <2>1. r \in DOMAIN buffers /\ buffers[r] = r
    BY <1>1, <1>3 DEF TmuxTypes, Can, Holds, BufferName
  <2>2. buffers' = Without(r)
    BY <1>1, <1>3 DEF Do, BufferName
  <2> QED BY <1>1, <1>3, <2>1, <2>2 DEF TmuxTypes, Do, BufferName, Holds, Without
<1>4. CASE x \in {"list", "key"}
  BY <1>1, <1>4 DEF TmuxTypes, Do, BufferName, Holds
<1> QED BY <1>2, <1>3, <1>4 DEF Commands

\* One thing more is written.
LEMMA Writes ==
  ASSUME TmuxTypes, NEW r \in Requests, NEW w \in {"text", "key"}, screen' = Append(screen, <<r, w>>)
  PROVE  /\ screen' \in Seq(Requests \X {"text", "key"})
         /\ DOMAIN screen' = DOMAIN screen \cup {Len(screen) + 1}
         /\ \A i \in DOMAIN screen : screen'[i] = screen[i] /\ i \in Nat /\ i <= Len(screen)
         /\ screen'[Len(screen) + 1] = <<r, w>> /\ Len(screen) \in Nat
BY DEF TmuxTypes

\* A write that has not occurred before, and after its text, keeps the screen
\* in order.
LEMMA WritesOnce ==
  ASSUME TmuxTypes, Soundly, NEW r \in Requests, NEW w \in {"text", "key"},
         screen' = Append(screen, <<r, w>>), ~Occurs(r, w),
         w = "key" /\ kind[r] = "send" => Occurs(r, "text"), kind' = kind
  PROVE  /\ Distinct' /\ Ordered'
         /\ \A q \in Requests, v \in {"text", "key"} : Occurs(q, v)' <=> Occurs(q, v) \/ <<q, v>> = <<r, w>>
<1> DEFINE n == Len(screen) + 1
<1>1. /\ DOMAIN screen' = DOMAIN screen \cup {n}
      /\ \A i \in DOMAIN screen : screen'[i] = screen[i] /\ i \in Nat /\ i <= Len(screen)
      /\ screen'[n] = <<r, w>> /\ Len(screen) \in Nat
  BY Writes
<1> HIDE DEF n
<1>2. Distinct'
  BY <1>1 DEF Soundly, Distinct, Occurs
<1>3. Ordered'
  <2> SUFFICES ASSUME NEW q \in Requests, NEW i \in DOMAIN screen', screen'[i] = <<q, "key">>, kind[q] = "send"
               PROVE  \E j \in 1..(i - 1) : screen'[j] = <<q, "text">>
    BY DEF Ordered
  <2>1. CASE i \in DOMAIN screen
    <3>1. PICK j \in 1..(i - 1) : screen[j] = <<q, "text">>
      BY <1>1, <2>1 DEF Soundly, Ordered
    <3>2. j \in DOMAIN screen
      BY <1>1, <2>1 DEF TmuxTypes
    <3> QED BY <1>1, <3>1, <3>2
  <2>2. CASE i = n
    <3>1. q = r /\ w = "key"
      BY <1>1, <2>2
    <3>2. PICK j \in DOMAIN screen : screen[j] = <<r, "text">>
      BY <3>1 DEF Occurs
    <3>3. j \in 1..(n - 1)
      BY <3>2 DEF TmuxTypes, n
    <3> QED BY <1>1, <2>2, <3>1, <3>2, <3>3
  <2> QED BY <1>1, <2>1, <2>2
<1>4. ASSUME NEW q \in Requests, NEW v \in {"text", "key"}
      PROVE  Occurs(q, v)' <=> Occurs(q, v) \/ <<q, v>> = <<r, w>>
  BY <1>1 DEF Occurs
<1> QED BY <1>2, <1>3, <1>4

-----------------------------------------------------------------------------
(* What the MCP client does to the calls.                                  *)

McpGoesOn ==
  \/ ConnectSucceeds \/ ConnectFails \/ HungUp \/ Redial \/ CooledDown
  \/ \E k \in Children : ChildExits(k)
  \/ \E c \in Calls : RequestTimesOut(c)

\* What a step of the connection may do to a call.
LEMMA GoesOn ==
  ASSUME McpInv, McpGoesOn, NEW c \in Calls
  PROVE  /\ call'[c].at \in {"idle", "connecting"} => call'[c] = call[c]
         /\ call[c].at = "idle" => call'[c] = call[c]
         /\ Sends(c) => call[c].at = "connecting"
         /\ Ends(c) => call'[c].outcome \in {UNAVAILABLE, TIMEOUT}
<1> USE DEF McpInv, McpTypes, Sends, Ends
<1>1. CASE ConnectSucceeds
  BY <1>1 DEF ConnectSucceeds, Proceed, SentTo, Waiting
<1>2. CASE ConnectFails \/ Redial \/ CooledDown
  BY <1>2 DEF ConnectFails, Redial, CooledDown
<1>3. CASE HungUp
  BY <1>3 DEF HungUp, Proceed, Waiting, Over
<1>4. ASSUME NEW k \in Children, ChildExits(k) PROVE call'[c] = call[c] \/ (call[c] = SentTo(k) /\ call'[c] = Over(UNAVAILABLE))
  BY <1>4 DEF ChildExits, Proceed
<1>5. ASSUME NEW d \in Calls, RequestTimesOut(d) PROVE call'[c] = call[c] \/ (call[c].at = "sent" /\ call'[c] = Over(TIMEOUT))
  BY <1>5 DEF RequestTimesOut
<1> QED BY <1>1, <1>2, <1>3, <1>4, <1>5 DEF McpGoesOn, SentTo, Over

\* A new call changes no other one.
LEMMA McpCallOnly ==
  ASSUME McpInv, NEW r \in Calls, McpCall(r), NEW c \in Calls
  PROVE  /\ c # r => call'[c] = call[c]
         /\ call[r].at = "idle" /\ call'[r].at # "idle"
         /\ Ends(r) => call'[r].outcome = UNAVAILABLE
<1> USE DEF McpInv, McpTypes
<1>1. call' = [call EXCEPT ![r] = SentTo(cached)] \/ call' = [call EXCEPT ![r] = Waiting]
      \/ call' = [call EXCEPT ![r] = Over(UNAVAILABLE)]
  BY DEF McpCall, EnsureClient
<1> QED BY <1>1 DEF McpCall, SentTo, Waiting, Over, Ends

\* "delivered" is answered only to a mutation whose call has ended well.
LEMMA Answering ==
  ASSUME TmuxTypes, Answered
  PROVE  /\ answer' \in [Requests -> {None, "delivered", "ambiguous", "rejected"}]
         /\ \A r \in Requests :
              /\ ~Ends(r) => answer'[r] = answer[r]
              /\ answer'[r] = "delivered" =>
                   answer[r] = "delivered" \/ (Ends(r) /\ call'[r].outcome = "ok" /\ kind'[r] # "attach")
BY DEF TmuxTypes, Answered, Answer

-----------------------------------------------------------------------------
(* Steps that leave tmux alone.                                            *)

Starts(r) ==
  tool[r] = NoTool /\ tool'[r] \in Tools /\ tool'[r].at = "list" /\ tool'[r].code = "ok" /\ ~tool'[r].stray

\* A tool starts only for a call that is being sent.
LEMMA Starting ==
  ASSUME ConsoleInv, McpInv', ToolsStart,
         \A c \in Calls : Sends(c) => call[c].at \in {"idle", "connecting"}
  PROVE  tool' \in [Requests -> Tools] /\ \A r \in Requests : (~Sends(r) /\ tool'[r] = tool[r]) \/ Starts(r)
<1>1. ASSUME NEW r \in Requests, Sends(r) PROVE Starts(r)
  <2>1. tool[r] = NoTool
    BY <1>1 DEF ConsoleInv, Soundly, Begun, Requests
  <2>2. tool'[r] = [NoTool EXCEPT !.at = "list", !.child = call'[r].child]
    BY <1>1 DEF ToolsStart
  <2>3. call'[r].child \in Children \cup {None}
    BY DEF McpInv, McpTypes, Requests
  <2> QED BY <2>1, <2>2, <2>3 DEF Starts, NoTool, Tools, Stages, Commands, Codes
<1>2. ASSUME NEW r \in Requests, ~Sends(r) PROVE tool'[r] = tool[r]
  BY <1>2 DEF ToolsStart
<1>3. ASSUME NEW r \in Requests PROVE tool'[r] \in Tools
  BY <1>1, <1>2 DEF Starts, ConsoleInv, TmuxTypes, ToolTypes
<1>4. tool' = [r \in Requests |-> tool'[r]]
  BY DEF ToolsStart
<1> QED BY <1>1, <1>2, <1>3, <1>4

\* Steps that do not reach tmux keep what is said of it.
LEMMA NothingWritten ==
  ASSUME ConsoleInv, UNCHANGED <<late, buffers, screen>>,
         kind' \in [Requests -> {None, "send", "type", "control", "attach"}],
         \A r \in Requests : kind[r] # None => kind'[r] = kind[r],
         tool' \in [Requests -> Tools],
         \A r \in Requests : tool'[r] = tool[r] \/ Starts(r),
         answer' \in [Requests -> {None, "delivered", "ambiguous", "rejected"}],
         \A r \in Requests : answer'[r] = "delivered" => answer[r] = "delivered",
         \A r \in Requests : Begun(r)'
  PROVE  TmuxTypes' /\ Soundly'
<1>1. TmuxTypes'
  BY DEF ConsoleInv, TmuxTypes, ToolTypes
<1>2. \A r \in Requests : Occurs(r, "text")' = Occurs(r, "text") /\ Occurs(r, "key")' = Occurs(r, "key")
  BY DEF Occurs
<1>3. ASSUME NEW r \in Requests PROVE kind'[r] = kind[r] \/ (kind[r] = None /\ tool[r] = NoTool)
  BY DEF ConsoleInv, Soundly, Begun
<1>4. Distinct'
  BY DEF ConsoleInv, Soundly, Distinct
<1>5. Ordered'
  <2> SUFFICES ASSUME NEW r \in Requests, NEW i \in DOMAIN screen, screen[i] = <<r, "key">>, kind'[r] = "send"
               PROVE  \E j \in 1..(i - 1) : screen[j] = <<r, "text">>
    BY DEF Ordered
  <2>1. Occurs(r, "key") /\ Staged(r)
    BY DEF ConsoleInv, Soundly, Occurs
  <2>2. tool[r] # NoTool
    BY <2>1 DEF Staged, NoTool
  <2>3. kind[r] = "send"
    BY <1>3, <2>2
  <2> QED BY <2>3 DEF ConsoleInv, Soundly, Ordered
<1>6. ASSUME NEW r \in Requests PROVE Staged(r)' /\ Reported(r)' /\ BufferKept(r)'
  <2>1. Staged(r) /\ Reported(r) /\ BufferKept(r) /\ Begun(r)
    BY DEF ConsoleInv, Soundly
  <2>2. CASE kind'[r] = kind[r] /\ tool'[r] = tool[r]
    BY <1>2, <2>1, <2>2 DEF Staged, Reported, Complete, BufferKept, Holds
  <2>3. CASE kind'[r] = kind[r] /\ Starts(r)
    BY <1>2, <2>1, <2>3 DEF Starts, NoTool, Staged, Reported, Complete, BufferKept, Holds
  <2>4. CASE kind[r] = None /\ tool[r] = NoTool
    <3>1. answer[r] # "delivered"
      BY <2>1, <2>4, NoneOfThese DEF Begun
    <3> QED BY <1>2, <2>1, <2>4, <3>1 DEF Starts, NoTool, Staged, Reported, BufferKept, Holds
  <2> QED BY <1>3, <2>2, <2>3, <2>4
<1> QED BY <1>1, <1>4, <1>5, <1>6 DEF Soundly

\* A request arrives and calls the client.
LEMMA ArriveSound ==
  ASSUME ConsoleInv, McpInv', NEW r \in Requests, NEW k \in Kinds, Arrive(r, k)
  PROVE  TmuxTypes' /\ Soundly'
<1>1. k \in {"send", "type", "control", "attach"} /\ kind[r] = None /\ k # None
  BY KindsAssumption, NoneOfThese DEF Arrive
<1>2. /\ kind' = [kind EXCEPT ![r] = k] /\ UNCHANGED <<late, buffers, screen>>
      /\ kind' \in [Requests -> {None, "send", "type", "control", "attach"}]
      /\ \A q \in Requests : kind[q] # None => kind'[q] = kind[q]
  BY <1>1 DEF Arrive, ConsoleInv, TmuxTypes
<1>3. CASE McpCall(r) /\ Follows
  <2>1. \A c \in Calls :
          /\ c # r => call'[c] = call[c]
          /\ call[r].at = "idle" /\ call'[r].at # "idle" /\ (Ends(r) => call'[r].outcome = UNAVAILABLE)
    BY <1>3, McpCallOnly DEF ConsoleInv, Requests
  <2>2. \A c \in Calls : Sends(c) => call[c].at \in {"idle", "connecting"}
    BY <2>1 DEF Sends
  <2>3. tool' \in [Requests -> Tools] /\ \A q \in Requests : (~Sends(q) /\ tool'[q] = tool[q]) \/ Starts(q)
    BY <1>3, <2>2, Starting DEF Follows
  <2>4. /\ answer' \in [Requests -> {None, "delivered", "ambiguous", "rejected"}]
        /\ \A q \in Requests : /\ ~Ends(q) => answer'[q] = answer[q]
                               /\ answer'[q] = "delivered" => answer[q] = "delivered" \/ (call'[q].outcome = "ok" /\ Ends(q))
    BY <1>3, Answering DEF Follows, ConsoleInv
  <2>5. \A q \in Requests : answer'[q] = "delivered" => answer[q] = "delivered"
    BY <2>1, <2>4 DEF Ends, UNAVAILABLE, Requests
  <2>6. ASSUME NEW q \in Requests PROVE Begun(q)'
    <3>1. CASE q = r
      <4>1. kind'[r] # None /\ call[r].at = "idle" /\ tool[r] = NoTool
        BY <1>1, <1>2, <2>1 DEF ConsoleInv, TmuxTypes, Soundly, Begun, Requests
      <4>2. call'[r].at = "connecting" => tool'[r] = NoTool
        BY <2>3, <4>1, <1>3 DEF ToolsStart, Follows, Sends
      <4> QED BY <2>1, <3>1, <4>1, <4>2 DEF Begun, Requests
    <3>2. CASE q # r
      <4>1. call'[q] = call[q] /\ ~Ends(q) /\ ~Sends(q) /\ kind'[q] = kind[q]
        BY <1>2, <2>1, <3>2 DEF Ends, Sends, Requests, ConsoleInv, TmuxTypes
      <4>2. tool'[q] = tool[q] /\ answer'[q] = answer[q]
        BY <1>3, <2>4, <4>1 DEF Follows, ToolsStart
      <4> QED BY <4>1, <4>2 DEF ConsoleInv, Soundly, Begun
    <3> QED BY <3>1, <3>2
  <2>7. \A q \in Requests : tool'[q] = tool[q] \/ Starts(q)
    BY <2>3
  <2> QED BY <1>2, <2>3, <2>4, <2>5, <2>6, <2>7, NothingWritten
<1>4. CASE BodyRefused(r, k)
  <2>1. answer' = [answer EXCEPT ![r] = "rejected"] /\ tool' = tool /\ call' = call
    BY <1>4 DEF BodyRefused, mcpVars
  <2>2. /\ answer' \in [Requests -> {None, "delivered", "ambiguous", "rejected"}]
        /\ \A q \in Requests : answer'[q] = "delivered" => answer[q] = "delivered"
    BY <2>1 DEF ConsoleInv, TmuxTypes
  <2>3. ASSUME NEW q \in Requests PROVE Begun(q)'
    <3>1. kind'[q] = None => q # r /\ kind[q] = None
      BY <1>1, <1>2 DEF ConsoleInv, TmuxTypes
    <3> QED BY <2>1, <3>1 DEF ConsoleInv, TmuxTypes, Soundly, Begun
  <2> QED BY <1>2, <2>1, <2>2, <2>3, NothingWritten DEF ConsoleInv, TmuxTypes, ToolTypes
<1> QED BY <1>3, <1>4 DEF Arrive

\* The connection succeeds, fails, is tried again or cools down.
LEMMA ConnectionGoesOn ==
  ASSUME ConsoleInv, McpInv', Connection
  PROVE  TmuxTypes' /\ Soundly'
<1>1. McpGoesOn /\ Follows /\ UNCHANGED <<kind, late, buffers, screen>>
  BY DEF Connection, McpGoesOn, Requests
<1>2. \A c \in Calls :
        /\ call'[c].at \in {"idle", "connecting"} => call'[c] = call[c]
        /\ call[c].at = "idle" => call'[c] = call[c]
        /\ Sends(c) => call[c].at = "connecting"
        /\ Ends(c) => call'[c].outcome \in {UNAVAILABLE, TIMEOUT}
  BY <1>1, GoesOn DEF ConsoleInv
<1>3. tool' \in [Requests -> Tools] /\ \A q \in Requests : (~Sends(q) /\ tool'[q] = tool[q]) \/ Starts(q)
  BY <1>1, <1>2, Starting DEF Follows
<1>4. /\ answer' \in [Requests -> {None, "delivered", "ambiguous", "rejected"}]
      /\ \A q \in Requests : /\ ~Ends(q) => answer'[q] = answer[q]
                             /\ answer'[q] = "delivered" => answer[q] = "delivered" \/ (call'[q].outcome = "ok" /\ Ends(q))
  BY <1>1, Answering DEF Follows, ConsoleInv
<1>5. \A q \in Requests : answer'[q] = "delivered" => answer[q] = "delivered"
  BY <1>2, <1>4 DEF UNAVAILABLE, TIMEOUT, Requests
<1>6. ASSUME NEW q \in Requests PROVE Begun(q)'
  <2>1. Begun(q) /\ q \in Calls
    BY DEF ConsoleInv, Soundly, Requests
  <2>2. call'[q].at \in {"idle", "connecting"} => tool'[q] = NoTool
    BY <1>1, <1>2, <2>1 DEF Follows, ToolsStart, Sends, Begun
  <2>3. kind[q] = None => call'[q].at = "idle" /\ answer'[q] = None
    BY <1>2, <1>4, <2>1 DEF Begun, Ends
  <2> QED BY <1>1, <2>2, <2>3 DEF Begun
<1>7. \A q \in Requests : tool'[q] = tool[q] \/ Starts(q)
  BY <1>3
<1> QED BY <1>1, <1>3, <1>4, <1>5, <1>6, <1>7, NothingWritten DEF ConsoleInv, TmuxTypes

\* Nothing that matters here changes.
LEMMA OthersSound ==
  ASSUME ConsoleInv, UNCHANGED <<kind, answer, tool, late, buffers, screen>>,
         \A c \in Calls : call'[c] = call[c]
  PROVE  TmuxTypes' /\ Soundly'
<1>1. ASSUME NEW q \in Requests PROVE Begun(q)'
  BY DEF ConsoleInv, Soundly, Begun, Requests
<1> QED BY <1>1, NothingWritten DEF ConsoleInv, TmuxTypes, ToolTypes

\* The server answers, perhaps to a call that nobody awaits any more.
LEMMA ReplySound ==
  ASSUME ConsoleInv, NEW r \in Requests, Reply(r)
  PROVE  TmuxTypes' /\ Soundly'
<1> DEFINE t == [NoTool EXCEPT !.at = "done", !.stray = tool[r].stray]
<1>1. /\ t \in Tools /\ t.at = "done" /\ t.stray = tool[r].stray
      /\ tool' = [tool EXCEPT ![r] = t] /\ tool[r].at = "reply"
  BY DEF Reply, ConsoleInv, TmuxTypes, ToolTypes, Tools, NoTool, Stages, Codes
<1> HIDE DEF t
<1>2. /\ UNCHANGED <<kind, late, buffers, screen>>
      /\ \A q \in Requests : Occurs(q, "text")' = Occurs(q, "text") /\ Occurs(q, "key")' = Occurs(q, "key")
  BY DEF Reply, Occurs
<1>3. call[r].at \notin {"idle", "connecting"} /\ kind[r] # None
  BY <1>1 DEF ConsoleInv, Soundly, Begun, NoTool
<1>4. /\ answer' \in [Requests -> {None, "delivered", "ambiguous", "rejected"}]
      /\ \A q \in Requests : answer'[q] = "delivered" =>
           answer[q] = "delivered" \/ (q = r /\ tool[r].code = "ok" /\ kind[r] # "attach")
      /\ \A q \in Requests : q # r => answer'[q] = answer[q] /\ call'[q] = call[q]
      /\ call'[r].at \notin {"idle", "connecting"}
  <2>1. CASE UNCHANGED <<mcpVars, answer, attachVars>>
    BY <1>3, <2>1 DEF ConsoleInv, TmuxTypes, mcpVars
  <2>2. CASE Respond(r, tool[r].code) /\ Answered
    <3>1. call' = [call EXCEPT ![r] = Over(tool[r].code)] /\ r \in Calls
      BY <2>2 DEF Respond, Requests
    <3>2. /\ call'[r] = Over(tool[r].code)
          /\ \A q \in Requests : q # r => call'[q] = call[q]
      BY <3>1 DEF ConsoleInv, McpInv, McpTypes, Requests
    <3>3. \A q \in Requests : q # r => ~Ends(q)
      BY <3>2 DEF Ends
    <3>4. call'[r].outcome = tool[r].code /\ call'[r].at = "over"
      BY <3>2 DEF Over
    <3> QED BY <1>2, <2>2, <3>2, <3>3, <3>4, Answering DEF ConsoleInv
  <2> QED BY <2>1, <2>2 DEF Reply
<1>5. TmuxTypes'
  BY <1>1, <1>2, <1>4 DEF ConsoleInv, TmuxTypes, ToolTypes
<1>6. Distinct' /\ Ordered'
  BY <1>2 DEF ConsoleInv, Soundly, Distinct, Ordered
<1>7. ASSUME NEW q \in Requests PROVE Staged(q)' /\ Reported(q)' /\ BufferKept(q)' /\ Begun(q)'
  <2>1. Staged(q) /\ Reported(q) /\ BufferKept(q) /\ Begun(q)
    BY DEF ConsoleInv, Soundly
  <2>2. CASE q # r
    <3>1. tool'[q] = tool[q] /\ answer'[q] = answer[q] /\ call'[q] = call[q]
      BY <1>1, <1>4, <2>2 DEF ConsoleInv, TmuxTypes, ToolTypes
    <3> QED BY <1>2, <2>1, <3>1 DEF Staged, Reported, Complete, BufferKept, Holds, Begun
  <2>3. CASE q = r
    <3>1. tool'[r] = t
      BY <1>1 DEF ConsoleInv, TmuxTypes, ToolTypes
    <3>2. Staged(r)' /\ BufferKept(r)' /\ Begun(r)'
      BY <1>1, <1>2, <1>3, <1>4, <2>1, <2>3, <3>1 DEF Staged, BufferKept, Holds, Begun
    <3>3. kind[r] \in Composed \cup {"attach"}
      BY <1>3 DEF ConsoleInv, TmuxTypes, Composed
    <3>4. Reported(r)'
      BY <1>1, <1>2, <1>4, <2>1, <2>3, <3>1, <3>3 DEF Reported, Complete
    <3> QED BY <2>3, <3>2, <3>4
  <2> QED BY <2>2, <2>3
<1> QED BY <1>5, <1>6, <1>7 DEF Soundly

\* The server exits in the middle of its tools.
LEMMA ServerExitsSound ==
  ASSUME ConsoleInv, NEW k \in Children, ServerExits(k)
  PROVE  TmuxTypes' /\ Soundly'
<1> DEFINE gone == {r \in Requests : tool[r].child = k /\ tool[r].at \notin {"none", "done", "dead"}}
           new == {Asks(r) : r \in {q \in gone : InTmux(q) /\ tool[q].at # "list"}}
           t == [NoTool EXCEPT !.at = "dead"]
<1>1. t \in Tools /\ t.at = "dead"
  BY DEF NoTool, Tools, Stages, Codes
<1>2. /\ tool' = [r \in Requests |-> IF r \in gone THEN t ELSE tool[r]]
      /\ late' = late \cup new
      /\ UNCHANGED <<kind, buffers, screen>> /\ McpGoesOn
      /\ answer' = answer \/ Answered
  BY DEF ServerExits, McpGoesOn
<1>3. /\ new \in SUBSET (Commands \X Requests)
      /\ \A x \in Commands, q \in Requests : <<x, q>> \in new =>
           q \in gone /\ tool[q].at = x /\ x \in {"load", "paste", "key", "cleanup"}
  BY DEF Asks, InTmux, Commands
<1>4. \A r \in gone : tool[r].at \notin {"none", "done", "dead"} /\ r \in Requests
  OBVIOUS
<1> HIDE DEF gone, new, t
<1>5. \A c \in Calls :
        /\ call'[c].at \in {"idle", "connecting"} => call'[c] = call[c]
        /\ call[c].at = "idle" => call'[c] = call[c]
        /\ Ends(c) => call'[c].outcome \in {UNAVAILABLE, TIMEOUT}
  BY <1>2, GoesOn DEF ConsoleInv
<1>6. /\ answer' \in [Requests -> {None, "delivered", "ambiguous", "rejected"}]
      /\ \A q \in Requests : /\ answer'[q] = "delivered" => answer[q] = "delivered"
                             /\ ~Ends(q) => answer'[q] = answer[q]
  BY <1>2, <1>5, Answering DEF ConsoleInv, TmuxTypes, UNAVAILABLE, TIMEOUT, Requests
<1>7. TmuxTypes'
  <2>1. tool' \in [Requests -> Tools]
    BY <1>1, <1>2 DEF ConsoleInv, TmuxTypes, ToolTypes
  <2>2. late' \in SUBSET (Commands \X Requests)
    BY <1>2, <1>3 DEF ConsoleInv, TmuxTypes
  <2> QED BY <1>2, <1>6, <2>1, <2>2 DEF ConsoleInv, TmuxTypes, ToolTypes
<1>8. /\ Distinct' /\ Ordered'
      /\ \A q \in Requests : Occurs(q, "text")' = Occurs(q, "text") /\ Occurs(q, "key")' = Occurs(q, "key")
  BY <1>2 DEF ConsoleInv, Soundly, Distinct, Ordered, Occurs
<1>9. ASSUME NEW q \in Requests PROVE Staged(q)' /\ Reported(q)' /\ BufferKept(q)' /\ Begun(q)'
  <2>1. Staged(q) /\ Reported(q) /\ BufferKept(q) /\ Begun(q) /\ q \in Calls
    BY DEF ConsoleInv, Soundly, Requests
  <2>2. Begun(q)'
    <3>1. call'[q].at \in {"idle", "connecting"} => tool[q] = NoTool
      BY <1>5, <2>1 DEF Begun
    <3>2. call'[q].at \in {"idle", "connecting"} => tool'[q] = NoTool
      BY <1>2, <1>4, <3>1 DEF NoTool
    <3>3. kind[q] = None => call'[q].at = "idle" /\ ~Ends(q)
      BY <1>5, <2>1 DEF Begun, Ends
    <3> QED BY <1>2, <1>6, <2>1, <3>2, <3>3 DEF Begun
  <2>3. CASE q \in gone
    <3>1. tool'[q] = t
      BY <1>2, <2>3
    <3>2. /\ <<"load", q>> \in late' => tool'[q].at = "dead"
          /\ <<"paste", q>> \in late' => <<"paste", q>> \in late \/ tool[q].at = "paste"
          /\ <<"key", q>> \in late' => <<"key", q>> \in late \/ tool[q].at = "key"
      BY <1>1, <1>2, <1>3, <3>1 DEF Commands
    <3>3. Staged(q)'
      BY <1>1, <1>2, <1>8, <2>1, <3>1, <3>2 DEF Staged
    <3>4. Reported(q)' /\ BufferKept(q)'
      BY <1>1, <1>2, <1>6, <1>8, <2>1, <3>1, <3>2 DEF Reported, Complete, BufferKept
    <3> QED BY <2>2, <3>3, <3>4
  <2>4. CASE q \notin gone
    <3>1. tool'[q] = tool[q] /\ \A x \in Commands : <<x, q>> \in late' => <<x, q>> \in late
      BY <1>2, <1>3, <2>4
    <3>2. Staged(q)'
      BY <1>2, <1>8, <2>1, <3>1 DEF Staged, Commands
    <3>3. Reported(q)' /\ BufferKept(q)'
      BY <1>2, <1>6, <1>8, <2>1, <3>1 DEF Reported, Complete, BufferKept, Holds, Commands
    <3> QED BY <2>2, <3>2, <3>3
  <2> QED BY <2>3, <2>4
<1> QED BY <1>7, <1>8, <1>9 DEF Soundly

-----------------------------------------------------------------------------
(* Steps of tmux.                                                          *)

\* What one command does is nothing to other requests.
LEMMA OtherKept ==
  ASSUME ConsoleInv, NEW q \in Requests, UNCHANGED <<kind, answer, call>>, tool'[q] = tool[q],
         Occurs(q, "text")' <=> Occurs(q, "text"), Occurs(q, "key")' <=> Occurs(q, "key"),
         Holds(q)' => Holds(q), \A x \in Commands : <<x, q>> \in late' => <<x, q>> \in late
  PROVE  Staged(q)' /\ Reported(q)' /\ BufferKept(q)' /\ Begun(q)'
<1>1. Staged(q) /\ Reported(q) /\ BufferKept(q) /\ Begun(q)
  BY DEF ConsoleInv, Soundly
<1>2. Staged(q)'
  BY <1>1 DEF Staged, Commands
<1>3. Reported(q)' /\ BufferKept(q)' /\ Begun(q)'
  BY <1>1 DEF Reported, Complete, BufferKept, Begun, Commands
<1> QED BY <1>2, <1>3

\* What a command of r writes, if it is not one that has been written.
LEMMA CommandWrites ==
  ASSUME ConsoleInv, NEW r \in Requests, NEW x \in Commands, Can(<<x, r>>), Do(<<x, r>>), kind' = kind,
         x = "paste" => ~Occurs(r, "text"),
         x = "key" => ~Occurs(r, "key") /\ (kind[r] = "send" => Occurs(r, "text"))
  PROVE  /\ DOMAIN buffers' \in SUBSET Requests /\ \A n \in DOMAIN buffers' : buffers'[n] = n
         /\ screen' \in Seq(Requests \X {"text", "key"})
         /\ Distinct' /\ Ordered'
         /\ \A q \in Requests :
              /\ Occurs(q, "text")' <=> Occurs(q, "text") \/ (q = r /\ x = "paste")
              /\ Occurs(q, "key")' <=> Occurs(q, "key") \/ (q = r /\ x = "key")
              /\ Holds(q)' => Holds(q) \/ (q = r /\ x = "load")
         /\ x \in {"paste", "cleanup"} => ~Holds(r)'
<1>1. /\ DOMAIN buffers' \in SUBSET Requests /\ \A n \in DOMAIN buffers' : buffers'[n] = n
      /\ \A n \in Requests : Holds(n)' => Holds(n) \/ (n = r /\ x = "load")
      /\ x \in {"paste", "cleanup"} => ~Holds(r)'
      /\ screen' = CASE x = "paste" -> Append(screen, <<r, "text">>)
                     [] x = "key" -> Append(screen, <<r, "key">>)
                     [] OTHER -> screen
  BY CommandTypes DEF ConsoleInv
<1>2. CASE x = "paste"
  <2>1. screen' = Append(screen, <<r, "text">>)
    BY <1>1, <1>2
  <2>2. /\ Distinct' /\ Ordered' /\ screen' \in Seq(Requests \X {"text", "key"})
        /\ \A q \in Requests, v \in {"text", "key"} : Occurs(q, v)' <=> Occurs(q, v) \/ <<q, v>> = <<r, "text">>
    BY <1>2, <2>1, Writes, WritesOnce DEF ConsoleInv
  <2> QED BY <1>1, <1>2, <2>2
<1>3. CASE x = "key"
  <2>1. screen' = Append(screen, <<r, "key">>)
    BY <1>1, <1>3
  <2>2. /\ Distinct' /\ Ordered' /\ screen' \in Seq(Requests \X {"text", "key"})
        /\ \A q \in Requests, v \in {"text", "key"} : Occurs(q, v)' <=> Occurs(q, v) \/ <<q, v>> = <<r, "key">>
    BY <1>3, <2>1, Writes, WritesOnce DEF ConsoleInv
  <2> QED BY <1>1, <1>3, <2>2
<1>4. CASE x \notin {"paste", "key"}
  <2>1. screen' = screen
    BY <1>1, <1>4
  <2>2. Distinct' /\ Ordered' /\ screen' \in Seq(Requests \X {"text", "key"})
    BY <2>1 DEF ConsoleInv, TmuxTypes, Soundly, Distinct, Ordered
  <2>3. \A q \in Requests : Occurs(q, "text")' = Occurs(q, "text") /\ Occurs(q, "key")' = Occurs(q, "key")
    BY <2>1 DEF Occurs
  <2> QED BY <1>1, <1>4, <2>2, <2>3
<1> QED BY <1>2, <1>3, <1>4

\* A command of tmux succeeds, and its tool goes on to the next.
LEMMA TmuxSucceedsSound ==
  ASSUME ConsoleInv, NEW r \in Requests, TmuxSucceeds(r)
  PROVE  TmuxTypes' /\ Soundly'
<1> DEFINE x == tool[r].at
<1>1. /\ x \in Commands /\ Can(<<x, r>>) /\ Do(<<x, r>>)
      /\ UNCHANGED <<kind, answer, late, call>>
      /\ tool' = [tool EXCEPT ![r].at = After(kind[r], x)]
  BY DEF TmuxSucceeds, InTmux, Asks, Commands, httpVars, mcpVars
<1>2. Staged(r) /\ Reported(r) /\ BufferKept(r) /\ Begun(r)
  BY DEF ConsoleInv, Soundly
<1>3. /\ DOMAIN buffers' \in SUBSET Requests /\ \A n \in DOMAIN buffers' : buffers'[n] = n
      /\ screen' \in Seq(Requests \X {"text", "key"})
      /\ Distinct' /\ Ordered'
      /\ \A q \in Requests :
           /\ Occurs(q, "text")' <=> Occurs(q, "text") \/ (q = r /\ x = "paste")
           /\ Occurs(q, "key")' <=> Occurs(q, "key") \/ (q = r /\ x = "key")
           /\ Holds(q)' => Holds(q) \/ (q = r /\ x = "load")
      /\ x \in {"paste", "cleanup"} => ~Holds(r)'
  <2>1. /\ x = "paste" => ~Occurs(r, "text")
        /\ x = "key" => ~Occurs(r, "key") /\ (kind[r] = "send" => Occurs(r, "text"))
    BY <1>2 DEF Staged
  <2> QED BY <1>1, <2>1, CommandWrites
<1>4. After(kind[r], x) \in Stages
  BY DEF After, Stages, Commands
<1>5. /\ tool' \in [Requests -> Tools] /\ tool'[r].at = After(kind[r], x)
      /\ tool'[r].code = tool[r].code /\ tool'[r].stray = tool[r].stray
      /\ \A q \in Requests : q # r => tool'[q] = tool[q]
  BY <1>1, <1>4 DEF ConsoleInv, TmuxTypes, ToolTypes, Tools
<1>6. TmuxTypes'
  BY <1>1, <1>3, <1>5 DEF ConsoleInv, TmuxTypes, ToolTypes
<1>7. Begun(r)'
  BY <1>1, <1>2 DEF Begun, NoTool, Commands
<1>8. kind[r] \in Composed \cup {"attach"}
  <2>1. kind[r] # None
    BY <1>1, <1>2 DEF Begun, NoTool, Commands
  <2> QED BY <2>1 DEF ConsoleInv, TmuxTypes, Composed
<1> HIDE DEF x
<1>9. Staged(r)' /\ Reported(r)' /\ BufferKept(r)'
  <2>1. CASE x = "list"
    BY <1>1, <1>2, <1>3, <1>5, <1>8, <2>1 DEF x, After, Texts, Composed, Staged, Reported, Complete, BufferKept
  <2>2. CASE x = "load"
    BY <1>1, <1>2, <1>3, <1>5, <1>8, <2>2 DEF x, After, Texts, Composed, Staged, Reported, Complete, BufferKept
  <2>3. CASE x = "paste"
    BY <1>1, <1>2, <1>3, <1>5, <1>8, <2>3 DEF x, After, Texts, Composed, Staged, Reported, Complete, BufferKept
  <2>4. CASE x = "key"
    BY <1>1, <1>2, <1>3, <1>5, <1>8, <2>4 DEF x, After, Texts, Composed, Staged, Reported, Complete, BufferKept
  <2>5. CASE x = "cleanup"
    BY <1>1, <1>2, <1>3, <1>5, <1>8, <2>5 DEF x, After, Texts, Composed, Staged, Reported, Complete, BufferKept
  <2> QED BY <1>1, <2>1, <2>2, <2>3, <2>4, <2>5 DEF Commands
<1>10. ASSUME NEW q \in Requests, q # r PROVE Staged(q)' /\ Reported(q)' /\ BufferKept(q)' /\ Begun(q)'
  <2>1. /\ Occurs(q, "text")' <=> Occurs(q, "text")
        /\ Occurs(q, "key")' <=> Occurs(q, "key")
        /\ Holds(q)' => Holds(q)
    BY <1>3, <1>10
  <2> QED BY <1>1, <1>5, <1>10, <2>1, OtherKept
<1> QED BY <1>3, <1>6, <1>7, <1>9, <1>10 DEF Soundly

\* A command that fails, or takes too long: the code is the new one, or that of
\* the tool if it is the clean-up that fails.
LEMMA FailureSound ==
  ASSUME ConsoleInv, NEW r \in Requests, NEW code \in {"FAILED", TIMEOUT}, InTmux(r),
         tool' = [tool EXCEPT ![r] = Failed(r, code)],
         late' = IF code = "FAILED" \/ tool[r].at = "list" THEN late ELSE late \cup {Asks(r)},
         UNCHANGED <<kind, answer, call, buffers, screen>>
  PROVE  TmuxTypes' /\ Soundly'
<1> DEFINE x == tool[r].at
<1>1. x \in Commands /\ Asks(r) = <<x, r>> /\ tool[r] \in Tools
  BY DEF InTmux, Commands, Asks, ConsoleInv, TmuxTypes, ToolTypes
<1>2. Staged(r) /\ Reported(r) /\ BufferKept(r) /\ Begun(r)
  BY DEF ConsoleInv, Soundly
<1>3. /\ Failed(r, code) \in Tools
      /\ Failed(r, code).at = IF x \in {"load", "paste"} THEN "cleanup" ELSE "reply"
      /\ Failed(r, code).code = IF x = "cleanup" THEN tool[r].code ELSE code
      /\ Failed(r, code).stray = (tool[r].stray \/ x = "cleanup" \/ (x = "load" /\ code = TIMEOUT))
  BY <1>1 DEF Failed, AfterFailure, Tools, Stages, Commands, Codes
<1>4. /\ tool' \in [Requests -> Tools] /\ tool'[r] = Failed(r, code)
      /\ \A q \in Requests : q # r => tool'[q] = tool[q]
  BY <1>3 DEF ConsoleInv, TmuxTypes, ToolTypes
<1>5. \A y \in Commands, q \in Requests : <<y, q>> \in late' =>
        <<y, q>> \in late \/ (q = r /\ y = x /\ x # "list" /\ code = TIMEOUT)
  BY <1>1 DEF TIMEOUT
<1>6. TmuxTypes'
  BY <1>1, <1>4 DEF ConsoleInv, TmuxTypes, ToolTypes
<1>7. /\ Distinct' /\ Ordered'
      /\ \A q \in Requests : (Occurs(q, "text")' <=> Occurs(q, "text")) /\ (Occurs(q, "key")' <=> Occurs(q, "key"))
      /\ \A q \in Requests : Holds(q)' <=> Holds(q)
  BY DEF ConsoleInv, Soundly, Distinct, Ordered, Occurs, Holds
<1>8. Begun(r)'
  BY <1>1, <1>2 DEF Begun, NoTool, Commands
<1> HIDE DEF x
<1>9. Staged(r)'
  BY <1>1, <1>2, <1>3, <1>4, <1>5, <1>7 DEF x, Staged, Commands
<1>10. Reported(r)'
  BY <1>1, <1>2, <1>3, <1>4, <1>7 DEF x, Reported, Complete, Commands, TIMEOUT
<1>11. BufferKept(r)'
  BY <1>1, <1>2, <1>3, <1>4, <1>5, <1>7 DEF x, BufferKept, Commands
<1>12. ASSUME NEW q \in Requests, q # r PROVE Staged(q)' /\ Reported(q)' /\ BufferKept(q)' /\ Begun(q)'
  <2>1. \A y \in Commands : <<y, q>> \in late' => <<y, q>> \in late
    BY <1>5, <1>12
  <2> QED BY <1>4, <1>7, <1>12, <2>1, OtherKept
<1> QED BY <1>6, <1>7, <1>8, <1>9, <1>10, <1>11, <1>12 DEF Soundly

\* A command of tmux fails, or times out and perhaps runs later.
LEMMA TmuxFailsSound ==
  ASSUME ConsoleInv, NEW r \in Requests, TmuxFails(r) \/ TmuxTimesOut(r)
  PROVE  TmuxTypes' /\ Soundly'
<1>1. CASE TmuxFails(r)
  BY <1>1, FailureSound DEF TmuxFails, httpVars, mcpVars
<1>2. CASE TmuxTimesOut(r)
  BY <1>2, FailureSound DEF TmuxTimesOut, httpVars, mcpVars, TIMEOUT
<1> QED BY <1>1, <1>2

\* A tool refuses its argument before it asks tmux for anything.
LEMMA ArgumentRefusedSound ==
  ASSUME ConsoleInv, NEW r \in Requests, ArgumentRefused(r)
  PROVE  TmuxTypes' /\ Soundly'
<1> DEFINE t == [tool[r] EXCEPT !.at = "reply", !.code = "FAILED"]
<1>1. /\ t \in Tools /\ t.at = "reply" /\ t.code = "FAILED" /\ t.stray = tool[r].stray
      /\ tool[r].at = "list"
  BY DEF ArgumentRefused, ConsoleInv, TmuxTypes, ToolTypes, Tools, Stages, Codes
<1>2. tool' = [tool EXCEPT ![r] = t] /\ UNCHANGED <<kind, answer, call, late, buffers, screen>>
  BY DEF ArgumentRefused, mcpVars, httpVars, ConsoleInv, TmuxTypes, ToolTypes
<1> HIDE DEF t
<1>3. tool' \in [Requests -> Tools] /\ tool'[r] = t /\ \A q \in Requests : q # r => tool'[q] = tool[q]
  BY <1>1, <1>2 DEF ConsoleInv, TmuxTypes, ToolTypes
<1>4. TmuxTypes'
  BY <1>2, <1>3 DEF ConsoleInv, TmuxTypes, ToolTypes
<1>5. /\ Distinct' /\ Ordered'
      /\ \A q \in Requests : (Occurs(q, "text")' <=> Occurs(q, "text")) /\ (Occurs(q, "key")' <=> Occurs(q, "key"))
      /\ \A q \in Requests : Holds(q)' <=> Holds(q)
  BY <1>2 DEF ConsoleInv, Soundly, Distinct, Ordered, Occurs, Holds
<1>6. Staged(r) /\ Reported(r) /\ BufferKept(r) /\ Begun(r)
  BY DEF ConsoleInv, Soundly
<1>7. Staged(r)' /\ Begun(r)'
  BY <1>1, <1>2, <1>3, <1>5, <1>6 DEF Staged, Begun, NoTool
<1>8. Reported(r)' /\ BufferKept(r)'
  BY <1>1, <1>2, <1>3, <1>5, <1>6 DEF Reported, Complete, BufferKept
<1>9. ASSUME NEW q \in Requests, q # r PROVE Staged(q)' /\ Reported(q)' /\ BufferKept(q)' /\ Begun(q)'
  BY <1>2, <1>3, <1>5, <1>9, OtherKept
<1> QED BY <1>4, <1>5, <1>7, <1>8, <1>9 DEF Soundly

\* A command runs after its client has been killed.
LEMMA LateCommandSound ==
  ASSUME ConsoleInv, NEW c \in late, LateCommand(c)
  PROVE  TmuxTypes' /\ Soundly'
<1>1. PICK x \in Commands, r \in Requests : c = <<x, r>>
  BY DEF ConsoleInv, TmuxTypes
<1>2. /\ UNCHANGED <<kind, answer, call, tool>>
      /\ late' = late \ {<<x, r>>} /\ <<x, r>> \in late
  BY <1>1 DEF LateCommand, mcpVars, httpVars
<1>3. ASSUME NEW q \in Requests PROVE Staged(q) /\ Reported(q) /\ BufferKept(q) /\ Begun(q)
  BY DEF ConsoleInv, Soundly
<1>4. CASE UNCHANGED <<buffers, screen>>
  <2>1. TmuxTypes'
    BY <1>2, <1>4 DEF ConsoleInv, TmuxTypes, ToolTypes
  <2>2. /\ Distinct' /\ Ordered'
        /\ \A q \in Requests : (Occurs(q, "text")' <=> Occurs(q, "text")) /\ (Occurs(q, "key")' <=> Occurs(q, "key"))
        /\ \A q \in Requests : Holds(q)' => Holds(q)
    BY <1>2, <1>4 DEF ConsoleInv, Soundly, Distinct, Ordered, Occurs, Holds
  <2>3. ASSUME NEW q \in Requests PROVE Staged(q)' /\ Reported(q)' /\ BufferKept(q)' /\ Begun(q)'
    BY <1>2, <2>2, <2>3, OtherKept
  <2> QED BY <2>1, <2>2, <2>3 DEF Soundly
<1>5. CASE Can(<<x, r>>) /\ Do(<<x, r>>)
  <2>1. /\ DOMAIN buffers' \in SUBSET Requests /\ \A n \in DOMAIN buffers' : buffers'[n] = n
        /\ screen' \in Seq(Requests \X {"text", "key"})
        /\ Distinct' /\ Ordered'
        /\ \A q \in Requests :
             /\ Occurs(q, "text")' <=> Occurs(q, "text") \/ (q = r /\ x = "paste")
             /\ Occurs(q, "key")' <=> Occurs(q, "key") \/ (q = r /\ x = "key")
             /\ Holds(q)' => Holds(q) \/ (q = r /\ x = "load")
    <3>1. /\ x = "paste" => ~Occurs(r, "text")
          /\ x = "key" => ~Occurs(r, "key") /\ (kind[r] = "send" => Occurs(r, "text"))
      BY <1>2, <1>3 DEF Staged
    <3> QED BY <1>2, <1>5, <3>1, CommandWrites
  <2>2. TmuxTypes'
    BY <1>2, <2>1 DEF ConsoleInv, TmuxTypes, ToolTypes
  <2>3. Staged(r)'
    BY <1>2, <1>3, <2>1 DEF Staged
  <2>4. Reported(r)' /\ Begun(r)'
    BY <1>2, <1>3, <2>1 DEF Reported, Complete, Begun
  <2>5. BufferKept(r)'
    BY <1>2, <1>3, <2>1 DEF BufferKept
  <2>6. ASSUME NEW q \in Requests, q # r PROVE Staged(q)' /\ Reported(q)' /\ BufferKept(q)' /\ Begun(q)'
    <3>1. /\ Occurs(q, "text")' <=> Occurs(q, "text")
          /\ Occurs(q, "key")' <=> Occurs(q, "key")
          /\ Holds(q)' => Holds(q)
      BY <2>1, <2>6
    <3> QED BY <1>2, <2>6, <3>1, OtherKept
  <2> QED BY <2>1, <2>2, <2>3, <2>4, <2>5, <2>6 DEF Soundly
<1> QED BY <1>1, <1>4, <1>5 DEF LateCommand

-----------------------------------------------------------------------------
\* The invariant of the whole, step by step.
THEOREM ConsoleInductive == ConsoleInv /\ [Next]_vars => ConsoleInv'
<1> SUFFICES ASSUME ConsoleInv, [Next]_vars PROVE ConsoleInv'
  OBVIOUS
<1>1. McpInv' /\ AttachInv'
  BY StepsOfBoth, McpInductive, AttachInductive DEF ConsoleInv, TmuxTypes
<1>2. TmuxTypes' /\ Soundly'
  <2>1. ASSUME NEW r \in Requests, Send(r) \/ OpenTerminal(r) PROVE TmuxTypes' /\ Soundly'
    <3>1. PICK k \in Kinds : Arrive(r, k)
      BY <2>1 DEF Send, OpenTerminal, Arrive
    <3> QED BY <1>1, <3>1, ArriveSound
  <2>2. ASSUME NEW r \in Requests, NEW w, Hear(r, w) PROVE TmuxTypes' /\ Soundly'
    BY <2>2, OthersSound DEF Hear, httpVars, tmuxVars, mcpVars
  <2>3. CASE Connection
    BY <1>1, <2>3, ConnectionGoesOn
  <2>4. ASSUME NEW k \in Children, ServerExits(k) PROVE TmuxTypes' /\ Soundly'
    BY <2>4, ServerExitsSound
  <2>5. ASSUME NEW r \in Requests, Reply(r) PROVE TmuxTypes' /\ Soundly'
    BY <2>5, ReplySound
  <2>6. ASSUME NEW r \in Requests, ArgumentRefused(r) \/ TmuxSucceeds(r) \/ TmuxFails(r) \/ TmuxTimesOut(r)
        PROVE  TmuxTypes' /\ Soundly'
    BY <2>6, ArgumentRefusedSound, TmuxSucceedsSound, TmuxFailsSound
  <2>7. ASSUME NEW r \in Requests, Terminal(r) PROVE TmuxTypes' /\ Soundly'
    BY <2>7, OthersSound DEF Terminal, httpVars, tmuxVars, mcpVars
  <2>8. ASSUME NEW c \in late, LateCommand(c) PROVE TmuxTypes' /\ Soundly'
    BY <2>8, LateCommandSound
  <2>9. CASE Exit
    BY <2>9, OthersSound DEF Exit, McpClose, httpVars, tmuxVars
  <2>10. CASE UNCHANGED vars
    BY <2>10, OthersSound DEF vars, httpVars, tmuxVars, mcpVars
  <2> QED BY <2>1, <2>2, <2>3, <2>4, <2>5, <2>6, <2>7, <2>8, <2>9, <2>10 DEF Next
<1> QED BY <1>1, <1>2 DEF ConsoleInv

LEMMA ConsoleAlways == Spec => []ConsoleInv
BY ConsoleInitial, ConsoleInductive, PTL DEF Spec

-----------------------------------------------------------------------------
(* What the composition promises.                                          *)

\* The Console with its server and tmux implements the MCP client and the
\* Terminal View as they are specified on their own: whatever it does with an
\* answer or with the end of its process is a step of theirs.
THEOREM ImplementsComponents == Spec => McpSpec /\ AttachSpec
<1>1. Init => McpInit /\ AttachInit
  BY DEF Init
<1>2. ConsoleInv /\ [Next]_vars => [McpNext]_mcpVars /\ [AttachNext]_attachVars
  BY StepsOfBoth DEF ConsoleInv, TmuxTypes
<1> QED BY <1>1, <1>2, ConsoleAlways, PTL DEF Spec, McpSpec, AttachSpec

\* ensureClient, onclose and close in the Console: one process at most, and
\* every reference to it is to one that lives.
THEOREM ConnectionOfConsole == Spec => []ConnectionSound
BY ImplementsComponents, ConnectionKept, PTL

\* The upgrade handler, whoever calls it and when: the slots are counted exactly.
THEOREM SlotsOfConsole == Spec => []SlotsExact
BY ImplementsComponents, SlotsKept, PTL

\* Places that are all different hold each write once at most.
LEMMA WrittenOnce ==
  ASSUME Distinct, NEW r \in Requests, NEW w \in {"text", "key"}
  PROVE  /\ Written(r, w) <= 1
         /\ Occurs(r, w) => Written(r, w) = 1
<1> DEFINE S == {i \in DOMAIN screen : screen[i] = <<r, w>>}
<1>1. CASE S = {}
  BY <1>1, FS_EmptySet DEF Written, Occurs
<1>2. CASE S # {}
  <2>1. PICK i \in DOMAIN screen : screen[i] = <<r, w>>
    BY <1>2
  <2>2. S = {i}
    BY <2>1 DEF Distinct
  <2>3. Cardinality({i}) = 1
    BY FS_Singleton
  <2> QED BY <2>2, <2>3 DEF Written
<1> QED BY <1>1, <1>2

\* writeText and sendControl: no request is written twice to the pane, no Enter
\* comes before its text, and what is answered "delivered" is there, whatever
\* times out, dies or comes late.
THEOREM DeliverySafe == Spec => []DeliveredIsThere
<1>1. ConsoleInv => DeliveredIsThere
  <2> SUFFICES ASSUME ConsoleInv, NEW r \in Requests
               PROVE  /\ Written(r, "text") <= 1 /\ Written(r, "key") <= 1
                      /\ \A i \in DOMAIN screen : screen[i] = <<r, "key">> /\ kind[r] = "send" =>
                           \E j \in 1..(i - 1) : screen[j] = <<r, "text">>
                      /\ answer[r] = "delivered" =>
                           /\ kind[r] \in Texts => Written(r, "text") = 1
                           /\ kind[r] \notin {"type"} => Written(r, "key") = 1
    BY DEF DeliveredIsThere
  <2>1. /\ Written(r, "text") <= 1 /\ (Occurs(r, "text") => Written(r, "text") = 1)
        /\ Written(r, "key") <= 1 /\ (Occurs(r, "key") => Written(r, "key") = 1)
    BY WrittenOnce DEF ConsoleInv, Soundly
  <2>2. Ordered /\ Reported(r)
    BY DEF ConsoleInv, Soundly
  <2> QED BY <2>1, <2>2 DEF Ordered, Reported, Complete, Composed
<1> QED BY <1>1, ConsoleAlways, PTL

\* The finally of writeText: the buffer is gone when the tool has finished,
\* unless the clean-up failed or the load outlived its client.
THEOREM BuffersCleared == Spec => []BuffersGone
<1>1. ConsoleInv => BuffersGone
  BY DEF ConsoleInv, Soundly, BufferKept, BuffersGone, BufferName
<1> QED BY <1>1, ConsoleAlways, PTL
=============================================================================
