----------------------------- MODULE HistoryHub -----------------------------
(***************************************************************************)
(* HistoryHub (console/src/observer.ts): the history the Console keeps of  *)
(* each Channel that somebody watches.  The first viewer of a Channel      *)
(* starts a loop that observes, reads the tail of the pane, and then waits *)
(* for events and reads again; when waiting is not possible a timer polls  *)
(* the tail instead.  The last viewer that leaves stops both, but not the  *)
(* call that is in flight, whose answer may come after viewers have come   *)
(* back.                                                                   *)
(*                                                                         *)
(* An action is one macrotask: a request of the browser, a timer, or the   *)
(* answer of an MCP call with everything that runs until the next await.   *)
(*                                                                         *)
(* The pane only grows; its text is the number of lines it holds, and a    *)
(* read returns what it held at some instant between call and answer.  On  *)
(* such texts diffTail yields the lines past those of the last read.  The  *)
(* ring is the sequence of what it shows, without its bounds; whether the  *)
(* current block is open or paused only changes how long a wait lasts.     *)
(***************************************************************************)
EXTENDS Naturals, Sequences, FiniteSets, SequencesExt

CONSTANTS
  Channels, Viewers,
  Polls,         \* identities of chains of poll ticks
  None,          \* no poll timer; the loop, among the readers
  MaxObserved,   \* maxObservedChannels
  MaxManagers,   \* maxManagers
  Codes,         \* classes of errors that MCP calls fail with
  MaxOutput,     \* bound of the model: lines of output, all panes together
  MaxSends       \* bound of the model: user turns and controls in the rings

ASSUME HubSets == IsFiniteSet(Channels) /\ IsFiniteSet(Viewers) /\ None \notin Polls
ASSUME HubLimits == {MaxObserved, MaxManagers} \subseteq Nat \ {0}
ASSUME HubCodes == Codes \subseteq {"reobserve", "polling", "fatal"}

VARIABLES
  channels,  \* the keys of this.channels, in the order of insertion
  hub,       \* the ChannelState records; a record that is not in the table may
             \* still be held by a tick in flight
  pane,      \* lines of output each pane has produced
  closed     \* close() has been called

vars == <<channels, hub, pane, closed>>

States == {"idle", "attaching", "live", "polling", "needs_reobserve", "closed", "error"}

\* A line of output, or a user turn or control with the number of lines that had
\* been read when it was recorded.
Entry == [kind : {"line", "user_turn", "control"}, n : Nat]

\* The loop: not active, or awaiting get_channel, its first read,
\* wait_channel_event, the read after output_idle, the read after a timeout
\* with activity.
LoopStates == {"off", "observing", "attaching", "waiting", "idle", "activity"}

\* A chain of ticks: no timer, a pending timer, awaiting a read.
PollStates == {"off", "armed", "reading"}

Hub ==
  [state : States, viewers : SUBSET Viewers, stopped : BOOLEAN,
   loop : LoopStates, cursor : Nat,
   pollTimer : Polls \cup {None}, poll : [Polls -> PollStates],
   asked : [Polls \cup {None} -> Nat],   \* what the pane held when a call was made
   lastRead : Nat, attachedOnce : BOOLEAN,
   shown : Seq(Entry),                   \* the ring
   block : Nat]                          \* where the current block ends in it, or 0

\* ensure() of a Channel that is not in the table.
FreshHub ==
  [state |-> "idle", viewers |-> {}, stopped |-> FALSE, loop |-> "off", cursor |-> 0,
   pollTimer |-> None, poll |-> [p \in Polls |-> "off"],
   asked |-> [p \in Polls \cup {None} |-> 0],
   lastRead |-> 0, attachedOnce |-> FALSE, shown |-> <<>>, block |-> 0]

Init ==
  /\ channels = <<>>
  /\ hub = [c \in Channels |-> FreshHub]
  /\ pane = [c \in Channels |-> 0]
  /\ closed = FALSE

Known == Range(channels)

\* Seeded fault of Watched: the loop goes on whoever is there.
WatchedAlways(h) == TRUE

Watched(h) == ~h.stopped /\ h.viewers # {}

-----------------------------------------------------------------------------
(* The table: ensure.                                                      *)

\* Seeded fault of Spare: a loop in flight does not protect its record.
SpareIgnoringLoop(h) == h.viewers = {}

Spare(h) == h.viewers = {} /\ h.loop = "off"

\* At capacity the oldest record that nobody watches and no loop uses goes.
MadeRoom ==
  LET spare == {i \in DOMAIN channels : Spare(hub[channels[i]])} IN
  IF Len(channels) < MaxManagers \/ spare = {} THEN channels
  ELSE RemoveAt(channels, CHOOSE i \in spare : \A j \in spare : i <= j)

\* Otherwise ensure throws.
CanEnsure(c) == c \in Known \/ Len(MadeRoom) < MaxManagers

Ensure(c) == channels' = IF c \in Known THEN channels ELSE Append(MadeRoom, c)
Ensured(c) == IF c \in Known THEN hub[c] ELSE FreshHub

-----------------------------------------------------------------------------
(* Reading: pull and the ring.                                             *)

Lines(from, to) == [i \in 1..(to - from) |-> [kind |-> "line", n |-> from + i]]

\* New output extends the current block, wherever that stands, or starts one.
Extended(h, new) ==
  LET at == IF h.block = 0 THEN Len(h.shown) ELSE h.block IN
  [h EXCEPT !.shown = SubSeq(@, 1, at) \o new \o SubSeq(@, at + 1, Len(@)),
            !.block = at + Len(new)]

\* pull: the first attach takes the whole tail as earlier output, every other
\* read the lines that the last one did not have.
Pull(h, mode, m) ==
  LET read == [h EXCEPT !.lastRead = m] IN
  CASE mode = "earlier" -> [read EXCEPT !.shown = @ \o Lines(0, m)]
    [] mode = "output" /\ m > h.lastRead -> Extended(read, Lines(h.lastRead, m))
    [] OTHER -> read

\* What a read that was made when the pane held `asked` may return.
Reads(c, reader) == hub[c].asked[reader]..pane[c]

-----------------------------------------------------------------------------
(* schedulePoll and handleLoopError.                                       *)

\* Seeded fault of Disarm: the field keeps the timer that was cleared.
DisarmKeepingHandle(h) ==
  IF h.pollTimer = None THEN h
  ELSE [h EXCEPT !.poll[h.pollTimer] = IF @ = "armed" THEN "off" ELSE @]

\* clearTimeout stops a pending timer; it cannot stop a read in flight.
Disarm(h) ==
  IF h.pollTimer = None THEN h
  ELSE [h EXCEPT !.pollTimer = None,
                 !.poll[h.pollTimer] = IF @ = "armed" THEN "off" ELSE @]

FreePoll(h) == \E p \in Polls : h.poll[p] = "off"

SchedulePoll(h) ==
  IF h.pollTimer # None \/ ~Watched(h) THEN h
  ELSE LET p == CHOOSE p \in Polls : h.poll[p] = "off" IN
       [h EXCEPT !.state = "polling", !.pollTimer = p, !.poll[p] = "armed"]

\* handleLoopError
Failing(h, code) ==
  CASE code = "reobserve" -> [Disarm(h) EXCEPT !.state = "needs_reobserve"]
    [] code = "polling"   -> SchedulePoll(Disarm(h))
    [] code = "fatal"     -> [Disarm(h) EXCEPT !.state = "error"]

-----------------------------------------------------------------------------
(* Viewers.                                                                *)

NotClosed == ~closed

\* Seeded fault of StartLoop: the viewers are not told.
StartLoopSilently(h, c) ==
  [h EXCEPT !.loop = "observing", !.stopped = FALSE, !.asked[None] = pane[c]]

StartLoop(h, c) ==
  [h EXCEPT !.state = "attaching", !.loop = "observing", !.stopped = FALSE,
            !.asked[None] = pane[c]]

\* Seeded fault of Joined: a loop that is still in flight is not re-armed.
JoinedWithoutRearming(h, c, v) ==
  LET j == [h EXCEPT !.viewers = @ \cup {v}] IN
  IF h.loop = "off" /\ h.pollTimer = None THEN StartLoop(j, c) ELSE j

Joined(h, c, v) ==
  LET j == [h EXCEPT !.viewers = @ \cup {v}, !.stopped = FALSE] IN
  IF h.loop = "off" /\ h.pollTimer = None THEN StartLoop(j, c) ELSE j

Observed == {c \in Channels : c \in Known /\ hub[c].viewers # {}}

\* addViewer: a Channel that is new to the observed ones is refused at the
\* limit, after its record has been made.
AddViewer(c, v) ==
  /\ NotClosed /\ v \notin hub[c].viewers /\ CanEnsure(c)
  /\ Ensure(c)
  /\ hub' = [hub EXCEPT ![c] =
       IF Ensured(c).viewers = {} /\ Cardinality(Observed) >= MaxObserved THEN Ensured(c)
       ELSE Joined(Ensured(c), c, v)]
  /\ UNCHANGED <<pane, closed>>

\* removeViewer
Left(h, v) ==
  LET l == [h EXCEPT !.viewers = @ \ {v}] IN
  IF l.viewers # {} THEN l
  ELSE [Disarm(l) EXCEPT !.stopped = TRUE,
          !.state = IF h.loop = "off" /\ h.state \in {"live", "polling", "attaching"}
                    THEN "idle" ELSE @]

RemoveViewer(c, v) ==
  /\ v \in hub[c].viewers
  /\ hub' = [hub EXCEPT ![c] = Left(@, v)]
  /\ UNCHANGED <<channels, pane, closed>>

\* Bound: MaxSends user turns and controls over all rings.
Sent == FoldFunctionOnSet(+, 0,
  [c \in Channels |-> Len(SelectSeq(hub[c].shown, LAMBDA e : e.kind # "line"))], Channels)

\* Seeded fault of Recorded: the block of the turn before goes on.
RecordedInBlock(h, kind) ==
  [h EXCEPT !.shown = Append(@, [kind |-> kind, n |-> h.lastRead])]

\* A user turn closes the current block, a control does not.
Recorded(h, kind) ==
  [h EXCEPT !.shown = Append(@, [kind |-> kind, n |-> h.lastRead]),
            !.block = IF kind = "user_turn" THEN 0 ELSE @]

\* recordConsoleEvent
RecordConsoleEvent(c, kind) ==
  /\ NotClosed /\ CanEnsure(c) /\ Sent < MaxSends
  /\ Ensure(c)
  /\ hub' = [hub EXCEPT ![c] = Recorded(Ensured(c), kind)]
  /\ UNCHANGED <<pane, closed>>

\* A snapshot only makes the record.
Snapshot(c) ==
  /\ NotClosed /\ CanEnsure(c) /\ c \notin Known
  /\ Ensure(c)
  /\ hub' = [hub EXCEPT ![c] = Ensured(c)]
  /\ UNCHANGED <<pane, closed>>

Close ==
  /\ NotClosed
  /\ closed' = TRUE
  /\ hub' = [c \in Channels |->
       IF c \in Known THEN [Disarm(hub[c]) EXCEPT !.stopped = TRUE, !.viewers = {}]
       ELSE hub[c]]
  /\ UNCHANGED <<channels, pane>>

-----------------------------------------------------------------------------
(* The loop.                                                               *)

\* The finally block; the cursor is never used again.
Ended(h) ==
  [h EXCEPT !.loop = "off", !.asked[None] = 0, !.cursor = 0,
            !.state = IF h.viewers = {} /\ h.state \in {"live", "attaching"} THEN "idle" ELSE @]

\* The while condition.
Continued(h) ==
  IF Watched(h) THEN [h EXCEPT !.loop = "waiting", !.asked[None] = 0] ELSE Ended(h)

\* An answer comes to the loop of c, which leaves the record h.
LoopGets(c, h) ==
  /\ hub' = [hub EXCEPT ![c] = h]
  /\ UNCHANGED <<channels, pane, closed>>

\* get_channel(observe) answers with a cursor; the first read is made.
Observes(c) ==
  /\ hub[c].loop = "observing"
  /\ \E n \in Reads(c, None) :
       LoopGets(c, [hub[c] EXCEPT !.cursor = n, !.loop = "attaching", !.asked[None] = pane[c]])

\* Seeded faults of FirstRead: every attach reads the whole tail; the cursor is
\* as new as the read.
FirstReadEarlier(c) ==
  /\ hub[c].loop = "attaching"
  /\ \E m \in Reads(c, None) :
       LoopGets(c, Continued([Pull(hub[c], "earlier", m) EXCEPT
                                !.attachedOnce = TRUE, !.state = "live"]))
FirstReadThenObserve(c) ==
  /\ hub[c].loop = "attaching"
  /\ \E m \in Reads(c, None) :
       LoopGets(c, Continued([Pull(hub[c], IF hub[c].attachedOnce THEN "output" ELSE "earlier", m)
                                EXCEPT !.attachedOnce = TRUE, !.state = "live",
                                       !.cursor = pane[c]]))

FirstRead(c) ==
  /\ hub[c].loop = "attaching"
  /\ \E m \in Reads(c, None) :
       LoopGets(c, Continued([Pull(hub[c], IF hub[c].attachedOnce THEN "output" ELSE "earlier", m)
                                EXCEPT !.attachedOnce = TRUE, !.state = "live"]))

\* wait_channel_event answers output_idle, with a cursor of the last event, or
\* timeout, which hands the cursor back and may tell of activity.  Nobody looks
\* at the answer when nobody watches.
WaitIdle(c) ==
  /\ hub[c].loop = "waiting"
  /\ \E n \in (hub[c].cursor + 1)..pane[c] :
       LoopGets(c, IF Watched(hub[c])
                   THEN [hub[c] EXCEPT !.cursor = n, !.loop = "idle", !.asked[None] = pane[c]]
                   ELSE Ended(hub[c]))
WaitActive(c) ==
  /\ hub[c].loop = "waiting" /\ pane[c] > hub[c].cursor
  /\ LoopGets(c, IF Watched(hub[c])
                 THEN [hub[c] EXCEPT !.loop = "activity", !.asked[None] = pane[c]]
                 ELSE Ended(hub[c]))
WaitTimeout(c) ==
  /\ hub[c].loop = "waiting"
  /\ LoopGets(c, Continued(hub[c]))
WaitClosed(c) ==
  /\ hub[c].loop = "waiting"
  /\ LoopGets(c, Ended(IF Watched(hub[c]) THEN [hub[c] EXCEPT !.state = "closed"] ELSE hub[c]))

\* The read after an event.
EventRead(c) ==
  /\ hub[c].loop \in {"idle", "activity"}
  /\ \E m \in Reads(c, None) : LoopGets(c, Continued(Pull(hub[c], "output", m)))

\* A call of the loop fails.
LoopFails(c, code) ==
  /\ hub[c].loop # "off" /\ FreePoll(hub[c])
  /\ LoopGets(c, Ended(IF hub[c].stopped THEN hub[c] ELSE Failing(hub[c], code)))

-----------------------------------------------------------------------------
(* The poll.                                                               *)

TimerFires(c, p) ==
  /\ hub[c].poll[p] = "armed"
  /\ hub' = [hub EXCEPT ![c] =
       IF Watched(@) THEN [@ EXCEPT !.poll[p] = "reading", !.asked[p] = pane[c]]
       ELSE [@ EXCEPT !.poll[p] = "off", !.pollTimer = None]]
  /\ UNCHANGED <<channels, pane, closed>>

TickReads(c, p) ==
  /\ hub[c].poll[p] = "reading"
  /\ \E m \in Reads(c, p) :
       LET h == [Pull(hub[c], "output", m) EXCEPT !.asked[p] = 0] IN
       hub' = [hub EXCEPT ![c] =
         IF Watched(h) THEN [h EXCEPT !.poll[p] = "armed", !.pollTimer = p]
         ELSE [h EXCEPT !.poll[p] = "off", !.pollTimer = None]]
  /\ UNCHANGED <<channels, pane, closed>>

\* Unlike the loop, a tick does not look whether it has been stopped.
TickFails(c, p, code) ==
  /\ hub[c].poll[p] = "reading"
  /\ hub' = [hub EXCEPT ![c] =
       Failing([@ EXCEPT !.poll[p] = "off", !.asked[p] = 0], code)]
  /\ UNCHANGED <<channels, pane, closed>>

\* Bound: MaxOutput lines over all panes.
Written == FoldFunctionOnSet(+, 0, pane, Channels)

Output(c) ==
  /\ Written < MaxOutput
  /\ pane' = [pane EXCEPT ![c] = @ + 1]
  /\ UNCHANGED <<channels, hub, closed>>

-----------------------------------------------------------------------------
LoopAnswers(c) ==
  \/ Observes(c) \/ FirstRead(c) \/ EventRead(c)
  \/ WaitIdle(c) \/ WaitActive(c) \/ WaitTimeout(c) \/ WaitClosed(c)
  \/ \E code \in Codes : LoopFails(c, code)
TickAnswers(c, p) == TickReads(c, p) \/ \E code \in Codes : TickFails(c, p, code)

Next ==
  \/ Close
  \/ \E c \in Channels :
       \/ \E v \in Viewers : AddViewer(c, v) \/ RemoveViewer(c, v)
       \/ Snapshot(c) \/ Output(c)
       \/ \E kind \in {"user_turn", "control"} : RecordConsoleEvent(c, kind)
       \/ LoopAnswers(c)
       \/ \E p \in Polls : TimerFires(c, p) \/ TickAnswers(c, p)

Spec == Init /\ [][Next]_vars

\* Every MCP call is answered, if not with its result then with an error, and
\* every timer fires; a wait that has output after its cursor does not time out
\* for ever as if there were none, and polls do not fail for ever.
Fairness ==
  \A c \in Channels :
    /\ WF_vars(Observes(c) \/ FirstRead(c) \/ EventRead(c))
    /\ WF_vars(WaitTimeout(c)) /\ WF_vars(WaitIdle(c) \/ WaitActive(c))
    /\ \A p \in Polls : WF_vars(TimerFires(c, p)) /\ SF_vars(TickReads(c, p))

FairSpec == Spec /\ Fairness

-----------------------------------------------------------------------------
\* The types; a timer handle is that of a chain that has not ended.
TypeOK ==
  /\ channels \in Seq(Channels) /\ closed \in BOOLEAN
  /\ hub \in [Channels -> Hub]
  /\ \A c \in Channels : hub[c].pollTimer # None => hub[c].poll[hub[c].pollTimer] # "off"
  /\ pane \in [Channels -> Nat]

Polling(h) == \E p \in Polls : h.poll[p] # "off"
Interrupted == {"needs_reobserve", "closed", "error"}

\* A Channel with a viewer is served by the loop or by a poll, unless its state
\* tells the viewer that observation is interrupted: no order of detaching,
\* attaching and answers strands a viewer (addViewer, runLoop, tick).
Attended ==
  \A c \in Channels : hub[c].viewers # {} =>
    hub[c].loop # "off" \/ Polling(hub[c]) \/ hub[c].state \in Interrupted

\* The table holds each Channel once, within its capacity; a Channel that is
\* watched or whose loop is active is never evicted (ensure), and never more
\* Channels than the limit are watched (addViewer).
TableSound ==
  /\ Len(channels) <= MaxManagers /\ IsInjective(channels)
  /\ \A c \in Channels : hub[c].viewers # {} \/ hub[c].loop # "off" => c \in Known
  /\ Cardinality(Observed) <= MaxObserved

\* Where waiting always works, the state tells the viewers the truth: live means
\* that the loop is there, interrupted that nothing is (setState, the finally of
\* runLoop).
StateHonest ==
  \A c \in Channels : hub[c].viewers # {} =>
    /\ hub[c].state \in {"live", "attaching"} <=> hub[c].loop # "off"
    /\ hub[c].state \in Interrupted => ~Polling(hub[c])

\* The lines among the entries es are 1 to m, each once and in this order.
LinesExactly(es, m) ==
  /\ \A i \in DOMAIN es : es[i].kind = "line" => es[i].n \in 1..m
  /\ \A n \in 1..m : \E i \in DOMAIN es : es[i] = [kind |-> "line", n |-> n]
  /\ \A i, j \in DOMAIN es :
       es[i].kind = "line" /\ es[j].kind = "line" => (i < j <=> es[i].n < es[j].n)

\* The ring shows every line that has been read exactly once and in order,
\* whatever viewers, sends and errors come in between (pull, attachedOnce).
TranscriptExact == \A c \in Channels : LinesExactly(hub[c].shown, hub[c].lastRead)

\* A user turn is a boundary: before it stands what had been read when it was
\* recorded, after it what was read later (recordConsoleEvent, currentBlock).
TurnsBound ==
  \A c \in Channels : \A i, j \in DOMAIN hub[c].shown :
    LET turn == hub[c].shown[i]
        line == hub[c].shown[j]
    IN turn.kind = "user_turn" /\ line.kind = "line" => (j < i <=> line.n <= turn.n)

\* Nothing outlives the viewers: when they stay away, loop and polls end
\* (removeViewer, runLoop, tick).
UnwatchedStops ==
  \A c \in Channels :
    (hub[c].viewers = {}) ~> (hub[c].viewers # {} \/ (hub[c].loop = "off" /\ ~Polling(hub[c])))

\* Output of a watched Channel is shown, or the viewer is told that observation
\* is interrupted (runLoop, tick).
OutputShown ==
  \A c \in Channels : \A n \in 1..MaxOutput :
    (hub[c].viewers # {} /\ pane[c] >= n) ~>
      \/ hub[c].viewers = {} \/ hub[c].state \in Interrupted
      \/ \E e \in Range(hub[c].shown) : e.kind = "line" /\ e.n = n
=============================================================================
