------------------------------- MODULE Mirror -------------------------------
(***************************************************************************)
(* The way of one Channel's history from the hub to the pages that show    *)
(* it: the bounded ring (console/src/history.ts), the frames the hub sends *)
(* when the ring changes (console/src/observer.ts), the event stream       *)
(* (console/src/http-app.ts), the copy each page keeps of the ring         *)
(* (console/public/app.js) and the turns it shows (console/src/            *)
(* projection.ts, console/public/reading.js).  When the hub reads and      *)
(* waits is the matter of HistoryHub; here it reads whenever it may.       *)
(*                                                                         *)
(* An action is one macrotask, except that a read that has been answered   *)
(* changes the ring in one step and tells the viewers in the next: other   *)
(* promises that were resolved by the same chunk of the MCP server's       *)
(* output run in between.                                                  *)
(*                                                                         *)
(* A text is its number of lines; the ceiling on bytes works as the one    *)
(* on lines does.                                                          *)
(***************************************************************************)
EXTENDS Naturals, Sequences, FiniteSets, SequencesExt

CONSTANTS
  Viewers,    \* pages that show the Channel
  MaxLines,   \* maxLines of the ring
  Turns,      \* lines that a user turn may have
  Reads,      \* lines that a read may find new
  Chunked,    \* two answers of the MCP server may come in one chunk
  Failures,   \* states in which reading has ended
  MaxId,      \* bound of the model: entries recorded
  MaxFrames   \* bound of the model: frames under way to a page

ASSUME MirrorSets == IsFiniteSet(Viewers) /\ Turns \subseteq Nat /\ Reads \subseteq Nat
ASSUME MirrorFailures == Failures \subseteq {"needs_reobserve", "closed", "error"}
ASSUME MirrorLimits == {MaxLines, MaxId, MaxFrames} \subseteq Nat /\ Chunked \in BOOLEAN

VARIABLES
  ring,      \* the HistoryRing
  hub,       \* the ChannelState, as far as the ring and the frames need it
  due,       \* what the read that changed the ring has yet to tell
  frames,    \* frames under way to each page
  stream,    \* the EventSource of each page
  page       \* what each page keeps and shows

vars == <<ring, hub, due, frames, stream, page>>

-----------------------------------------------------------------------------
(* The ring.                                                               *)

FreshRing == [entries |-> <<>>, lines |-> 0, nextId |-> 1,
              droppedEntries |-> 0, droppedLines |-> 0]

\* The lines of the first k entries, for each k.
LineCounts(es) ==
  LET count[k \in 0..Len(es)] == IF k = 0 THEN 0 ELSE count[k - 1] + es[k].lines IN count

LineCount(es) == LineCounts(es)[Len(es)]

\* How many entries may be the first ones to go.
Fit(r) == {k \in 0..Len(r.entries) : r.lines - LineCounts(r.entries)[k] <= MaxLines}

\* Seeded fault of Evict: what is dropped is not taken off the line counter.
EvictForgetting(r) ==
  LET k == CHOOSE k \in Fit(r) : \A l \in Fit(r) : k <= l
  IN [r EXCEPT !.entries = SubSeq(@, k + 1, Len(@)),
               !.droppedEntries = @ + k,
               !.droppedLines = @ + LineCounts(r.entries)[k]]

\* The oldest entries go until the others are within the ceiling.
Evict(r) ==
  LET k == CHOOSE k \in Fit(r) : \A l \in Fit(r) : k <= l
      gone == LineCounts(r.entries)[k]
  IN [r EXCEPT !.entries = SubSeq(@, k + 1, Len(@)), !.lines = @ - gone,
               !.droppedEntries = @ + k, !.droppedLines = @ + gone]

\* The entry that is recorded next.
NewEntry(kind, n) == [id |-> ring.nextId, kind |-> kind, state |-> "open", lines |-> n]

\* Bound: MaxId entries.
CanPush == ring.nextId <= MaxId

\* push
Push(r, e) ==
  Evict([r EXCEPT !.entries = Append(@, e), !.nextId = @ + 1, !.lines = @ + e.lines])

\* The entries es, with the one that has e's id replaced by e.
Replaced(es, e) == [i \in DOMAIN es |-> IF es[i].id = e.id THEN e ELSE es[i]]

\* update: the entry that has e's id becomes e, and may be evicted with that.
Update(r, e) ==
  LET old == CHOOSE x \in Range(r.entries) : x.id = e.id IN
  Evict([r EXCEPT !.entries = Replaced(@, e), !.lines = (@ - old.lines) + e.lines])

-----------------------------------------------------------------------------
(* The hub.                                                                *)

FreshHub == [viewers |-> {}, reader |-> "off", state |-> "idle", attachedOnce |-> FALSE,
             currentBlock |-> 0, lastDropped |-> 0]

Nothing == [appended |-> <<>>, updated |-> <<>>]
NotDue == [pending |-> FALSE, first |-> FALSE, idle |-> FALSE, told |-> Nothing]

\* Macrotasks begin when no promise is left to run.
Idle == ~due.pending

\* currentBlock, unless it is closed: the block that output goes into.
OpenBlock == {e \in Range(ring.entries) : e.id = hub.currentBlock /\ e.state # "closed"}

Snapshot(r) == [entries |-> r.entries, dropped |-> r.droppedEntries, lines |-> r.droppedLines]

\* Seeded fault of Resync: it waits for the next change after the eviction.
ResyncLate(h, r) == h.lastDropped < r.droppedEntries /\ h.lastDropped > 0

\* The first delta after an eviction carries the whole ring.
Resync(h, r) == h.lastDropped < r.droppedEntries

Delta(h, r, told) ==
  [state |-> h.state, told |-> told, dropped |-> r.droppedEntries, lines |-> r.droppedLines,
   snapshot |-> IF Resync(h, r) THEN {Snapshot(r)} ELSE {}]

Seen(h, r) == IF h.viewers = {} THEN h ELSE [h EXCEPT !.lastDropped = r.droppedEntries]

\* Bound: no viewer has MaxFrames frames under way.
Room == \A v \in Viewers : Len(frames[v]) < MaxFrames

Sends(h, fs) ==
  /\ Room
  /\ frames' = [v \in Viewers |-> IF v \in h.viewers THEN frames[v] \o fs ELSE frames[v]]

\* broadcast
Broadcast(h, r, told) == Sends(h, <<Delta(h, r, told)>>) /\ hub' = Seen(h, r)

\* setState
SetState(h, s) == Broadcast([h EXCEPT !.state = s], ring, Nothing)

\* Waiting fails and the poll takes over.
Polls ==
  /\ Idle /\ hub.reader = "on" /\ hub.state # "polling" /\ hub.viewers # {}
  /\ SetState(hub, "polling")
  /\ UNCHANGED <<ring, due, stream, page>>

\* handleLoopError, or the Channel is gone: reading ends.
Fails(s) ==
  /\ Idle /\ hub.reader # "off"
  /\ SetState([hub EXCEPT !.reader = "off"], s)
  /\ UNCHANGED <<ring, due, stream, page>>

\* Reading ends when nobody is left.
Stops ==
  /\ Idle /\ hub.reader # "off" /\ hub.viewers = {}
  /\ hub' = [hub EXCEPT !.reader = "off", !.state = "idle"]
  /\ UNCHANGED <<ring, due, frames, stream, page>>

\* A read has been answered: pull changes the ring to r, and what it has changed
\* is yet to be told.
Pulled(idle, r, block, told) ==
  LET first == hub.reader = "first" IN
  /\ ring' = r
  /\ due' = [pending |-> TRUE, first |-> first, idle |-> idle, told |-> told]
  /\ hub' = [hub EXCEPT !.reader = "on", !.attachedOnce = @ \/ first, !.currentBlock = block]
  /\ UNCHANGED <<frames, stream, page>>

Earlier == hub.reader = "first" /\ ~hub.attachedOnce
CanRead(idle) == Idle /\ hub.reader # "off" /\ (idle => hub.reader = "on")

PullNothing(idle) == CanRead(idle) /\ Pulled(idle, ring, hub.currentBlock, Nothing)

\* The tail that the first attach finds.
PullEarlier(n) ==
  LET e == NewEntry("earlier_output", n) IN
  /\ CanRead(FALSE) /\ Earlier /\ CanPush
  /\ Pulled(FALSE, Push(ring, e), hub.currentBlock, [Nothing EXCEPT !.appended = <<e>>])

\* New output in the current block, which is open again.
PullMore(n, idle) ==
  /\ CanRead(idle) /\ ~Earlier
  /\ \E b \in OpenBlock :
       LET e == [b EXCEPT !.lines = @ + n, !.state = "open"] IN
       Pulled(idle, Update(ring, e), hub.currentBlock, [Nothing EXCEPT !.updated = <<e>>])

\* New output in a new block.
PullBlock(n, idle) ==
  LET e == NewEntry("output_block", n) IN
  /\ CanRead(idle) /\ ~Earlier /\ OpenBlock = {} /\ CanPush
  /\ Pulled(idle, Push(ring, e), e.id, [Nothing EXCEPT !.appended = <<e>>])

\* The objects that are yet to be told are those of the ring: a change of e shows.
Refreshed(told, e) ==
  [appended |-> Replaced(told.appended, e), updated |-> Replaced(told.updated, e)]

\* The viewers are told: after a first read that the hub is live, and what it
\* found; after an idle event with the current block paused.
TellFirst ==
  LET live == [hub EXCEPT !.state = "live"] IN
  /\ due.pending /\ due.first
  /\ Sends(live, <<Delta(live, ring, Nothing), Delta(Seen(live, ring), ring, due.told)>>)
  /\ hub' = Seen(live, ring)
  /\ due' = NotDue
  /\ UNCHANGED <<ring, stream, page>>

TellPaused ==
  /\ due.pending /\ due.idle
  /\ \E b \in OpenBlock :
       LET e == [b EXCEPT !.state = "paused"]
           told == Refreshed(due.told, e)
           r == Update(ring, e)
       IN /\ ring' = r
          /\ Broadcast(hub, r, [told EXCEPT !.updated = Append(@, e)])
  /\ due' = NotDue
  /\ UNCHANGED <<stream, page>>

Tell ==
  /\ due.pending /\ ~due.first /\ ~(due.idle /\ OpenBlock # {})
  /\ Broadcast(hub, ring, due.told)
  /\ due' = NotDue
  /\ UNCHANGED <<ring, stream, page>>

\* Seeded fault of ClosedBlock: a paused block is taken for a closed one.
ClosedBlockIfRunning == {[b EXCEPT !.state = "closed"] : b \in {o \in OpenBlock : o.state = "open"}}

\* closeCurrentBlock, with which no output goes into the block any more.
ClosedBlock == {[b EXCEPT !.state = "closed"] : b \in OpenBlock}

\* An entry is recorded in the ring r by the hub h, together with what that has
\* updated.
Records(r, h, e, updated) ==
  /\ ring' = Push(r, e)
  /\ Broadcast(h, Push(r, e), [appended |-> <<e>>, updated |-> updated])
  /\ UNCHANGED <<stream, page>>

CanRecord == (Idle \/ Chunked) /\ CanPush

\* recordConsoleEvent: a user turn closes the current block, a control does not.
RecordUserTurn(n) ==
  LET e == NewEntry("user_turn", n) IN
  /\ CanRecord
  /\ \/ /\ ClosedBlock = {}
        /\ Records(ring, hub, e, <<>>)
        /\ UNCHANGED due
     \/ \E b \in ClosedBlock :
          /\ Records(Update(ring, b), [hub EXCEPT !.currentBlock = 0], e, <<b>>)
          /\ due' = [due EXCEPT !.told = Refreshed(@, b)]

RecordControl ==
  /\ CanRecord
  /\ Records(ring, hub, NewEntry("control", 0), <<>>)
  /\ UNCHANGED due

-----------------------------------------------------------------------------
(* The stream.                                                             *)

\* handleEvents and addViewer: the new viewer has the ring first; if nobody
\* reads, reading begins and every viewer hears of it.
Connects(v) ==
  LET joined == [hub EXCEPT !.viewers = @ \cup {v}, !.lastDropped = ring.droppedEntries]
      begun == [joined EXCEPT !.state = "attaching", !.reader = "first"]
      begins == hub.reader = "off"
      first == [Delta(hub, ring, Nothing) EXCEPT !.snapshot = {Snapshot(ring)}]
      told == IF begins THEN <<Delta(begun, ring, Nothing)>> ELSE <<>>
  IN
  /\ Idle /\ stream[v] = "connecting" /\ Room
  /\ stream' = [stream EXCEPT ![v] = "open"]
  /\ hub' = IF begins THEN begun ELSE joined
  /\ frames' = [w \in Viewers |-> CASE w = v -> <<first>> \o told
                                    [] w \in hub.viewers -> frames[w] \o told
                                    [] OTHER -> frames[w]]
  /\ UNCHANGED <<ring, due, page>>

\* removeViewer
Left(h, V) ==
  IF h.viewers \subseteq V /\ h.reader = "off" /\ h.state \in {"live", "polling", "attaching"}
  THEN [h EXCEPT !.viewers = @ \ V, !.state = "idle"]
  ELSE [h EXCEPT !.viewers = @ \ V]

\* The connection breaks: what is under way is lost, and EventSource connects
\* again.
Breaks(v) ==
  /\ Idle /\ stream[v] = "open"
  /\ stream' = [stream EXCEPT ![v] = "connecting"]
  /\ frames' = [frames EXCEPT ![v] = <<>>]
  /\ hub' = Left(hub, {v})
  /\ page' = [page EXCEPT ![v].observe = "error"]
  /\ UNCHANGED <<ring, due>>

-----------------------------------------------------------------------------
(* The page.                                                               *)

BlankPage(s) == [order |-> <<>>, byId |-> {}, articles |-> <<>>, shown |-> {}, marker |-> {},
                 observe |-> s]

\* setSelected and openStream: the page begins anew.
Select(v) ==
  /\ stream[v] = "off"
  /\ stream' = [stream EXCEPT ![v] = "connecting"]
  /\ page' = [page EXCEPT ![v] = BlankPage("attaching")]
  /\ UNCHANGED <<ring, hub, due, frames>>

\* addViewer throws, since too many Channels are watched or kept: for a status
\* that is not 200 EventSource does not try again.  What the page still shows is
\* not followed: it is made anew before anything changes it.
TurnedAway(v) ==
  /\ Idle /\ stream[v] = "connecting" /\ hub.viewers = {}
  /\ stream' = [stream EXCEPT ![v] = "refused"]
  /\ page' = [page EXCEPT ![v] = BlankPage("error")]
  /\ UNCHANGED <<ring, hub, due, frames>>

\* closeStream
Deselect(v) ==
  /\ Idle /\ stream[v] # "off"
  /\ stream' = [stream EXCEPT ![v] = "off"]
  /\ frames' = [frames EXCEPT ![v] = <<>>]
  /\ hub' = Left(hub, {v})
  /\ page' = [page EXCEPT ![v] = BlankPage("off")]
  /\ UNCHANGED <<ring, due>>

\* setObserveState offers Re-observe in a state that reading does not leave by
\* itself: the stream is closed and opened again, the selection stays.
Reobservable(v) == page[v].observe \in {"needs_reobserve", "error", "closed"}

Reobserve(v) ==
  /\ Idle /\ stream[v] # "off" /\ Reobservable(v)
  /\ stream' = [stream EXCEPT ![v] = "connecting"]
  /\ frames' = [frames EXCEPT ![v] = <<>>]
  /\ hub' = Left(hub, {v})
  /\ page' = [page EXCEPT ![v] = BlankPage("attaching")]
  /\ UNCHANGED <<ring, due>>

\* mirroredEntries
Mirrored(p) == [i \in DOMAIN p.order |-> CHOOSE e \in p.byId : e.id = p.order[i]]

\* The turn that the i-th entry belongs to: the last user turn so far, or the
\* synthetic turn 0.
TurnOf(es, i) ==
  LET turns == {j \in 1..i : es[j].kind = "user_turn"} IN
  IF turns = {} THEN 0 ELSE es[CHOOSE j \in turns : \A k \in turns : k <= j].id

\* projectConversation: which turn shows which entry.  Earlier output shows in
\* the synthetic turn only, above the others and without an article of its own.
Projected(es) ==
  {[turn |-> TurnOf(es, i), entry |-> es[i]] :
     i \in {j \in DOMAIN es : es[j].kind = "earlier_output" => TurnOf(es, j) = 0}}

Synthetic(es) ==
  \E n \in Projected(es) : n.turn = 0 /\ n.entry.kind # "earlier_output"

\* The ids of the user turns, in order.
UserTurns(es) ==
  LET turns[k \in 0..Len(es)] ==
        IF k = 0 THEN <<>>
        ELSE IF es[k].kind = "user_turn" THEN Append(turns[k - 1], es[k].id) ELSE turns[k - 1]
  IN turns[Len(es)]

Articles(es) == (IF Synthetic(es) THEN <<0>> ELSE <<>>) \o UserTurns(es)

\* updateTurn and feed: the nodes of the entries ns are brought up to date where
\* they stand, or made; every other node stays.
UpdateTurns(shown, ns) ==
  {n \in shown : \A m \in ns : <<m.turn, m.entry.id>> # <<n.turn, n.entry.id>>} \cup ns

\* ensureTurn: a turn without an article gets one below the others.
EnsureTurn(articles, t) == IF t \in Range(articles) THEN articles ELSE Append(articles, t)
EnsureTurns(articles, ts) ==
  LET ensured[k \in 0..Len(ts)] ==
        IF k = 0 THEN articles ELSE EnsureTurn(ensured[k - 1], ts[k])
  IN ensured[Len(ts)]

\* reconcile
Reconciled(p) ==
  LET es == Mirrored(p) IN
  [p EXCEPT !.articles = EnsureTurns(@, Articles(es)), !.shown = UpdateTurns(@, Projected(es))]

SetById(es, e) == {x \in es : x.id # e.id} \cup {e}

\* applySnapshot: the ring replaces everything, and the turns are made anew.
Applied(p, f, s) ==
  LET es == s.entries IN
  Reconciled([BlankPage(f.state) EXCEPT
                !.order = [i \in DOMAIN es |-> es[i].id], !.byId = Range(es),
                !.marker = IF s.dropped > 0 THEN {s.lines} ELSE {}])

\* applyDelta: an entry that is known is not appended, one that is updated takes
\* the place of the one with its id.
Added(p, e) ==
  IF \E x \in p.byId : x.id = e.id THEN p
  ELSE [p EXCEPT !.byId = @ \cup {e}, !.order = Append(@, e.id)]
Changed(p, e) == [p EXCEPT !.byId = SetById(@, e)]
AllAdded(p, es) ==
  LET q[k \in 0..Len(es)] == IF k = 0 THEN p ELSE Added(q[k - 1], es[k]) IN q[Len(es)]
AllChanged(p, es) ==
  LET q[k \in 0..Len(es)] == IF k = 0 THEN p ELSE Changed(q[k - 1], es[k]) IN q[Len(es)]
Merged(p, f) ==
  LET q == AllChanged(AllAdded(p, f.told.appended), f.told.updated) IN
  [Reconciled(q) EXCEPT !.observe = f.state,
                        !.marker = IF f.dropped > 0 THEN {f.lines} ELSE @]

Receives(v) ==
  /\ frames[v] # <<>>
  /\ frames' = [frames EXCEPT ![v] = Tail(@)]
  /\ LET f == Head(frames[v]) IN
     page' = [page EXCEPT ![v] = IF f.snapshot = {} THEN Merged(@, f)
                                 ELSE Applied(@, f, CHOOSE s \in f.snapshot : TRUE)]
  /\ UNCHANGED <<ring, hub, due, stream>>

-----------------------------------------------------------------------------
Init ==
  /\ ring = FreshRing /\ hub = FreshHub /\ due = NotDue
  /\ frames = [v \in Viewers |-> <<>>]
  /\ stream = [v \in Viewers |-> "off"]
  /\ page = [v \in Viewers |-> BlankPage("off")]

Pull ==
  \/ \E idle \in BOOLEAN : PullNothing(idle)
                           \/ \E n \in Reads : PullMore(n, idle) \/ PullBlock(n, idle)
  \/ \E n \in Reads : PullEarlier(n)

Tells == TellFirst \/ TellPaused \/ Tell

Next ==
  \/ Pull \/ Tells \/ Polls \/ Stops
  \/ \E s \in Failures : Fails(s)
  \/ \E n \in Turns : RecordUserTurn(n)
  \/ RecordControl
  \/ \E v \in Viewers :
       \/ Select(v) \/ Deselect(v) \/ Reobserve(v)
       \/ Connects(v) \/ TurnedAway(v) \/ Breaks(v) \/ Receives(v)

Spec == Init /\ [][Next]_vars

-----------------------------------------------------------------------------
\* The ring is what it claims: its counter counts its lines, they are within the
\* ceiling, ids grow, and every id was either dropped or is held.
RingExact ==
  /\ ring.lines = LineCount(ring.entries) /\ ring.lines <= MaxLines
  /\ \A i, j \in DOMAIN ring.entries : i < j => ring.entries[i].id < ring.entries[j].id
  /\ Len(ring.entries) + ring.droppedEntries = ring.nextId - 1

\* Output stands in the turn that was the last one when it was read: a block that
\* can still grow has no user turn after it.
BlocksGrowLast ==
  \A i, j \in DOMAIN ring.entries :
    i < j /\ ring.entries[j].kind = "user_turn" /\ ring.entries[i].kind = "output_block"
      => ring.entries[i].state = "closed"

UpToDate(v) == stream[v] = "open" /\ frames[v] = <<>> /\ ~due.pending

\* A page that has had every frame keeps exactly the ring, shows it as it is now,
\* in exactly its turns and in their order, tells how much was dropped, and tells
\* the state of the hub.
MirrorExact ==
  \A v \in Viewers : UpToDate(v) =>
    /\ Mirrored(page[v]) = ring.entries
    /\ page[v].shown = Projected(ring.entries) /\ page[v].articles = Articles(ring.entries)
    /\ page[v].marker = IF ring.droppedEntries > 0 THEN {ring.droppedLines} ELSE {}
    /\ page[v].observe = hub.state
=============================================================================
