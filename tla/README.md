# Formal verification of agent-runtime-mcp

agent-runtime-mcp gives agents bounded access to terminal Channels (tmux panes)
over MCP; a companion web Console shows them to people. This directory holds
TLA+ models of the parts of it where concurrency, time and limits decide whether
it is right, TLC configurations that check them on small instances, and TLAPS
proofs of what holds for every instance. Paths are relative to the repository.

    tlc -config MCObservation.cfg MCObservation      # one run
    tlapm SampleGateProofs.tla                       # one module of proofs

## 1. The system

| Part | State | Operations | Where |
|---|---|---|---|
| Sampling gate | `activeSamples`, `sampleQueue` | `runSample` | `src/observation.ts` 187-218 |
| Observation manager | observers by Channel, cursors, retired cursors, pending creations, waiters, interval and deadline timers | `observe`, `wait`, `scheduleSample`/`sample`, `expire`, `maybeDispose`, `issue` | `src/observation.ts` |
| tmux backend | none of its own; every operation is a sequence of `tmux` commands | list, get, read, `writeText`, `sendControl`, `sampleObservation`, `validateObservation` | `src/tmux-backend.ts` |
| MCP server | none | one handler per tool | `src/mcp.ts`, `src/handlers.ts` |
| stdio server | `closing` | shutdown on end of input and signals | `src/server.ts`, `src/stdio-shutdown.ts` |
| History hub | per Channel: ring, viewers, loop and poll flags, cursor, last read | `addViewer`, `removeViewer`, `runLoop`, poll `tick`, `pull`, console events | `console/src/observer.ts` |
| History ring | entries, dropped counters | push, update, snapshot; `diffTail` | `console/src/history.ts` |
| MCP client | client, transport, pending connection, cool-down | `ensureClient`, `connectWithRetry`, `call`, `close` | `console/src/mcp-client.ts` |
| HTTP server and event bus | subscribers | text and control routes, SSE, events | `console/src/http-app.ts`, `events.ts` |
| Terminal attach | `active`, `reserved` | reserve, commit, dispose | `console/src/terminal-attach.ts` |
| Session lifecycle | configuration only | create, kill | `console/src/session-lifecycle.ts` |
| Endpoint keeper | the tmux server | `ensure`, `status` | `deployment/tmux-endpoint-keeper.sh` |
| Browser client | mirror of the ring, drafts | SSE handlers, text transfer | `console/public/*.js` |

How they interact. A tool call enters through the MCP server and becomes one
call of the backend. `get_channel(observe)` and `wait_channel_event` go to the
observation manager, which asks the backend for samples and validations of a
pane through the gate, at most two at a time. The Console starts the MCP server
as a child process and speaks to it through its client; its hub keeps one
observe/wait/read loop per Channel that somebody watches and sends ring deltas
to the viewers over SSE. Mutations enter through the HTTP server, which tells
the hub about them on the event bus.

What is hard. Each process is one Node event loop, so the interleavings are
those of callbacks around `await`s: samples, validations, deadlines, polls,
cancellations, renewals and replacements of observers all meet in
`observation.ts`; in-flight reads, leaving and returning viewers and poll timers
meet in `observer.ts`. Backend commands fail, hang until their timeout, or report
another pane. Time runs on while the process is suspended. Each limit (two slots,
two waiters per observer, 16 waiters, eight observers, 4096 cursors) must hold and
be given back on every path. `PROJECT.json` lists the hazards line by line, with
the properties that cover them.

What makes each part correct:

* gate: the slot counter is exact, no slot is lost, callers are served in order;
* observation: counters equal what they count; a granted cursor stays good;
  a result is justified by what the observer has seen when it is given; no
  event is lost silently; the sampler runs exactly for the observers in use;
  every wait returns; every dead observer goes;
* tmux backend: content is attributed to the pane it came from; a pane is
  reported closed only when that is certain; a partly delivered mutation is
  reported as such;
* hub: one loop per watched Channel; a watched Channel is never left without
  one unless its state says so; output goes to the turn it belongs to;
* ring and browser: the mirror equals the ring; limits hold; `diffTail` neither
  repeats nor drops output where it promises not to;
* MCP client: the cached client is live; one child at most; cool-down respected;
* terminal attach: `active + reserved` is exact and within the limit;
* keeper: concurrent supervisors end with one session, and the Console does not
  end it by its name.

## 2. Modules

| Module | Models | Uses |
|---|---|---|
| `SlotGate` | abstract promise of the gate: at most `Slots` run, the rest wait in order | |
| `SampleGate` | `runSample`, one action per microtask | refines `SlotGate` |
| `CursorContract` | abstract promise of `observe` and `wait` to a client: streams, cursors, calls | |
| `Observation` | `ObservationManager`, one action per macrotask and per continuation | refines `CursorContract`; the gate, with the atomic hand-over justified by `SampleGate` |
| `HistoryHub` | `HistoryHub` of the Console, one action per macrotask | |
| `Mirror` | ring, frames, event stream, the page's copy of the ring and its turns | the hub's reads as a free choice |
| `McpClient` | `StdioMcpClient`: the cached connection, the child process, the calls | |
| `TerminalAttach` | the slots of the Terminal View, its sockets and ptys | |
| `Console` | a request from the page through the Console and the MCP server to tmux, and its answer | composes `McpClient` and `TerminalAttach` |
| `TmuxServer` | the tmux server: panes, processes, restarts | |
| `PaneSampler` | `sampleObservation`, `validateObservation`, command by command | `TmuxServer` |
| `Endpoint` | the keeper script, the session lifecycle, whoever else uses tmux | `TmuxServer` |
| `TmuxScope` | the three on one server | composes `PaneSampler` and `Endpoint` |
| `Page` | list, selection, sessions and transfer dialog of the page | the server as what answers requests |
| `QueueLemmas` | lemmas about sequences, and induction along them | |
| `...Proofs` | proofs about the module of that name; `ConsoleProofs` also about `McpClient` and `TerminalAttach` | |
| `MC...` | instances for TLC | |

### SampleGate

`activeSamples` and `sampleQueue` are the fields of the class. `micro` is the
microtask queue, restricted to the continuations of this function; `stage` says
where each call is. `RunNow` and `Enqueue` are the two ways through the head of
`runSample`, `Abort` is the `remove` listener, `Complete` the `finally` block,
`Resume` the continuation after the queued promise, `Returned` the caller's
continuation. The interesting instant is between `Complete` and `Resume`: the
counter says a slot is free although it has been promised. The code is right
because `next.resolve()` precedes the caller's own continuation in the microtask
queue; the mutant `CompleteReturningFirst` reverses the two and exceeds the cap.

### Observation

State: `observers`, `creating`, `tokens`, `retired`, `waiterCount` are the fields
of the class; `obs` holds the observer records by id, also those no longer mapped
(closures keep them alive); `gate` is the gate with the operations its slots and
entries stand for; `wait` holds, for every wait call, the local variables of its
promise as a phase (`admitting` and `confirming` are the two awaited validations,
`parked` is waiting for a wake or a poll). `issued` and `lossSeen` are history
variables: every cursor ever given out, and whether a sample has found the pane
gone. `disposals` orders the retired cursors as insertion orders the Map.

Grain: an action is one macrotask and may start only when no continuation is
pending (`Quiet`); an evaluation and the `finally` block of `wait` are actions of
their own that run first, in any order where the code has a fixed one.

| Code | Actions |
|---|---|
| `observe` | `ObserveRenew`, `ObserveCreate` (with `Supplant` for the old observer), `Created`, `CreateFailed` |
| `wait` up to the promise | `Admit`, `Refuse`, `Thrown` |
| `evaluate` | `Evaluate`, `Admitted`, `Confirmed`, `ValidationFails`, with `Judge` for its second half |
| `timeoutResult`, `abort`, poll timer, `finally` | `Deadline`, `Cancel`, `Poll`, `Settle` |
| `scheduleSample`, `sample`, `expire` | `IntervalFires`, `SampleEnds` |
| a batch whose waiter has gone | `DetachedEnds` |
| the clock, and a suspended process | `Tick` |

Abstractions: a backend batch ends with an outcome (unchanged, changed, closed,
another pane, failed); a cursor is what its token binds, so cursors with one
binding issued in one instant are one; the byte limit of the history is folded
into its length (1536 records serialize to about 129 kB, below the limit of
256 kB); wall-clock fields of results are left out; time is counted in sampling
intervals, and the poll timer of a waiter may fire at any time, because its delay
is at most one interval. Callers that find a creation pending
receive the cursor that `Created` issues.

What a client may rely on is `CursorContract`, which has neither timers nor samples
under way, nor a gate, a table of cursors or validations. `Contract` maps the manager
to it: an observer is a stream (`Stream`), of which clients know the state, the lease
and the history, but nothing that no longer matters once it has failed; `given` is
`issued`; of a call they know where it is (`StageOf`: any phase in which it is
registered is one that waits) and what it was told. The contract says when an
answer may be given, so it is what the checked properties amount to for a client:
`output_idle` only of what is there and quiet, `timeout` only by the deadline and
with the cursor good, `CURSOR_EXPIRED` and `OBSERVATION_GAP` never of a stream that
is leased, looked at in time and missing nothing; a call is turned away with a good
cursor only for lost changes or too many waiters; no stream comes back, and a Channel
never has two that are usable. It allows for two things that the code does: at the
limit of cursors the answer to `observe` is not a new cursor, and a call whose
`output_idle` is due is forgotten (`Forget`, the finding `stuck_wait`).

### HistoryHub

`channels` is the order of the Map's keys, `hub` its records. Of a record, `loop`
says which call `runLoop` awaits (or `off`, when `loopActive` is false), `poll`
where each chain of ticks is, `pollTimer` which of them the field of that name
refers to, `asked` what the pane held when each call in flight was made, `shown`
the ring as a sequence of lines and sends, `block` where the current block ends
in it. `pane` is the pane itself.

The interesting state is a call in flight. `removeViewer` sets `stopped` and
clears a pending timer, but the loop's wait and a tick's read are answered later,
perhaps when somebody watches again. Hence chains of ticks have identities, of
which the field `pollTimer` names one: a tick that comes back makes itself that
one.

| Code | Actions |
|---|---|
| `addViewer`, `removeViewer` | `AddViewer`, `RemoveViewer` (with `Joined`, `Left`) |
| `snapshot`, `recordConsoleEvent` | `Snapshot`, `RecordConsoleEvent` |
| `runLoop` | `Observes`, `FirstRead`, `WaitIdle`, `WaitActive`, `WaitTimeout`, `WaitClosed`, `EventRead`, `LoopFails` |
| `schedulePoll`, its `tick` | `TimerFires`, `TickReads`, `TickFails` |
| `close` | `Close`: the HTTP server has closed before, so no request comes after it |

Abstractions: the text of the pane is the number of its lines, and it only
grows; `diffTail` on such texts is a difference of numbers (on others it is not
modelled, section 5). An error is one of three classes, by what
`handleLoopError` does with it. A record that is evicted while one of its ticks
is reading is forgotten: it has no viewers and is stopped, so nothing it still
does is seen.

### Mirror

`ring` is the `HistoryRing` with its line counter and what it has dropped, `hub`
of the `ChannelState` what frames depend on, `frames` what is under way to each
page, `page` what each page keeps (`order`, `byId`) and shows (`articles` in their
order, `shown` the entry nodes of each turn, `marker` the note of dropped lines).
`due` is a read whose answer has changed the ring and has yet to be told: `pull`
changes the ring synchronously, the continuation that broadcasts runs as a later
microtask of the same macrotask. Nothing runs in between unless one chunk of the
MCP server's output holds two answers (`Chunked`).

| Code | Actions and operators |
|---|---|
| `push`, `update`, `evict`, `snapshot` | `Push`, `Update`, `Evict`, `Snapshot` |
| `pull`, then `broadcast` | `PullNothing`, `PullEarlier`, `PullMore`, `PullBlock`; `TellFirst`, `TellPaused`, `Tell` |
| `recordConsoleEvent`, `closeCurrentBlock` | `RecordUserTurn`, `RecordControl`, `ClosedBlock` |
| `setState`, `handleLoopError` | `SetState`, `Polls`, `Fails`, `Stops` |
| `handleEvents`, `addViewer`, `removeViewer` | `Connects`, `TurnedAway`, `Left` |
| `EventSource`, `openStream`, `closeStream`, Re-observe | `Select`, `Deselect`, `Breaks`, `Reobserve` |
| `applySnapshot`, `applyDelta`, `reconcile`, `projectConversation` | `Applied`, `Merged`, `Reconciled`, `Projected` |

Left out: a restart of the Console, the eviction of the hub's record together with
its ring (a page of it has no stream, and its next snapshot replaces everything),
a second reader (`HistoryHub` has it), and the ceiling on bytes, which works as the
one on lines does.

### McpClient, TerminalAttach, Console

`McpClient`: `cached` is `this.client` with its transport, `dial` where
`connectWithRetry` is, `cooling` whether `unavailableUntil` lies ahead, `child`
what each process is doing, `call` what each caller awaits. An action is a
macrotask: a connection that is made sends the calls that awaited it in the same
step, a child that exits ends the calls sent to it in the same step.

`TerminalAttach`: `active` and `reserved` are the counters of the class, `socket`
and `pty` what the closures of the upgrade handler and of the bridge hold.

`Console` composes the two with the page's composer (`sending` is its lock,
`told` what it has heard), the POST routes (`answer`, with the console event that
goes with it), the tools of the MCP server (`tool`: where each handler is and the
code it will report) and tmux (`buffers`, `screen`). What the Console does when a
call of the client is over happens in the same macrotask: `Follows` conjoins it
to each step of the client, so an upgrade reserves its slot and a POST gets its
answer in the step that ends its call.

| Code | Actions |
|---|---|
| `sendText`, `sendControl` of the page | `Send`, `Hear`, with `Freed` for the `finally` |
| POST routes, `readJsonBody` | `Arrive`, `BodyRefused`, `Answered` |
| upgrade handler, bridge | `OpenTerminal`, `Upgraded`, `Terminal` |
| `StdioMcpClient` | `Connection`, `ServerExits`, `Reply` |
| `writeText`, `sendControl`, `cleanupBuffer` | `TmuxSucceeds`, `TmuxFails`, `TmuxTimesOut`, `ArgumentRefused`, by `After` and `AfterFailure` |
| a tmux command whose client has been killed | `LateCommand`: it runs, or does not |
| the end of the Console | `Exit` |

Faults: every command fails, or times out and then perhaps runs; the server exits
at any time, and so does the Console; answers are lost on the way to the page.
Error codes other than `TIMEOUT` are one code, because nothing but wording depends
on which it is. A look-up (`getChannel`) is the first stage of each tool.

### TmuxServer, PaneSampler, Endpoint

A tmux server starts with its first session and goes with its last one or by a
crash. A new server counts panes and processes from one again, and its own pid may
be that of an earlier server: what differs is the start time in `/proc`, here
`generation`. `PaneSampler` has an action for every tmux command and every read of
`/proc` of a sample, of the inventory between two generations that decides whether
a pane is gone, and of a validation; `job` is what has been read so far. `Endpoint`
has an action for every command of the keeper script (`script`), and the kills and
creations that the Console has asked for and whose command runs after its check
(`asked`). Panes exit, are respawned and move between sessions at any time.

The Console checks a name as a whole, against the scope and the protected sessions
(`MayKill`), but tmux, which is given it as `-t name`, takes a name that no session
has for the beginning of one (`Resolved`): which names begin which is the constant
`Prefixes`. Scope is one setting, `TMUX_ALLOWED_SESSIONS`, read by the sampler
(`Allowed`) and by the lifecycle (`InScope`); where it is unset, both are all
sessions. `calm` is a history variable: nothing has disturbed a supervisor since its
run began. A command that fails disturbs it; a keeper that crashes, ends by itself or
is killed by the beginning of its name disturbs all; a kill by its whole name would
not, so that `EnsureSound` says that there is none.

`TmuxScope` puts the three side by side. It excludes one thing (`PidsLast`): that
the pid of a dead server is given to a new one while a single sample that has read
it is still under way.

### Page

`request` holds what the page has asked and the answers that have not been
continued with; the operator goes on meanwhile. `unavailable` says that `errorEl`
is shown: a list that fails empties `list` and leaves the selection, a list that
comes empty ends it. `killable`, `creatable` and `dialog.enabled` are the states of
the buttons. A Channel stands for its session.

| Code | Actions |
|---|---|
| `loadChannels`, `renderChannels` | `LoadChannels`, `Loaded` with `RenderChannels` |
| `setSelected` | `Select`, `Deselect`, `SetSelected` |
| `createSession`, `killSession` | `CreateSession`, `Created`, `KillSession`, `Killed` |
| `openTransfer`, `refreshTransferTargets`, `invalidateTargetChoice` | `OpenTransfer`, `Targets` with `Rebuilt` |
| `renderTransferPreview`, `validateTransfer` | `Previewed`, `Validates` |
| `confirmTransfer`, `closeTransfer` | `ConfirmTransfer`, `Transferred`, `CancelTransfer` |

The open dialog covers the rest of the page: the operator is taken to use what he
sees, not to reach under it with the keyboard.

## 3. Checks

Every property of a passing run has a mutant in `PROJECT.json`: an operator of the
module (introduced by "Seeded fault") that replaces a definition and that the run
must catch.

| Run | Asks | Bounds |
|---|---|---|
| `gate` | is the counter exact, is every queued call served, is it a FIFO gate | 5 callers, 2 slots, queue 2: all slots busy, queue full, and one caller refused |
| `history` | eviction and candidates overtaken during validation, lost wake-ups; does the manager keep the contract | 1 observer, 1 waiter, 2 events retained, 5 intervals, lease 4, life time 5, timeout 3, gap 2, idle 1 and 2 |
| `limits` | what holds when every limit is reached and observers outlive their lease under waiters | 2 Channels, 3 ids, 2 observers; 4 waiters, 2 for an observer and 3 in all, so that each limit is reached without the other; 1 slot, queue 1, 2 cursors, 1 retired cursor; lease 1, lifetime 2, so a replacement fits after the lapse |
| `liveness` | does every wait return, does every dead observer go | 1 slot, 2 waiters, 3 intervals |
| `hub` | is a viewer ever stranded, is output shown, does everything end when nobody watches | 1 Channel, 2 viewers, 2 chains of ticks, all errors, 1 line; fairness |
| `hub_transcript` | is everything shown once, in order, in its turn; is the state true; is anything in use evicted | 3 Channels for 2 records and 1 place among the observed, 1 viewer, 2 lines, 1 send, no poll fallback |
| `console` | does a request reach the pane once and completely, is what is answered true, is everything given back, does every request end | 2 requests of any kind, 2 processes, 1 retry, 1 place for a terminal; fairness |
| `mirror` | does the page show exactly the ring | 2 pages, 2 lines in the ring, 4 entries, 1 frame under way to each |
| `tmux` | is a sample of one process, is a closed pane gone, do racing supervisors end well | 3 sessions, the name of one in scope beginning that of the keeper and one out of scope, 3 servers on 2 pids, 2 panes and 2 processes for each, 2 supervisors, 1 command of the Console under way |
| `page` | does a text go only where it was confirmed to go, is what is selected listed | 2 Channels, 2 texts of which one is too long, 2 requests under way |

The runs that expect a violation use the same modules on smaller instances, given
in their `.cfg` files.

Bounds. Two waiters are enough for the interplay through the observer, the gate
and the cursor table, three for the limits of jobs and cursors, four for those of
waiters: one observer at its limit of two while the global limit of three has room,
and the global limit reached by two observers. Time is the expensive dimension:
leases of two intervals against a gap of one let renewal, staleness and expiry
happen in every order; an observer is created only if its whole life fits
(`Fits`) and a call only if its deadline fits, so nothing is cut off at the end
of time. At the last instant the interval timer keeps firing. Waiters and ids are
interchangeable, and the safety runs use that symmetry. Deadlock is not checked
for `Observation`: with the clock at its bound and no client calling, nothing is
left to do.

For the hub, one viewer more than the last is enough to distinguish leaving from
leaving last; two chains of ticks are what one return of viewers makes of one,
and a chain is bounded only in that a loop cannot fail while all are in use. The
lines and sends are counted over all Channels. `CHECK_DEADLOCK` is off: a hub that
nobody watches may rest for good.

In `console` one request meets everything that can happen to it, and a second one
shares the connection, the server, the buffers and the terminal's place with it;
that more of them add nothing is proved (section 4). In `mirror` four entries fill
a ring of two lines twice, so that blocks, user turns and controls are evicted
before and after they have been told; more than one frame under way would only
delay the same deltas, which a page merges in order. In `tmux` three servers on two
pids let a pid come back; the observed pane is the first of each server, so its id
comes back with every server, and two processes let it be respawned. With three
sessions the same kill ends the session it names, the keeper, one out of scope, or
none because tmux finds two. In `page` two
requests under way let every pair of answers come in either order. These four stop
where a bound is reached or all requests are over, so deadlock is not checked; for
`page`, where the operator can always go on, it is.

Fairness. `SampleGate` assumes that batches end (each backend command has a
timeout) and that microtasks run. `Observation` assumes weak fairness of
continuations and strong fairness of the macrotasks that end by themselves: the
clock, the timers, and the commands of samples, creations and abandoned
validations. Strong, because requests may arrive between any two turns of the
event loop, which nevertheless serves every due timer. Nothing is assumed of a
validation that a waiter awaits: `WaitEnds` then says that the deadline ends the
wait on its own. `HistoryHub` assumes that calls are answered and timers fire
(each MCP call has a timeout), that a wait which has output after its cursor does
not time out for ever as if there were none, and, strongly, that polls do not fail
for ever. Viewers may come and go or stay as they like. `Console` assumes that the
timers of the connection, of the calls and of the tmux commands fire, that a tool
that has finished answers, that the operating system reports the end of a process
that is being stopped, and that the page hears an answer or the loss of its
connection. It assumes nothing of late commands, of the Terminal View, or of the
operator. The other modules state no fairness and no liveness.

What holds. Among others: the counters and jobs agree on every path
(`WaiterAccounting`, `JobsMatch`); no cursor is lost while its lease and its
observer last (`LeaseHonoured`); a `timeout` or `output_idle` leaves a usable
cursor from which nothing has been lost (`CursorCarriesOn`); `output_idle` is true
of the history at the moment it is given (`OutputIdleSound`); a waiter is never
parked on a history that covers it (`NoLostWakeup`); `channel_closed` is only said
of a pane that a sample has found gone (`NoFalseClosed`), and a pane that a sample
finds gone is gone for good (`ClosedIsGone`); a sample is of the process it names
(`SampleOfOne`); exactly the healthy observers in use are sampled
(`TimerIffHealthy`). In the hub, whoever watches a Channel has a loop or a poll, or
is told of the interruption, under every order of attaching, detaching, answers
and errors (`Attended`); records in use stay (`TableSound`); without the poll
fallback the ring holds each line read once, in order and on the right side of
each user turn (`TranscriptExact`, `TurnsBound`). A page that has had its frames
shows exactly the ring (`MirrorExact`). Nothing is sent to a pane twice, and what
is answered "delivered" is there (`DeliveredIsThere`). Racing supervisors end with
the keeper in place, and no kill of the Console by its whole name takes it away
(`EnsureSound`).

What does not hold (runs that expect a violation, `findings` in `PROJECT.json`):

* `stuck_wait`: with 4096 live cursors a wait that reaches `output_idle` never
  returns: `finish` marks it done before `issue` throws. It keeps its place among
  the waiters for ever. Leases end after five minutes, so this needs a client
  that observes very often.
* `mirror_chunked`: when one chunk of the MCP server's output holds the answer to
  a read and the answer to a send, the ring gets the output first and the user turn
  second, but viewers are told of them the other way round. The page keeps its own
  order until the next snapshot, while the reload of the page shows the ring's.

Divergences seen while modelling that no run is spent on:

* The Console ends the keeper by the beginning of its name. `killSession` looks the
  whole name up among the protected sessions (`console/src/session-lifecycle.ts` 188)
  and runs `kill-session -t name` (191), without the `=` that the keeper script writes.
  With no scope set, or one that holds such a name, `agent-runtime` kills
  `agent-runtime-keeper`, of which `console/README.md` 127 says that it "is always
  protected"; in the same way a kill may end a session out of scope. The model does
  all that: `EnsureSound` counts it as a disturbance, and `KeeperOutlivesKills`
  (section 4) says which names keep it from happening.
* The limit of two waiters is kept for an observer (`src/observation.ts` 77), while
  `docs/mcp-contract.md` 220 promises it for a Channel. An observer that has expired or
  failed is replaced without a word to its waiters; until they notice, they wait
  beside those of the new one. `WaiterAccounting` says what the code does.
* A poll tick that is reading when the last viewer leaves arms its timer again
  beside the loop that the next viewer starts (`console/src/observer.ts` 377), against
  the "at most one" of the comment at 196-198. `Attended` asks for one path at least.
* `docs/mcp-contract.md` 83 reserves `channel_closed` for a loss on the same server.
  `sampleObservation` compares the generations before and after the inventory, neither
  with that of the observer (`src/tmux-backend.ts` 355): after a crash and a restart
  between two samples, the new server is asked and the client hears `channel_closed`.
  `ClosedIsGone` says only that the pane is gone.
* A cursor whose lease has ended is often reported as CURSOR_INVALID, because
  `issue` purges it without retiring it.
* When polls have shown lines before the first attach of a hub succeeds, that attach
  shows them again as earlier output (`console/src/observer.ts` 436).
* `console/src/projection.ts` 72-73 says that later earlier output "still
  attribute by order"; one recorded after a user turn is shown in no turn.
* A configuration with `tailLines` above `maxLines` is legal
  (`console/src/config.ts` 163, 170): the first read then evicts itself in the
  delta that tells of it, and the page, which has the snapshot without it, adds it
  again.
* Bookmarks name entries by id in local storage, and the ids start again with the
  Console. When a stream is refused the page says that it is retrying, which
  `EventSource` does not do for such a status.
* On the page, the answer to a kill ends whatever selection there is by then; the
  success of a transfer closes a dialog that was opened later; a change of a choice
  enables the button again while a request is under way; a dialog cancelled before
  its targets have come appears again, empty. None of them sends text elsewhere:
  `TransferAsConfirmed` holds with all of them in the model.

## 4. Proofs

`SampleGateProofs` proves, for any number of callers, slots and queue entries,
the types, that the counter is exact at every instant and no slot idles beside
the queue (`SlotsCounted`), that the queue holds the waiting calls (`QueueExact`),
and that `SampleGate` implements `SlotGate`. The checked properties are not inductive: nothing in them says why nobody takes the
slot that has been promised. The invariant `GateInv` adds the shape of the
microtask queue (`MicroShape`: at most one resumption, always at its head, behind
it the return of the caller that released the slot) and that the signal of a
waiting call has not fired. `GateInductive` has one step per action; the
refinement follows from the invariant, each action mapping to a step of
`SlotGate` or to a stutter. The assumptions are those on the constants: finitely
many callers, at least one slot. `QueueLemmas` holds the facts about `RemoveAt`,
`Append` and `Tail` on injective sequences, and those about what is computed along
a sequence: `Induct` and `InductUpTo` (induction on positions, the predicate given
as a set of naturals, since an operator could not be instantiated), and `Recursion`
and `SameRecursion` (a function that is computed step by step on `0..n` exists, and
is the only one with its steps).

`ObservationProofs` proves, for any numbers of Channels, observers and waiters,
any limits, lease, gap and length of the history: type correctness, that
`waiterCount` is the number of calls that have not returned and that neither the
global limit of waiters nor that of an observer is exceeded (`WaitersCounted`), and that the history has no hole
(`HistoryWithoutHole`). The invariant `ObsInv` has five parts, by variables:
`TableOK`, `CursorsOK`, `RecordsOK`, `WaitOK` and the type of the gate. What it
adds to the checked properties is why each of them is preserved: a call is
counted exactly in certain phases; a call that is not idle holds a cursor, so its
observer stays the same from one state to the next; and no sample lies in the
future, so a new event comes after the last. The assumptions are the named ones
of `Observation`: finite sets of waiters, limits and times that are naturals.

The next part of `ObservationProofs` proves the remaining invariants. Four of
them say that tables agree (`JobsMatch`, `TimerIffHealthy`, `ObserverBound`,
`LeaseHonoured`), and they need one another: a new observer may take a place in the
table only because the old one is out of use (`Vacant`) from the start of its
creation to the end; that the timer of the old one is off, in turn, needs
`TimerIffHealthy`; a cursor is taken from the table only with its observer, and
`ValidInUse` says that no valid observer leaves it; and the gate holds a job for
exactly what `creating`, the records and the calls have in flight (`GateOK`).
`TableInv` is their conjunction with who owns what (`Owned`, `CursorsGood`,
`CallsOwned`). The other four say what a call is told (`OutputIdleSound`,
`CursorCarriesOn`, `NoLostWakeup`, `NoFalseClosed`). `ToldInv` adds to `TableInv`
that every call holds an issued cursor, that a lease ends within the life time, and
that only a sample closes an observer without a failure; what `CursorCarriesOn`
asks of the table then follows from `LeaseHonoured`, because the cursor that is
given back was issued and has not expired. Steps of the calls leave the observers
alone; the others run only when no call is on its way out (`Quiet`), so only parked
calls have something to lose, and they are woken whenever their observer changes.

The last part proves that the manager implements `CursorContract`
(`ObservationRefinesContract`), for all values of the constants. Each action maps to
one step of the contract or is unseen:

| Manager | Contract |
|---|---|
| `Tick`, `ObserveRenew`, `Created` | `Tick`, `Renew`, `Open` |
| `ObserveCreate`, `IntervalFires` | `Fail` of an observer that is given up, or unseen |
| `SampleEnds` | `Sample`, `Vanish`, `Fail`, or unseen |
| `Admit`, `Refuse` | `Ask`, `TurnAway` |
| `Evaluate`, `Confirmed`, `ValidationFails`, `Deadline`, `Cancel` | `TimesOut`, `HearsClosed`, `Fails`, `OutputIdle`, `Forget`, or unseen |
| `Settle`, `Thrown` | `Return` |

It needs two facts beyond `ToldInv`, which `ClientInv` adds. The table holds only
cursors that were given, and finitely many, so a full table is a reason that the
contract knows (`FullIsExhausted`, `IssueIsGive`). And an observer whose pane is gone
has no sample under way and is not sampled again (`Still`), so what clients see of it
stays. From `ToldInv` comes that an observer closed without a failure was closed by a
sample, so `channel_closed` is told only of a stream that is gone. The delicate step
is `Confirmed`: between the evaluation that found the output quiet and the validation
that confirms the pane there may have been a sample, a failure, or an eviction, and
`output_idle` is true only because the observer is looked up and the candidate is
compared again (`StillCandidate`).

`HistoryHubProofs` proves, for any numbers of Channels, viewers and chains of
ticks and any limits, the types, `Attended` (`ViewersAttended`) and `TableSound`
(`TableKept`). `Attended` is not inductive: `addViewer` starts no loop if there is
a timer handle, so a handle must belong to a chain that still lives; and every
exit of loop and tick looks at `stopped`, so who is watched must not be stopped.
`HubInv` adds these two, and for the types that the current block lies within the
ring. That the proof goes through although a tick may read beside the loop
(section 3) shows that this costs calls, never a viewer's loop. That
the position to evict exists is `LeastIndex`, from the well-foundedness of `<`.
Where no call fails so that the tail would be polled (`"polling" \notin Codes`, as
in the run `hub_transcript`) it also proves `StateHonest` and `TurnsBound`. The
invariant is `PlainHub` beside `HubInv`: no chain of ticks exists (`NoPoll`), so the
loop is the only reader and never reads less than was read before (`Reader`), and
every user turn stands before the place where output goes (`TurnsWithin`).
`InsertKeeps` is the fact about sequences behind it: later lines that are inserted
behind the turns leave the ring in order.
Under the same hypothesis it proves `TranscriptExact` (`TranscriptsAreExact`): the
lines shown are those up to the last read, each once, in order. `PlainHub` carries
it with the turns (`InTurns`): a read adds exactly the lines from `lastRead` on,
behind all others, and what the Console records adds none.

`MirrorProofs` proves the ring, for all values of the constants, chunked answers
included (`RingIsExact`, `GrowingBlocksAreLast`). `RingInv` says what `Evict` and
`Update` rely on: the entries are numbered without a gap from `droppedEntries` on,
so an id is found at one position; the counter is the sum of the lines; the block
named by `currentBlock` is the only one that may not be closed, and no user turn
comes after it. The sums are recursive functions along the entries: `Dropped`,
`Grown` and `Altered` say how dropping a prefix, appending and changing one entry
change them.

It then proves that a page that has had every frame shows exactly the ring
(`PagesAreExact`), for any number of pages and frames under way. `MirrorExact`
speaks only of pages without frames; the invariant `MirrorInv` says what the frames
are worth. `LinkInv`: the viewers of the hub are the pages with an open stream, and
nothing is under way to the others. `CopyInv`: there is one ring, the ring as it was
last told, such that every viewer's page becomes a copy of it once it has had the
frames under way; `lastDropped` is what that ring has dropped; and what is due to be
told brings that ring to the present one (`Brings`), or has evicted something, when
the frame carries the whole ring (`Toward`). A copy may keep more than the ring: a
first read that evicts the block it has extended is told in two frames, a snapshot
without the block and then the update, which puts the block back into `byId`; it has
no place in `order`, so it is not shown. The lemmas say that a delta applied to a copy of one ring gives
a copy of the next: for an appended entry, for one that is updated, for both at
once when a user turn closes a block, and for a snapshot, whose turns are made
anew. Turns, nodes and articles follow because a change touches only the last turn
or the nodes of one entry, so `reconcile` in place arrives where making everything
anew would.

The theorem has two hypotheses, and both are where the code itself is wrong
without them. `~Chunked`: two answers in one chunk give another order, as the run
`mirror_chunked` shows. No read is longer than the ring: with a legal configuration
of `tailLines` above `maxLines` the first read evicts itself (section 3), and TLC
violates `MirrorExact` with `Reads = {3}` and `MaxLines = 2`. The defaults of 400
lines and 5000 are far within.

`ConsoleProofs` proves first `ConnectionSound` and `SlotsExact` of the two
components of the Console, for any number of calls, processes, attempts, viewers
and any limit. `McpInv` adds which process there is in
each state of the connection: without that, nothing excludes that the process that
`Dial` starts is a second one. `SlotsExact` is inductive with the types: each
action does to a counter what it does to the set it counts.

Then it proves that the composition implements both
(`ImplementsComponents`): every step of `Console`, whatever `Follows` adds to it,
is a step of `McpClient` or leaves it alone, and the same for `TerminalAttach`. So
what is proved of them holds of the whole. Of the whole it proves `DeliveredIsThere`
and `BuffersGone` for any number of requests. The invariant `ConsoleInv` says for
each stage of a tool what has been written and what may still run late (`Staged`,
`BufferKept`), what the codes mean (`Reported`), and that a tool runs only for a
call that was sent (`Begun`); the counts of `DeliveredIsThere` become "no two
places of the screen are alike" (`Distinct`).

`TmuxScopeProofs` proves `SampleOfOne`, `ClosedIsGone` and `EnsureSound` for any
numbers of sessions, servers, pids, panes, processes and supervisors, whatever names
sessions have, so the bounds of the run hide nothing. The argument is that a server never goes back
(`ServerMoves`): it numbers panes and processes upwards, and another server is a
later one. So a process that has been seen in the pane stays a lower bound of what
runs there while its server lasts (`Seen`); a sample that sees the same process
before and after its capture, with the same start time of the server around it,
leaves no room for another one. A pane that a running server does not have, in
whatever session, does not come back with the process the observer was bound to
(`Gone`): the generation is read twice only to be sure that a server has answered.
`PidsLast` is needed where a pid that was read is looked up in `/proc` later. For the
supervisors (`SupervisorsEndWell`) the invariant is `KeeperTold`: who has been told
that the keeper is there is right, unless disturbed. Whatever names sessions have, a
kill that has passed the checks is not given the name of the keeper; if it takes the
keeper, it was another name, and everybody is disturbed. `KeeperOutlivesKills` has a
hypothesis, `KeeperOutOfReach`: where no name in scope begins that of the keeper, no
command of the Console ends it. The code ensures no such thing (section 3).

`PageProofs` proves `TransferAsConfirmed` and `SelectedListed` for any Channels,
texts and number of requests under way. What a confirmation relies on is
`DialogSound`: a choice is the operator's, and an open dialog shows the text that
it would send. Every action but the confirmation itself keeps both and sends no
text (`StepSettles`). `SelectedListed` covers a list that comes empty, and says
nothing while the page shows that the list is unavailable.

Only model-checked: the liveness properties (`QueuedIsServed`, `WaitEnds`,
`ObserverRetired`, `UnwatchedStops`, `OutputShown`, `EveryRequestEnds`), because
fairness and ENABLED are out of the prover's reach. Every safety property that a
passing run checks is stated by a theorem, under the hypotheses named above.

## 5. Not modelled

* Phase diagnostics, logging, adapters, markdown, packaging: they keep no state
  that another part depends on.
* Configuration and the bind guard: evaluated once before anything runs.
* The matching of texts by `diffTail` and the cutting of a read by lines and bytes:
  heuristics on wording; `HistoryHub` has `diffTail` for panes that only grow.
* The HTTP server's routing, authority check, heartbeats and static files; a socket
  that is lost during the await of its upgrade; the delayed notice of a stream that
  the other side has closed.
* On the page: raw view, search, bookmarks, scrolling, the probes of health,
  lifecycle and terminal.
* That the stdio server shuts down once: a flag set in one synchronous step.
* The limit on the number of Channels listed, and the parsing of tmux's formats.

## 6. Plan

Done: the gate, the observation manager and its contract, the hub, the mirror, the path of a request
and of its answer, the tmux server with those who use it, and the page. What would
add most next, in this order:

1. The hub composed with `CursorContract`, in place of its own idea of a wait.
2. A restart of the Console in `Mirror`, with the bookmarks that outlive it.
