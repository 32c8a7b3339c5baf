---------------------------- MODULE Observation ----------------------------
(***************************************************************************)
(* ObservationManager (src/observation.ts): bounded observation of the     *)
(* output of tmux Channels.  observe() opens or renews the lease of a      *)
(* Channel's observer and issues a cursor; wait() holds a waiter until     *)
(* output newer than its cursor is followed by quiet, the deadline passes, *)
(* or continuity is lost; an interval timer samples every observed Channel *)
(* through a gate of Slots concurrent backend batches.                     *)
(*                                                                         *)
(* Grain.  Node runs each callback to completion and drains its microtasks *)
(* before the next timer, request or process exit.  An action is one such  *)
(* macrotask, and may start only when no microtask is pending (Quiet);     *)
(* the continuations it causes (an evaluation of a woken waiter, the       *)
(* finally block of wait) are actions of their own that run first.         *)
(*                                                                         *)
(* Data.  A backend batch answers with an outcome: what the sample or the  *)
(* validation says of the pane compared with what the observer holds.  A   *)
(* cursor is what its token binds: observer, sequence number, expiry.      *)
(* Time is counted in units of one sampling interval.                      *)
(***************************************************************************)
EXTENDS Integers, Sequences, FiniteSets, SequencesExt

CONSTANTS
  Channels, Observers, Waiters,   \* Channels, observer ids, concurrent wait calls
  None,                           \* no observer, no failure
  Slots,                          \* concurrent backend batches (2)
  MaxQueue,                       \* MAX_SAMPLE_QUEUE
  MaxObservers,                   \* MAX_OBSERVERS
  MaxWaitersPerChannel,           \* MAX_WAITERS_PER_CHANNEL: of each observer of the Channel
  MaxWaitersGlobal,               \* MAX_WAITERS_GLOBAL
  MaxTokens,                      \* MAX_TOKENS
  MaxRetired,                     \* the literal 256 of maybeDispose
  MaxHistory,                     \* MAX_HISTORY
  Lease, Lifetime, Gap, Interval, \* LEASE_MS, LIFETIME_MS, MAX_SAMPLE_GAP_MS, SAMPLE_INTERVAL_MS
  Idles, Timeouts,                \* the idle_ms and timeout_ms that callers pass
  MaxTime                         \* bound of the model: the clock stops here

ASSUME SetsAssumption ==
  /\ IsFiniteSet(Waiters) /\ IsFiniteSet(Channels) /\ IsFiniteSet(Observers)
  /\ None \notin Observers
ASSUME LimitsAssumption ==
  /\ {Slots, MaxObservers, MaxWaitersPerChannel, MaxHistory, Interval} \subseteq Nat \ {0}
  /\ {MaxQueue, MaxWaitersGlobal, MaxTokens, MaxRetired, Gap, MaxTime} \subseteq Nat
  /\ Lease \in Nat \ {0} /\ Lifetime \in Nat /\ Lease <= Lifetime
ASSUME InputsAssumption == Idles \subseteq Nat \ {0} /\ Timeouts \subseteq Nat \ {0}

VARIABLES
  now,          \* the monotonic clock
  observers,    \* this.observers: Channel -> its observer or None
  obs,          \* the observer records, by id
  born,         \* ids handed out so far
  creating,     \* this.creating: Channels whose first sample is pending
  tokens,       \* this.tokens
  retired,      \* this.retired: invalidated cursors with their error code
  disposals,    \* number of disposals so far, the age of a retired cursor
  issued,       \* every cursor a client has been given
  waiterCount,  \* this.waiterCount
  gate,         \* activeSamples and sampleQueue, with the jobs they stand for
  wait          \* the wait calls

cursorVars == <<tokens, retired, disposals, issued>>
vars == <<now, observers, obs, born, creating, cursorVars, waiterCount, gate, wait>>

-----------------------------------------------------------------------------
(* Records.                                                                *)

\* What can go wrong with a backend batch: the pane is another one, or any
\* other failure of the backend.
BackendCodes == {"CHANNEL_INSTANCE_CHANGED", "BACKEND_UNAVAILABLE"}
FailureCodes == BackendCodes \cup {"CURSOR_EXPIRED", "OBSERVATION_GAP"}
RefusalCodes == FailureCodes \cup {"CURSOR_INVALID", "WAITER_LIMIT"}
ErrorCodes == RefusalCodes \cup {"RESOURCE_EXHAUSTED", "BACKEND_OPERATION_FAILED"}
Reasons == {"output_idle", "timeout", "channel_closed"}
ASSUME NoneAssumption == None \notin ErrorCodes \cup Reasons

Event == [seq : Nat, at : Nat, sample : Nat]

Observer ==
  [channel : Channels \cup {None}, created : Nat, validUntil : Nat,
   seq : Nat, evicted : Nat, events : Seq(Event),
   closed : BOOLEAN, failure : FailureCodes \cup {None},
   timer : BOOLEAN, due : Nat, sampling : BOOLEAN,
   lastSampleAt : Nat, sampleCount : Nat,
   lossSeen : BOOLEAN]   \* history variable: a sample has proved the pane gone

Unborn ==
  [channel |-> None, created |-> 0, validUntil |-> 0,
   seq |-> 0, evicted |-> 0, events |-> <<>>,
   closed |-> FALSE, failure |-> None,
   timer |-> FALSE, due |-> 0, sampling |-> FALSE,
   lastSampleAt |-> 0, sampleCount |-> 0, lossSeen |-> FALSE]

Token == [obs : Observers, seq : Nat, exp : Nat]
NoToken == [obs |-> None, seq |-> 0, exp |-> 0]
Retired == [token : Token, code : FailureCodes \cup {"CURSOR_INVALID"}, turn : Nat]

\* A wait call.  arriving: its first evaluation is due; ready: another one is;
\* admitting, confirming: it awaits its first, its last validation; parked: it
\* awaits a sample or its poll timer; settling: its promise is settled, its
\* finally block is due; refused: it was turned away; stuck: it is marked done
\* but its promise will never be settled.
Phases == {"idle", "arriving", "ready", "admitting", "confirming", "parked",
           "settling", "refused", "stuck"}
WaitCall ==
  [phase : Phases, token : Token \cup {NoToken}, idle : Nat, deadline : Nat,
   dirty : BOOLEAN, candidate : Nat,
   result : Reasons \cup ErrorCodes \cup {None},
   next : Token \cup {NoToken}, activity : BOOLEAN]
NoWait ==
  [phase |-> "idle", token |-> NoToken, idle |-> 0, deadline |-> 0,
   dirty |-> FALSE, candidate |-> 0, result |-> None, next |-> NoToken, activity |-> FALSE]

Registered == {"arriving", "ready", "admitting", "confirming", "parked"}
Counted == Registered \cup {"settling", "stuck"}

\* observer.waiters
WaitersOf(o) == {w \in Waiters : wait[w].phase \in Registered /\ wait[w].token.obs = o}

\* No microtask is pending.
Quiet == \A w \in Waiters : wait[w].phase \notin {"arriving", "ready", "settling", "refused"}

-----------------------------------------------------------------------------
(* The sampling gate, with the atomic hand-over that SampleGate justifies. *)
(* A waiter that ends during its validation leaves a detached batch: the   *)
(* backend command goes on and keeps its slot.                             *)

Creation(c) == [kind |-> "create", of |-> c]
Sampling(o) == [kind |-> "sample", of |-> o]
Validation(w) == [kind |-> "validate", of |-> w]
Jobs == {Creation(c) : c \in Channels} \cup {Sampling(o) : o \in Observers}
          \cup {Validation(w) : w \in Waiters}

Busy(g) == Cardinality(g.running) + g.detached
Full(g) == Busy(g) >= Slots /\ Len(g.queue) >= MaxQueue

Submit(g, j) ==
  IF Busy(g) >= Slots THEN [g EXCEPT !.queue = Append(@, j)]
                      ELSE [g EXCEPT !.running = @ \cup {j}]

\* Seeded fault of HandOver: the slot stays free.
HandOverNothing(g) == g

HandOver(g) ==
  IF g.queue = <<>> THEN g
  ELSE [g EXCEPT !.running = @ \cup {Head(g.queue)}, !.queue = Tail(@)]

Release(g, j) == HandOver([g EXCEPT !.running = @ \ {j}])

\* workAbort.abort() of a waiter that is done.
Withdraw(g, j) ==
  IF j \in g.running THEN [g EXCEPT !.running = @ \ {j}, !.detached = @ + 1]
  ELSE IF \E i \in DOMAIN g.queue : g.queue[i] = j
       THEN [g EXCEPT !.queue = RemoveAt(@, CHOOSE i \in DOMAIN g.queue : g.queue[i] = j)]
       ELSE g

-----------------------------------------------------------------------------
(* What a waiter finds when it looks at its observer.                      *)

Init ==
  /\ now = 0
  /\ observers = [c \in Channels |-> None]
  /\ obs = [o \in Observers |-> Unborn]
  /\ born = {} /\ creating = {}
  /\ tokens = {} /\ retired = {} /\ disposals = 0 /\ issued = {}
  /\ waiterCount = 0
  /\ gate = [running |-> {}, queue |-> <<>>, detached |-> 0]
  /\ wait = [w \in Waiters |-> NoWait]

Mapped == {c \in Channels : observers[c] # None}
Healthy(r) == ~r.closed /\ r.failure = None
Valid(r) == Healthy(r) /\ r.validUntil > now
Stale(r) == now - r.lastSampleAt > Gap

\* Seeded fault of Lapsed: the last instant of a lease does not count.
LapsedEarly(r, t) == t.exp <= now \/ r.validUntil < now \/ r.failure = "CURSOR_EXPIRED"

\* validateToken's first test.
Lapsed(r, t) == t.exp < now \/ r.validUntil < now \/ r.failure = "CURSOR_EXPIRED"

\* Seeded fault of Verdict: the eviction is not looked at.
VerdictIgnoringEviction(r, t) ==
  IF Lapsed(r, t) THEN "CURSOR_EXPIRED"
  ELSE IF r.failure # None THEN r.failure
  ELSE IF r.closed THEN "closed"
  ELSE IF Stale(r) THEN "OBSERVATION_GAP"
  ELSE "active"

\* ensureActive, and the same tests in the same order in timeoutResult: an
\* error code, "closed" or "active".
Verdict(r, t) ==
  IF Lapsed(r, t) THEN "CURSOR_EXPIRED"
  ELSE IF t.seq < r.evicted THEN "OBSERVATION_GAP"
  ELSE IF r.failure # None THEN r.failure
  ELSE IF r.closed THEN "closed"
  ELSE IF Stale(r) THEN "OBSERVATION_GAP"
  ELSE "active"

\* There is an event after the cursor; it has been followed by a later sample
\* and by the idle time.
Fresh(r, t) == r.events # <<>> /\ Last(r.events).seq > t.seq
Covered(r, t, idle) ==
  /\ Fresh(r, t)
  /\ r.sampleCount > Last(r.events).sample
  /\ r.lastSampleAt >= Last(r.events).at + idle

-----------------------------------------------------------------------------
(* Cursors: issue and maybeDispose.                                        *)

\* A lease taken now, bounded by the life time of the observer.
LeaseEnd(created) ==
  IF now + Lease <= created + Lifetime THEN now + Lease ELSE created + Lifetime
Cursor(o, r, n) == [obs |-> o, seq |-> n, exp |-> LeaseEnd(r.created)]

\* What issue leaves in the table before it adds to it.
Unexpired == {t \in tokens : t.exp >= now}
TableFull == Cardinality(Unexpired) >= MaxTokens

\* Seeded fault of Issue: a full table drops what it holds.
IssueEvicting(o, r, n) ==
  /\ tokens' = (IF TableFull THEN {} ELSE Unexpired) \cup {Cursor(o, r, n)}
  /\ issued' = issued \cup {Cursor(o, r, n)}

\* issue(observer, seq): the expired cursors are purged first; a full table
\* throws RESOURCE_EXHAUSTED.  Cursors of one binding issued in one instant are
\* one cursor here.
Issue(o, r, n) ==
  IF TableFull
  THEN tokens' = Unexpired /\ UNCHANGED issued
  ELSE /\ tokens' = Unexpired \cup {Cursor(o, r, n)}
       /\ issued' = issued \cup {Cursor(o, r, n)}

\* this.retired keeps the MaxRetired latest insertions; the cursors of one
\* disposal are inserted in the order they were issued.
Later(a, b) ==
  \/ a.turn > b.turn
  \/ a.turn = b.turn /\ a.token.exp > b.token.exp
  \/ a.turn = b.turn /\ a.token.exp = b.token.exp /\ a.token.seq > b.token.seq
Latest(R) == {e \in R : Cardinality({f \in R : Later(f, e)}) < MaxRetired}

\* Seeded fault of RetirementCode: only a failure is looked at.
RetirementCodeOfFailure(r) == r.failure

RetirementCode(r) ==
  IF r.failure # None THEN r.failure
  ELSE IF r.closed THEN "CHANNEL_INSTANCE_CHANGED" ELSE "CURSOR_INVALID"

Dispose(o, r) ==
  LET own == {t \in tokens : t.obs = o} IN
  /\ observers' = [observers EXCEPT ![r.channel] = None]
  /\ tokens' = tokens \ own
  /\ retired' = Latest(retired \cup
       {[token |-> t, code |-> RetirementCode(r), turn |-> disposals] : t \in own})
  /\ disposals' = disposals + 1

\* A step leaves record r in observer o and the waiters `left` registered, and
\* ends with maybeDispose(observer).
MaybeDispose(o, r, left) ==
  IF left # {} \/ Valid(r)
  THEN obs' = [obs EXCEPT ![o] = r] /\ UNCHANGED <<observers, tokens, retired, disposals>>
  ELSE /\ obs' = [obs EXCEPT ![o] = [r EXCEPT !.timer = FALSE]]
       /\ IF observers[r.channel] = o THEN Dispose(o, r)
          ELSE UNCHANGED <<observers, tokens, retired, disposals>>

\* The failure code is set and the interval is cleared.
Failed(r, code) == [r EXCEPT !.failure = code, !.timer = FALSE]

-----------------------------------------------------------------------------
(* observe().                                                              *)

\* Bound of the model: an observer is created only if its whole life fits.
Fits == now + Lifetime <= MaxTime

\* A valid observer: its lease is renewed and a cursor is issued.
ObserveRenew(c) ==
  /\ Quiet /\ c \in Mapped
  /\ LET o == observers[c]
         r == [obs[o] EXCEPT !.validUntil = LeaseEnd(obs[o].created)] IN
       /\ Valid(obs[o])
       /\ obs' = [obs EXCEPT ![o] = r]
       /\ Issue(o, r, r.seq)
  /\ UNCHANGED <<now, observers, born, creating, retired, disposals, waiterCount, gate, wait>>

\* Seeded faults of Supplant: the old observer is closed but not failed; its
\* interval goes on.
SupplantClosing(c) ==
  IF observers[c] = None
  THEN UNCHANGED <<observers, obs, tokens, retired, disposals>>
  ELSE LET o == observers[c] IN
       MaybeDispose(o, [obs[o] EXCEPT !.closed = TRUE, !.timer = FALSE], WaitersOf(o))
SupplantTicking(c) ==
  IF observers[c] = None
  THEN UNCHANGED <<observers, obs, tokens, retired, disposals>>
  ELSE LET o == observers[c] IN
       MaybeDispose(o, [obs[o] EXCEPT !.failure = "CURSOR_EXPIRED", !.closed = TRUE],
                    WaitersOf(o))

\* An observer that is no longer valid is taken out of use.  It stays mapped
\* while it has waiters, who are not woken.
Supplant(c) ==
  IF observers[c] = None
  THEN UNCHANGED <<observers, obs, tokens, retired, disposals>>
  ELSE LET o == observers[c] IN
       MaybeDispose(o, [Failed(obs[o], "CURSOR_EXPIRED") EXCEPT !.closed = TRUE], WaitersOf(o))

\* Seeded fault of WithinLimit: observers that are being created do not count.
WithinLimitMapped == Cardinality({k \in Channels : observers'[k] # None}) < MaxObservers

WithinLimit ==
  Cardinality({k \in Channels : observers'[k] # None}) + Cardinality(creating) < MaxObservers

\* No valid observer and no pending creation (a caller that finds one pending
\* waits for it and gets the cursor that CreateDone issues).  Above the limit
\* of observers, or with the queue full, the call throws RESOURCE_EXHAUSTED;
\* what happened to the old observer stays.
ObserveCreate(c) ==
  /\ Quiet /\ Fits /\ c \notin creating
  /\ c \in Mapped => ~Valid(obs[observers[c]])
  /\ Supplant(c)
  /\ IF WithinLimit /\ ~Full(gate)
     THEN creating' = creating \cup {c} /\ gate' = Submit(gate, Creation(c))
     ELSE UNCHANGED <<creating, gate>>
  /\ UNCHANGED <<now, born, issued, waiterCount, wait>>

\* The first sample says that the pane is present: the observer is installed,
\* in the place of one that is out of use, and a cursor is issued.
Created(c) ==
  /\ Quiet /\ Fits /\ Creation(c) \in gate.running
  /\ gate' = Release(gate, Creation(c))
  /\ creating' = creating \ {c}
  /\ \E o \in Observers \ born :
       LET r == [Unborn EXCEPT !.channel = c, !.created = now, !.validUntil = now + Lease,
                               !.timer = TRUE, !.due = now + Interval,
                               !.lastSampleAt = now, !.sampleCount = 1] IN
       /\ born' = born \cup {o}
       /\ obs' = [obs EXCEPT ![o] = r]
       /\ observers' = [observers EXCEPT ![c] = o]
       /\ Issue(o, r, 0)
  /\ UNCHANGED <<now, retired, disposals, waiterCount, wait>>

\* The first sample fails, or says that there is no pane.
CreateFailed(c) ==
  /\ Quiet /\ Creation(c) \in gate.running
  /\ gate' = Release(gate, Creation(c))
  /\ creating' = creating \ {c}
  /\ UNCHANGED <<now, observers, obs, born, cursorVars, waiterCount, wait>>

-----------------------------------------------------------------------------
(* wait().                                                                 *)

\* validateToken, as a caller finds it.
TokenError(r, t) ==
  IF Lapsed(r, t) THEN "CURSOR_EXPIRED"
  ELSE IF t.seq < r.evicted THEN "OBSERVATION_GAP" ELSE None

RetiredCode(t) ==
  IF \E e \in retired : e.token = t THEN (CHOOSE e \in retired : e.token = t).code
  ELSE "CURSOR_INVALID"

\* Seeded fault of AtLimit: the waiters of the observer are not looked at.
AtGlobalLimit(o) == waiterCount >= MaxWaitersGlobal

AtLimit(o) ==
  waiterCount >= MaxWaitersGlobal \/ Cardinality(WaitersOf(o)) >= MaxWaitersPerChannel

\* Why a call with cursor t for Channel c is turned away, or None.
Refusal(c, t) ==
  IF t \notin tokens THEN RetiredCode(t)
  ELSE IF observers[obs[t.obs].channel] # t.obs \/ obs[t.obs].channel # c THEN "CURSOR_INVALID"
  ELSE IF TokenError(obs[t.obs], t) # None THEN TokenError(obs[t.obs], t)
  ELSE IF AtLimit(t.obs) THEN "WAITER_LIMIT" ELSE None

\* A client waits with a cursor it was given.
Admit(w, c, t, idle, timeout) ==
  /\ Quiet /\ wait[w].phase = "idle" /\ now + timeout <= MaxTime
  /\ Refusal(c, t) = None
  /\ waiterCount' = waiterCount + 1
  /\ wait' = [wait EXCEPT ![w] = [NoWait EXCEPT !.phase = "arriving", !.token = t,
                                   !.idle = idle, !.deadline = now + timeout]]
  /\ UNCHANGED <<now, observers, obs, born, creating, cursorVars, gate>>

Refuse(w, c, t) ==
  /\ Quiet /\ wait[w].phase = "idle"
  /\ Refusal(c, t) # None
  /\ wait' = [wait EXCEPT ![w] = [NoWait EXCEPT !.phase = "refused", !.token = t,
                                   !.result = Refusal(c, t)]]
  /\ UNCHANGED <<now, observers, obs, born, creating, cursorVars, waiterCount, gate>>

\* finish(): how the call ends.
Ended(w, result, next, activity) ==
  [wait[w] EXCEPT !.phase = "settling", !.result = result, !.next = next,
                  !.activity = activity, !.dirty = FALSE, !.candidate = 0]
Rejected(w, code) == Ended(w, code, NoToken, FALSE)
Closed(w, activity) == Ended(w, "channel_closed", wait[w].token, activity)

\* The observer of w, and what w finds there.
Of(w) == obs[wait[w].token.obs]
Found(w) == Verdict(Of(w), wait[w].token)

\* A waiter that does not find its observer active stops.
Stopped(w, activity) ==
  IF Found(w) = "closed" THEN Closed(w, activity) ELSE Rejected(w, Found(w))

\* timeoutResult
TimedOut(w) ==
  IF Found(w) = "active" THEN Ended(w, "timeout", wait[w].token, Fresh(Of(w), wait[w].token))
  ELSE Stopped(w, FALSE)

\* The part of evaluate() that an admitted waiter with an active observer runs;
\* g is the gate and d says whether a wake arrived since the evaluation began.
Judge(w, g, d) ==
  IF now >= wait[w].deadline
  THEN wait' = [wait EXCEPT ![w] = TimedOut(w)] /\ gate' = g
  ELSE IF ~Covered(Of(w), wait[w].token, wait[w].idle)
  THEN /\ wait' = [wait EXCEPT ![w].phase = IF d THEN "ready" ELSE "parked", ![w].dirty = FALSE]
       /\ gate' = g
  ELSE IF Full(g)
  THEN wait' = [wait EXCEPT ![w] = Rejected(w, "RESOURCE_EXHAUSTED")] /\ gate' = g
  ELSE /\ wait' = [wait EXCEPT ![w].phase = "confirming", ![w].dirty = d,
                               ![w].candidate = Last(Of(w).events).seq]
       /\ gate' = Submit(g, Validation(w))

\* evaluate() is entered: the first time it asks for a validation of the pane.
Evaluate(w) ==
  /\ wait[w].phase \in {"arriving", "ready"}
  /\ IF Found(w) # "active"
     THEN wait' = [wait EXCEPT ![w] = Stopped(w, FALSE)] /\ UNCHANGED gate
     ELSE IF wait[w].phase = "ready" THEN Judge(w, gate, FALSE)
     ELSE IF Full(gate)
     THEN wait' = [wait EXCEPT ![w] = Rejected(w, "RESOURCE_EXHAUSTED")] /\ UNCHANGED gate
     ELSE /\ wait' = [wait EXCEPT ![w].phase = "admitting"]
          /\ gate' = Submit(gate, Validation(w))
  /\ UNCHANGED <<now, observers, obs, born, creating, cursorVars, waiterCount>>

\* A validation ends before the waiter does: its first one,
Admitted(w) ==
  /\ Quiet /\ wait[w].phase = "admitting" /\ Validation(w) \in gate.running
  /\ LET g == Release(gate, Validation(w)) IN
     IF Found(w) # "active"
     THEN wait' = [wait EXCEPT ![w] = Stopped(w, FALSE)] /\ gate' = g
     ELSE Judge(w, g, wait[w].dirty)
  /\ UNCHANGED <<now, observers, obs, born, creating, cursorVars, waiterCount>>

\* Seeded fault of StillCandidate: the history is not read again.
StillCandidateTrusting(w) == TRUE

\* What was covered before the validation is read again after it.
StillCandidate(w) ==
  /\ Covered(Of(w), wait[w].token, wait[w].idle)
  /\ Last(Of(w).events).seq = wait[w].candidate

\* or the one that confirms its candidate.  With the cursor table full the
\* call is marked done before issue throws, and nobody settles its promise.
Confirmed(w) ==
  /\ Quiet /\ wait[w].phase = "confirming" /\ Validation(w) \in gate.running
  /\ gate' = Release(gate, Validation(w))
  /\ LET o == wait[w].token.obs
         n == Last(obs[o].events).seq IN
     IF Found(w) # "active"
     THEN wait' = [wait EXCEPT ![w] = Stopped(w, TRUE)] /\ UNCHANGED <<tokens, issued>>
     ELSE IF now >= wait[w].deadline
     THEN wait' = [wait EXCEPT ![w] = TimedOut(w)] /\ UNCHANGED <<tokens, issued>>
     ELSE IF ~StillCandidate(w)
     THEN /\ wait' = [wait EXCEPT ![w].phase = "ready", ![w].dirty = FALSE, ![w].candidate = 0]
          /\ UNCHANGED <<tokens, issued>>
     ELSE /\ Issue(o, obs[o], n)
          /\ wait' = [wait EXCEPT ![w] =
               IF TableFull THEN [NoWait EXCEPT !.phase = "stuck", !.token = wait[w].token]
               ELSE Ended(w, "output_idle", Cursor(o, obs[o], n), TRUE)]
  /\ UNCHANGED <<now, observers, obs, born, creating, retired, disposals, waiterCount>>

\* The backend rejects the validation.
ValidationFails(w, code) ==
  /\ Quiet /\ wait[w].phase \in {"admitting", "confirming"} /\ Validation(w) \in gate.running
  /\ gate' = Release(gate, Validation(w))
  /\ wait' = [wait EXCEPT ![w] = Rejected(w, code)]
  /\ UNCHANGED <<now, observers, obs, born, creating, cursorVars, waiterCount>>

\* The batch of a waiter that ended during its validation.
DetachedEnds ==
  /\ Quiet /\ gate.detached > 0
  /\ gate' = HandOver([gate EXCEPT !.detached = @ - 1])
  /\ UNCHANGED <<now, observers, obs, born, creating, cursorVars, waiterCount, wait>>

\* Seeded fault of Pending: an evaluation holds the deadline timer off.
PendingParked(w) == wait[w].phase = "parked"

\* Between evaluations, or during one.
Pending(w) == wait[w].phase \in {"admitting", "confirming", "parked"}

\* The deadline timer.
Deadline(w) ==
  /\ Quiet /\ Pending(w) /\ now >= wait[w].deadline
  /\ wait' = [wait EXCEPT ![w] = TimedOut(w)]
  /\ gate' = Withdraw(gate, Validation(w))
  /\ UNCHANGED <<now, observers, obs, born, creating, cursorVars, waiterCount>>

\* The client cancels the call.
Cancel(w) ==
  /\ Quiet /\ Pending(w)
  /\ wait' = [wait EXCEPT ![w] = Rejected(w, "BACKEND_OPERATION_FAILED")]
  /\ gate' = Withdraw(gate, Validation(w))
  /\ UNCHANGED <<now, observers, obs, born, creating, cursorVars, waiterCount>>

\* The poll timer of a parked waiter.
Poll(w) ==
  /\ Quiet /\ wait[w].phase = "parked"
  /\ wait' = [wait EXCEPT ![w].phase = "ready"]
  /\ UNCHANGED <<now, observers, obs, born, creating, cursorVars, waiterCount, gate>>

\* Seeded fault of Settle: the observer is not looked at.
SettleKeepingObserver(w) ==
  /\ wait[w].phase = "settling"
  /\ waiterCount' = waiterCount - 1
  /\ wait' = [wait EXCEPT ![w] = NoWait]
  /\ UNCHANGED <<now, observers, obs, born, creating, cursorVars, gate>>

\* The finally block of wait.
Settle(w) ==
  /\ wait[w].phase = "settling"
  /\ waiterCount' = waiterCount - 1
  /\ wait' = [wait EXCEPT ![w] = NoWait]
  /\ MaybeDispose(wait[w].token.obs, Of(w), WaitersOf(wait[w].token.obs))
  /\ UNCHANGED <<now, born, creating, issued, gate>>

\* A refused call has thrown.
Thrown(w) ==
  /\ wait[w].phase = "refused"
  /\ wait' = [wait EXCEPT ![w] = NoWait]
  /\ UNCHANGED <<now, observers, obs, born, creating, cursorVars, waiterCount, gate>>

-----------------------------------------------------------------------------
(* Sampling.                                                               *)

\* Seeded fault of Woken: the parked waiters are left to their poll timer.
WokenEvaluating(o) ==
  [w \in Waiters |->
    IF w \notin WaitersOf(o) THEN wait[w]
    ELSE [wait[w] EXCEPT !.dirty = wait[w].phase \in {"admitting", "confirming"}]]

\* wake() of every registered waiter: a parked one evaluates at once, one that
\* is evaluating evaluates again.
Woken(o) ==
  [w \in Waiters |->
    IF w \notin WaitersOf(o) THEN wait[w]
    ELSE IF wait[w].phase = "parked" THEN [wait[w] EXCEPT !.phase = "ready"]
    ELSE [wait[w] EXCEPT !.dirty = wait[w].phase \in {"admitting", "confirming"}]]

\* scheduleSample and the start of sample: nothing while a sample is in flight;
\* the gap bound; nothing while the gate is busy; the lease; a batch.  At the
\* end of the modelled time the timer goes on without the clock.
IntervalFires(o) ==
  /\ Quiet /\ obs[o].timer /\ now >= obs[o].due
  /\ LET r == [obs[o] EXCEPT !.due = IF now = MaxTime THEN now ELSE now + Interval] IN
     IF r.sampling \/ (~Stale(r) /\ Busy(gate) >= Slots)
     THEN /\ obs' = [obs EXCEPT ![o] = r]
          /\ UNCHANGED <<observers, tokens, retired, disposals, gate, wait>>
     ELSE IF Stale(r) \/ r.validUntil <= now
     THEN /\ wait' = Woken(o)
          /\ MaybeDispose(o, Failed(r, IF Stale(r) THEN "OBSERVATION_GAP" ELSE "CURSOR_EXPIRED"),
                          WaitersOf(o))
          /\ UNCHANGED gate
     ELSE /\ obs' = [obs EXCEPT ![o] = [r EXCEPT !.sampling = TRUE]]
          /\ gate' = Submit(gate, Sampling(o))
          /\ UNCHANGED <<observers, tokens, retired, disposals, wait>>
  /\ UNCHANGED <<now, born, creating, issued, waiterCount>>

\* How the batch of a sample ends: what it found, or the code it failed with.
Outcomes == {"unchanged", "changed", "closed", "replaced"} \cup BackendCodes
Sampled(r) == [r EXCEPT !.lastSampleAt = now, !.sampleCount = @ + 1]

\* Seeded fault of Trimmed: the eviction is not recorded.
TrimmedSilently(r) ==
  IF Len(r.events) <= MaxHistory THEN r ELSE [r EXCEPT !.events = Tail(@)]

\* trimHistory after one event more.
Trimmed(r) ==
  IF Len(r.events) <= MaxHistory THEN r
  ELSE [r EXCEPT !.events = Tail(@), !.evicted = Head(r.events).seq]

Recorded(r) ==
  Trimmed([r EXCEPT !.seq = @ + 1,
                    !.events = Append(@, [seq |-> r.seq + 1, at |-> now, sample |-> r.sampleCount])])

\* What the outcome makes of the observer: a failure, a gap that is noticed only
\* now, or a sample that counts.
AfterSample(r, outcome) ==
  IF outcome \in BackendCodes THEN Failed(r, outcome)
  ELSE IF Stale(r) THEN Failed(r, "OBSERVATION_GAP")
  ELSE CASE outcome = "closed" ->
              [Sampled(r) EXCEPT !.closed = TRUE, !.timer = FALSE, !.lossSeen = TRUE]
         [] outcome = "replaced" ->
              [Failed(Sampled(r), "CHANNEL_INSTANCE_CHANGED") EXCEPT !.lossSeen = TRUE]
         [] outcome = "changed" -> Recorded(Sampled(r))
         [] outcome = "unchanged" -> Sampled(r)

\* The batch of a sample ends: its slot is released, the observer takes the
\* outcome, the waiters wake.
SampleEnds(o, outcome) ==
  /\ Quiet /\ Sampling(o) \in gate.running
  /\ gate' = Release(gate, Sampling(o))
  /\ wait' = Woken(o)
  /\ MaybeDispose(o, [AfterSample(obs[o], outcome) EXCEPT !.sampling = FALSE], WaitersOf(o))
  /\ UNCHANGED <<now, born, creating, issued, waiterCount>>

-----------------------------------------------------------------------------
Tick ==
  /\ Quiet /\ now < MaxTime
  /\ now' = now + 1
  /\ UNCHANGED <<observers, obs, born, creating, cursorVars, waiterCount, gate, wait>>

ChannelStep(c) == ObserveRenew(c) \/ ObserveCreate(c) \/ Created(c) \/ CreateFailed(c)
ObserverStep(o) == IntervalFires(o) \/ \E outcome \in Outcomes : SampleEnds(o, outcome)
WaiterStep(w) ==
  \/ \E c \in Channels, t \in issued : Refuse(w, c, t)
  \/ \E c \in Channels, t \in issued, idle \in Idles, timeout \in Timeouts :
       Admit(w, c, t, idle, timeout)
  \/ Evaluate(w) \/ Admitted(w) \/ Confirmed(w)
  \/ \E code \in BackendCodes : ValidationFails(w, code)
  \/ Deadline(w) \/ Cancel(w) \/ Poll(w) \/ Settle(w) \/ Thrown(w)

Next ==
  \/ Tick \/ DetachedEnds
  \/ \E c \in Channels : ChannelStep(c)
  \/ \E o \in Observers : ObserverStep(o)
  \/ \E w \in Waiters : WaiterStep(w)

Spec == Init /\ [][Next]_vars

\* The engine drains its microtasks.  A turn of the event loop runs every due
\* timer and the callback of every finished process, however many requests
\* arrive, and the backend commands of samples and of abandoned validations end,
\* for each has a timeout of its own: a macrotask that can run again and again
\* runs.  Nothing is assumed of a validation that is waited for, nor of clients.
Fairness ==
  /\ SF_vars(Tick) /\ SF_vars(DetachedEnds)
  /\ \A c \in Channels : SF_vars(Created(c) \/ CreateFailed(c))
  /\ \A o \in Observers :
       SF_vars(IntervalFires(o)) /\ SF_vars(\E outcome \in Outcomes : SampleEnds(o, outcome))
  /\ \A w \in Waiters :
       WF_vars(Evaluate(w) \/ Settle(w) \/ Thrown(w)) /\ SF_vars(Deadline(w))

FairSpec == Spec /\ Fairness

-----------------------------------------------------------------------------
TypeOK ==
  /\ now \in Nat /\ disposals \in Nat /\ waiterCount \in Nat
  /\ observers \in [Channels -> Observers \cup {None}]
  /\ obs \in [Observers -> Observer]
  /\ born \subseteq Observers /\ creating \subseteq Channels
  /\ tokens \subseteq Token /\ issued \subseteq Token /\ retired \subseteq Retired
  /\ gate \in [running : SUBSET Jobs, queue : Seq(Jobs), detached : Nat]
  /\ wait \in [Waiters -> WaitCall]

\* waiterCount is the number of calls that have not returned; neither the global
\* limit nor that of one observer is ever exceeded, whatever the order in which
\* calls end and observers replace each other (wait counts observer.waiters).  A
\* Channel may have more waiters than that: those of an observer that has been
\* replaced stay beside those of its successor.
WaiterAccounting ==
  /\ waiterCount = Cardinality({w \in Waiters : wait[w].phase \in Counted})
  /\ waiterCount <= MaxWaitersGlobal
  /\ \A o \in Observers : Cardinality(WaitersOf(o)) <= MaxWaitersPerChannel

\* The jobs of the gate are the operations in flight, each once: no operation
\* waits for a batch that nobody runs, no batch outlives its operation except
\* a detached one, and no more than Slots run.
JobOf(j) ==
  \/ j.kind = "create" /\ j.of \in creating
  \/ j.kind = "sample" /\ obs[j.of].sampling
  \/ j.kind = "validate" /\ wait[j.of].phase \in {"admitting", "confirming"}
InQueue(j) == \E i \in DOMAIN gate.queue : gate.queue[i] = j
JobsMatch ==
  /\ \A j \in Jobs : JobOf(j) <=> (j \in gate.running \/ InQueue(j))
  /\ \A j \in gate.running : ~InQueue(j)
  /\ IsInjective(gate.queue)
  /\ Busy(gate) <= Slots
  /\ gate.queue # <<>> => Busy(gate) = Slots

\* The retained events are exactly those after evicted up to seq, without a
\* hole: a cursor that passes the eviction test has lost nothing.
HistoryContiguous ==
  \A o \in Observers : LET r == obs[o] IN
    /\ Len(r.events) <= MaxHistory
    /\ r.seq = r.evicted + Len(r.events)
    /\ \A i \in DOMAIN r.events :
         /\ r.events[i].seq = r.evicted + i
         /\ r.events[i].at <= r.lastSampleAt /\ r.events[i].sample <= r.sampleCount

InUse(o) == \E c \in Channels : observers[c] = o

\* The interval runs for the observers in use and only for them: none goes on
\* sampling a Channel for an observer that nobody can reach, and no observer
\* that can still answer is left without samples.
TimerIffHealthy ==
  \A o \in Observers :
    obs[o].timer <=> (Healthy(obs[o]) /\ InUse(o))

\* Observers in use and observers being created stay within the limit.
ObserverBound == Cardinality(Mapped) + Cardinality(creating) <= MaxObservers

\* Every cursor given to a client stays good until its lease ends, as long as
\* its observer is healthy and leased: nothing else takes it away.
LeaseHonoured ==
  \A t \in issued :
    t.exp >= now /\ Valid(obs[t.obs])
      => t \in tokens /\ InUse(t.obs)

\* output_idle: the last event is newer than the cursor, a later sample found
\* the pane unchanged, the idle time has passed since, the call is in time,
\* and nothing has been recorded after the event the client is told of.
OutputIdleSound ==
  \A w \in Waiters : wait[w].phase = "settling" /\ wait[w].result = "output_idle" =>
    /\ Covered(Of(w), wait[w].token, wait[w].idle)
    /\ wait[w].next.seq = Of(w).seq
    /\ now < wait[w].deadline

\* A wait that ends well ends within both leases and over no gap in the samples,
\* and leaves the client a cursor of a live observer with which it can wait
\* again and from which no event has been lost.  A timeout gives back the very
\* cursor it was called with: it acknowledges nothing.
CursorCarriesOn ==
  \A w \in Waiters :
    wait[w].phase = "settling" /\ wait[w].result \in {"output_idle", "timeout"} =>
      /\ wait[w].token.exp >= now /\ Of(w).validUntil >= now
      /\ now - Of(w).lastSampleAt <= Gap /\ Healthy(Of(w))
      /\ wait[w].result = "timeout" =>
           wait[w].next = wait[w].token /\ (wait[w].activity <=> Of(w).seq > wait[w].token.seq)
      /\ Of(w).validUntil > now =>
           wait[w].next \in tokens /\ InUse(wait[w].token.obs) /\ wait[w].next.seq >= Of(w).evicted

\* No wake-up is lost: when the engine has nothing left to run, no waiter is
\* parked on a history that covers it or on a Channel known to be closed,
\* whatever the order of samples, validations and polls.
NoLostWakeup ==
  Quiet => \A w \in Waiters : wait[w].phase = "parked" =>
    /\ ~Covered(Of(w), wait[w].token, wait[w].idle)
    /\ ~(Of(w).closed /\ Of(w).failure = None)

\* A client hears that the pane is gone only if a batch has found it gone: an
\* observer that is closed to make way for another one does not look like it.
NoFalseClosed ==
  \A w \in Waiters :
    wait[w].phase \in {"settling", "refused"} /\ wait[w].result = "channel_closed"
      => Of(w).lossSeen

-----------------------------------------------------------------------------
\* Every wait ends, by its deadline at the latest.
WaitEnds == \A w \in Waiters : (wait[w].phase # "idle") ~> (wait[w].phase = "idle")

\* An observer that has failed, closed or outlived its lease is taken out of
\* the table, so that it stops counting against the limit.
ObserverRetired == \A o \in Observers : (o \in born /\ ~Valid(obs[o])) ~> ~InUse(o)

-----------------------------------------------------------------------------
(* What clients see of it: CursorContract.                                 *)

StateOf(r) ==
  IF Healthy(r) THEN "live" ELSE IF r.failure = None /\ r.lossSeen THEN "gone" ELSE "dead"
LastChange(r) == IF r.events = <<>> THEN 0 ELSE Last(r.events).at

\* An observer in a state, with what is known of it there.
Shown(state, r) ==
  LET In(S, n) == IF state \in S THEN n ELSE 0 IN
  [state |-> state, channel |-> r.channel,
   opened |-> In({"live"}, r.created), until |-> In({"live", "gone"}, r.validUntil),
   seq |-> In({"live"}, r.seq), lost |-> In({"live", "gone"}, r.evicted),
   sampled |-> In({"live"}, r.lastSampleAt), changed |-> In({"live"}, LastChange(r))]
Stream(o) == Shown(IF o \in born THEN StateOf(obs[o]) ELSE "none", obs[o])

\* A client does not see how its call is evaluated.
StageOf(phase) ==
  CASE phase = "idle" -> "idle"
    [] phase \in Registered -> "open"
    [] phase \in {"settling", "refused"} -> "told"
    [] phase = "stuck" -> "forgotten"
Call(x) ==
  [at |-> StageOf(x.phase), cursor |-> x.token, idle |-> x.idle, deadline |-> x.deadline,
   result |-> x.result, next |-> x.next, activity |-> x.activity]

Contract == INSTANCE CursorContract WITH
  stream <- [o \in Observers |-> Stream(o)],
  given <- issued,
  call <- [w \in Waiters |-> Call(wait[w])]

\* Whatever timers, samples, validations and limits do, clients see what the
\* contract says: each answer is true when it is given, a cursor holds as long as
\* its lease and its stream do, nothing is forgotten early, and no stream or
\* cursor comes back.
ImplementsContract == Contract!Spec
=============================================================================
