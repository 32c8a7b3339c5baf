--------------------------- MODULE CursorContract ---------------------------
(***************************************************************************)
(* What the observation manager promises its clients.  A stream is what    *)
(* clients know of an observer: how many changes of the pane it has seen,  *)
(* how many of them are forgotten, when it last looked.  A cursor is a     *)
(* place in a stream, good until it expires.  A call waits with a cursor   *)
(* and gets one answer, and each answer is given only where it is true: at *)
(* the moment of the step, not later when the client reads it.             *)
(*                                                                         *)
(* There are no timers, no samples under way, no gate, no table of cursors *)
(* and no validations here.                                                *)
(***************************************************************************)
EXTENDS Integers, FiniteSets

CONSTANTS Channels, Observers, Waiters, None, MaxTokens, MaxHistory,
          Lease, Lifetime, Gap, Idles, Timeouts

VARIABLES
  now,      \* the clock
  stream,   \* the streams, by the id of their observer
  given,    \* every cursor a client has been given
  call      \* the calls of wait()

contractVars == <<now, stream, given, call>>

\* none: not opened yet.  live: the pane is looked at.  gone: a sample has found
\* no pane.  dead: it has failed or was abandoned, and nothing more is promised.
NoStream ==
  [state |-> "none", channel |-> None, opened |-> 0, until |-> 0,
   seq |-> 0, lost |-> 0, sampled |-> 0, changed |-> 0]
Opened(c) ==
  [state |-> "live", channel |-> c, opened |-> now, until |-> now + Lease,
   seq |-> 0, lost |-> 0, sampled |-> now, changed |-> 0]
Gone(r) ==
  [state |-> "gone", channel |-> r.channel, opened |-> 0, until |-> r.until,
   seq |-> 0, lost |-> r.lost, sampled |-> 0, changed |-> 0]
Dead(r) ==
  [state |-> "dead", channel |-> r.channel, opened |-> 0, until |-> 0,
   seq |-> 0, lost |-> 0, sampled |-> 0, changed |-> 0]

NoCursor == [obs |-> None, seq |-> 0, exp |-> 0]
Idle ==
  [at |-> "idle", cursor |-> NoCursor, idle |-> 0, deadline |-> 0,
   result |-> None, next |-> NoCursor, activity |-> FALSE]
Asked(t, idle, deadline) ==
  [at |-> "open", cursor |-> t, idle |-> idle, deadline |-> deadline,
   result |-> None, next |-> NoCursor, activity |-> FALSE]
Refused(t, code) ==
  [at |-> "told", cursor |-> t, idle |-> 0, deadline |-> 0,
   result |-> code, next |-> NoCursor, activity |-> FALSE]
Told(x, result, next, activity) ==
  [at |-> "told", cursor |-> x.cursor, idle |-> x.idle, deadline |-> x.deadline,
   result |-> result, next |-> next, activity |-> activity]
Forgotten(t) ==
  [at |-> "forgotten", cursor |-> t, idle |-> 0, deadline |-> 0,
   result |-> None, next |-> NoCursor, activity |-> FALSE]

\* How a call can fail; the last two only before it has begun.
Codes == {"CURSOR_EXPIRED", "OBSERVATION_GAP", "CHANNEL_INSTANCE_CHANGED",
          "BACKEND_UNAVAILABLE", "BACKEND_OPERATION_FAILED", "RESOURCE_EXHAUSTED"}
Refusals == Codes \cup {"CURSOR_INVALID", "WAITER_LIMIT"}

Init ==
  /\ now = 0
  /\ stream = [o \in Observers |-> NoStream]
  /\ given = {}
  /\ call = [w \in Waiters |-> Idle]

-----------------------------------------------------------------------------
(* Streams and their leases.                                               *)

LeaseEnd(opened) ==
  IF now + Lease <= opened + Lifetime THEN now + Lease ELSE opened + Lifetime

\* A cursor at the end of stream o, which has counted n changes.
Newest(o, opened, n) == [obs |-> o, seq |-> n, exp |-> LeaseEnd(opened)]

\* Only so many unexpired cursors are kept; then no other one is given.
Exhausted == Cardinality({t \in given : t.exp >= now}) >= MaxTokens
Give(t) == given' = given \cup {t} \/ (Exhausted /\ UNCHANGED given)

Usable(o) == stream[o].state = "live" /\ stream[o].until > now
InGap(o) == now - stream[o].sampled <= Gap

Tick == now' = now + 1 /\ UNCHANGED <<stream, given, call>>

\* A Channel has at most one usable stream.
Open(o, c) ==
  /\ stream[o].state = "none"
  /\ \A p \in Observers : ~(Usable(p) /\ stream[p].channel = c)
  /\ stream' = [stream EXCEPT ![o] = Opened(c)]
  /\ Give([obs |-> o, seq |-> 0, exp |-> LeaseEnd(now)])
  /\ UNCHANGED <<now, call>>

Renew(o) ==
  /\ Usable(o)
  /\ stream' = [stream EXCEPT ![o].until = LeaseEnd(stream[o].opened)]
  /\ Give(Newest(o, stream[o].opened, stream[o].seq))
  /\ UNCHANGED <<now, call>>

\* A sample finds nothing new, or a change; the oldest change is forgotten when
\* more than MaxHistory are held, never earlier.
SeesNothing(r) == [r EXCEPT !.sampled = now]
SeesChange(r) ==
  [state |-> "live", channel |-> r.channel, opened |-> r.opened, until |-> r.until,
   seq |-> r.seq + 1,
   lost |-> IF r.seq + 1 - r.lost > MaxHistory THEN r.lost + 1 ELSE r.lost,
   sampled |-> now, changed |-> now]
Sample(o) ==
  /\ stream[o].state = "live" /\ InGap(o)
  /\ \/ stream' = [stream EXCEPT ![o] = SeesNothing(stream[o])]
     \/ stream' = [stream EXCEPT ![o] = SeesChange(stream[o])]
  /\ UNCHANGED <<now, given, call>>

Vanish(o) ==
  /\ stream[o].state = "live" /\ InGap(o)
  /\ stream' = [stream EXCEPT ![o] = Gone(stream[o])]
  /\ UNCHANGED <<now, given, call>>

Fail(o) ==
  /\ stream[o].state \in {"live", "gone"}
  /\ stream' = [stream EXCEPT ![o] = Dead(stream[o])]
  /\ UNCHANGED <<now, given, call>>

-----------------------------------------------------------------------------
(* Calls.                                                                  *)

\* Cursor t is unexpired, its stream leased, and nothing after it is forgotten.
Holds(t) ==
  t.exp >= now /\ stream[t.obs].until >= now /\ t.seq >= stream[t.obs].lost

\* A call begins with a cursor of its Channel, which is good.
Ask(w, c, t, idle, timeout) ==
  /\ call[w].at = "idle"
  /\ stream[t.obs].channel = c
  /\ stream[t.obs].state = "dead" \/ Holds(t)
  /\ call' = [call EXCEPT ![w] = Asked(t, idle, now + timeout)]
  /\ UNCHANGED <<now, stream, given>>

\* A call is turned away.  An unexpired cursor of a usable stream is refused only
\* where changes are lost, or where too many calls wait.
TurnAway(w, c, t, code) ==
  /\ call[w].at = "idle"
  /\ Usable(t.obs) /\ t.exp >= now /\ stream[t.obs].channel = c =>
       code = IF t.seq < stream[t.obs].lost THEN "OBSERVATION_GAP" ELSE "WAITER_LIMIT"
  /\ call' = [call EXCEPT ![w] = Refused(t, code)]
  /\ UNCHANGED <<now, stream, given>>

\* A call waits until it has its answer.
Waits(w) == call[w].at = "open"
Answer(w, result, next, activity) ==
  /\ call' = [call EXCEPT ![w] = Told(call[w], result, next, activity)]
  /\ UNCHANGED <<now, stream>>

StreamOf(w) == stream[call[w].cursor.obs]

\* The stream is looked at in time, and the cursor of the call still holds.
Watched(w) == StreamOf(w).state = "live" /\ InGap(call[w].cursor.obs) /\ Holds(call[w].cursor)
Newer(w) == StreamOf(w).seq > call[w].cursor.seq

\* There is a change after the cursor, and it has been quiet since for the idle
\* time.  The client goes on at the end of the stream.
OutputIdle(w) ==
  LET o == call[w].cursor.obs
      next == Newest(o, stream[o].opened, stream[o].seq) IN
  /\ Waits(w) /\ Watched(w) /\ Newer(w) /\ now < call[w].deadline
  /\ stream[o].sampled >= stream[o].changed + call[w].idle
  /\ Answer(w, "output_idle", next, TRUE)
  /\ given' = given \cup {next}

\* The time is up.  The client goes on where it was.
TimesOut(w) ==
  /\ Waits(w) /\ Watched(w) /\ now >= call[w].deadline
  /\ Answer(w, "timeout", call[w].cursor, Newer(w))
  /\ UNCHANGED given

\* The pane is gone; nothing was forgotten before.
HearsClosed(w) ==
  /\ Waits(w) /\ StreamOf(w).state = "gone" /\ Holds(call[w].cursor)
  /\ \E activity \in BOOLEAN : Answer(w, "channel_closed", call[w].cursor, activity)
  /\ UNCHANGED given

\* The call fails.  A lease that has not ended is not called expired, and where
\* nothing is missing no gap is reported.
Fails(w, code) ==
  /\ Waits(w)
  /\ code = "CURSOR_EXPIRED" =>
       \/ StreamOf(w).state = "dead"
       \/ call[w].cursor.exp < now \/ StreamOf(w).until < now
  /\ code = "OBSERVATION_GAP" =>
       \/ StreamOf(w).state = "dead"
       \/ call[w].cursor.seq < StreamOf(w).lost
       \/ StreamOf(w).state = "live" /\ ~InGap(call[w].cursor.obs)
  /\ Answer(w, code, NoCursor, FALSE)
  /\ UNCHANGED given

\* The call is never answered: output_idle is due and there is no cursor for it.
Forget(w) ==
  /\ Waits(w) /\ Watched(w) /\ Newer(w) /\ Exhausted
  /\ call' = [call EXCEPT ![w] = Forgotten(call[w].cursor)]
  /\ UNCHANGED <<now, stream, given>>

Return(w) ==
  /\ call[w].at = "told"
  /\ call' = [call EXCEPT ![w] = Idle]
  /\ UNCHANGED <<now, stream, given>>

-----------------------------------------------------------------------------
StreamStep(o) ==
  \/ \E c \in Channels : Open(o, c)
  \/ Renew(o) \/ Sample(o) \/ Vanish(o) \/ Fail(o)

CallStep(w) ==
  \/ \E c \in Channels, t \in given, idle \in Idles, timeout \in Timeouts :
       Ask(w, c, t, idle, timeout)
  \/ \E c \in Channels, t \in given, code \in Refusals : TurnAway(w, c, t, code)
  \/ OutputIdle(w) \/ TimesOut(w) \/ HearsClosed(w) \/ Forget(w)
  \/ \E code \in Codes : Fails(w, code)
  \/ Return(w)

Next ==
  \/ Tick
  \/ \E o \in Observers : StreamStep(o)
  \/ \E w \in Waiters : CallStep(w)

Spec == Init /\ [][Next]_contractVars
=============================================================================
